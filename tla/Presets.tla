------------------------------- MODULE Presets -------------------------------
(***************************************************************************)
(* The library of effects and what becomes of one that is dropped onto a    *)
(* track (presets.ts, insertPreset in edits.ts).                           *)
(*                                                                         *)
(* A shape is a sequence of <<how far through, how hard>>, in ten           *)
(* thousandths and thousandths: the narrowest thing in the library is the   *)
(* edge of a pulse, a ten thousandth wide.                                  *)
(***************************************************************************)
EXTENDS Score

Whole == 10000
MinCueMs == 20

-----------------------------------------------------------------------------
(* The library *)

RampUp == << <<0, 0>>, <<Whole, One>> >>
RampDown == << <<0, One>>, <<Whole, 0>> >>
Hold == << <<0, One>>, <<Whole, One>> >>
Hit == << <<0, 0>>, <<400, One>>, <<Whole, 0>> >>
Swell == << <<0, 0>>, <<5000, One>>, <<Whole, 0>> >>
Puff == << <<0, 0>>, <<800, One>>, <<3500, 550>>, <<Whole, 0>> >>
Breathe == << <<0, 150>>, <<2500, 800>>, <<5000, 150>>, <<7500, 800>>, <<Whole, 150>> >>

\* n pulses, each half of its step wide, with edges a hair wide.
Stutter(n) ==
    LET from(i) == (i * Whole) \div n
        upTo(i) == ((2 * i + 1) * Whole) \div (2 * n)
        edges(i) == << <<from(i), 0>>, <<from(i) + 1, One>>, <<upTo(i) - 1, One>>, <<upTo(i), 0>> >>
    IN FlattenSeq([i \in 1..n |-> edges(i - 1)]) \o << <<Whole, 0>> >>

\* (1 - f) to the power of 2.2, in six steps.
Decay == << <<0, 1000>>, <<1667, 670>>, <<3333, 410>>, <<5000, 218>>, <<6667, 89>>, <<8333, 19>>, <<Whole, 0>> >>

P(id, kind, ms, action, shape) == [id |-> id, kind |-> kind, ms |-> ms, action |-> action, shape |-> shape]

\* What is driven by events: doses, and the few that are one instant.
Doses == <<
    P("fog-burst", "fog", 4000, "burst", Hold),
    P("fog-fade", "fog", 5000, "burst", Decay),
    P("fog-swell", "fog", 8000, "burst", Swell),
    P("fog-puff", "fog", 3000, "burst", Puff),
    P("mist-spray", "mist", 3000, "spray", RampUp),
    P("mist-splash", "mist", 1500, "spray", Hit),
    P("mist-drizzle", "mist", 10000, "spray", << <<0, 0>>, <<1000, 350>>, <<9000, 350>>, <<Whole, 0>> >>),
    P("scent-puff", "scent", 1000, "puff", Hold)>>
Winds == <<
    P("wind-gust", "wind", 4000, "gust", Hit),
    P("wind-build", "wind", 12000, "", RampUp),
    P("wind-drop", "wind", 8000, "", RampDown),
    P("wind-buffet", "wind", 10000, "", Breathe),
    P("wind-steady", "wind", 15000, "", Hold)>>
Shakes == <<
    P("shake-hit", "shake", 1200, "hit", Hit),
    P("shake-rumble", "shake", 6000, "", << <<0, 0>>, <<1200, 700>>, <<7000, 600>>, <<Whole, 0>> >>),
    P("shake-quake", "shake", 8000, "", Swell),
    P("shake-stutter", "shake", 2000, "", Stutter(6))>>
Lights == <<
    P("light-flash", "light", 300, "flash", Hit),
    P("light-strobe", "light", 2000, "", Stutter(12)),
    P("light-lightning", "light", 1400, "",
      << <<0, 0>>, <<200, One>>, <<900, 100>>, <<1400, 850>>, <<2200, 50>>, <<4500, 0>>, <<Whole, 0>> >>),
    P("light-fade-in", "light", 3000, "", RampUp),
    P("light-fade-out", "light", 3000, "", RampDown),
    P("light-pulse", "light", 8000, "", Breathe),
    P("light-firelight", "light", 6000, "",
      << <<0, 550>>, <<800, 850>>, <<1600, 500>>, <<2700, 950>>, <<3600, 600>>, <<4800, 800>>,
         <<5700, 450>>, <<6900, 900>>, <<7800, 550>>, <<9000, 750>>, <<Whole, 600>> >>)>>
Motions == <<
    P("motion-drop", "motion", 1500, "", << <<0, 0>>, <<1500, -One>>, <<4500, 250>>, <<Whole, 0>> >>),
    P("motion-lurch", "motion", 1000, "", Hit),
    P("motion-sway", "motion", 12000, "",
      << <<0, 0>>, <<2500, One>>, <<5000, 0>>, <<7500, -One>>, <<Whole, 0>> >>),
    P("motion-climb", "motion", 6000, "", << <<0, 0>>, <<2000, 800>>, <<8000, 800>>, <<Whole, 0>> >>),
    P("motion-settle", "motion", 4000, "", RampDown)>>
Library == Doses \o Winds \o Shakes \o Lights \o Motions

ActionForKind(kind) ==
    CASE kind = "light" -> "flash" [] kind = "shake" -> "hit" [] kind = "wind" -> "gust"
      [] kind = "fog" -> "burst" [] kind = "mist" -> "spray" [] kind = "scent" -> "puff" [] OTHER -> ""

-----------------------------------------------------------------------------
(* Shapes *)

\* Straight between nodes and held at the ends.
ValueOf(shape, f) ==
    LET i == CHOOSE k \in DOMAIN shape : shape[k][1] >= f /\ \A j \in 1..(k - 1) : shape[j][1] < f
        x == shape[i - 1]
        y == shape[i]
    IN IF f <= shape[1][1] THEN shape[1][2]
       ELSE IF f >= Last(shape)[1] THEN Last(shape)[2]
       ELSE x[2] + Rounded((y[2] - x[2]) * (f - x[1]), y[1] - x[1])

\* The stretches that are not at rest, from the node before each to the node after it,
\* or that many further on: <<from, to, peak>>.
Stretches(shape, further) ==
    LET lit(k) == k \in DOMAIN shape /\ shape[k][2] # 0
        rise(k) == lit(k) /\ ~lit(k - 1)
        dark(k) == {j \in DOMAIN shape : j > k /\ ~lit(j)}
        fall(k) == IF dark(k) = {} THEN Len(shape) ELSE Min({Min(dark(k)) + further, Len(shape)})
        pulse(k) == <<IF k = 1 THEN 0 ELSE shape[k - 1][1], shape[fall(k)][1],
                      Max({Magnitude(shape[j][2]) : j \in k..fall(k)})>>
        rises == SelectSeq([k \in DOMAIN shape |-> k], rise)
    IN [n \in DOMAIN rises |-> pulse(rises[n])]

\* Mutation: a pulse goes on until the next one.
PulsesJoined(shape) == Stretches(shape, 1)
Pulses(shape) == Stretches(shape, 0)

\* A track of cues takes what is an event, or what is several.
Suits(preset, kind, type) ==
    /\ preset.kind = kind
    /\ type = "cue" => /\ preset.action # "" \/ ActionForKind(kind) # ""
                       /\ preset.action # "" \/ Len(Pulses(preset.shape)) > 1

-----------------------------------------------------------------------------
(* What is built *)

\* The channels that are a level: with one of them, the others are not driven.
LevelChannels == {"i", "intensity", "output"}
Driven(channels) ==
    IF channels \cap LevelChannels = {} THEN channels
    ELSE {CHOOSE c \in channels \cap LevelChannels : TRUE}

MomentOf(preset, at, f) == at + Rounded(f * preset.ms, Whole)

\* What the channels that are not driven keep: what the curve has there, or nothing.
Base(track, at, channels) ==
    IF Driven(channels) # channels /\ track.points # <<>>
    THEN ValueAt(track.points, at, channels, FALSE) ELSE [c \in channels |-> 0]

Params(track, at, channels, v) ==
    [c \in channels |-> IF c \in Driven(channels) THEN v ELSE Base(track, at, channels)[c]]

BuildCues(preset, track, at, channels) ==
    LET pulses == Pulses(preset.shape)
        cue(p) == [t |-> MomentOf(preset, at, p[1]),
                   action |-> IF preset.action # "" THEN preset.action
                              ELSE ActionForKind(Kind[track.instrument]),
                   params |-> Params(track, at, channels, Clamp01(p[3])),
                   duration |-> Max({MinCueMs, Rounded((p[2] - p[1]) * preset.ms, Whole)})]
    IN [n \in DOMAIN pulses |-> cue(pulses[n])]

BuildPoints(preset, track, at, channels) ==
    [n \in DOMAIN preset.shape |->
        [t |-> MomentOf(preset, at, preset.shape[n][1]),
         value |-> Params(track, at, channels, preset.shape[n][2])]]

\* What lies in its stretch makes way, and what is built is merged in order.
Merged(old, new, from, to) ==
    SelectSeq(old, LAMBDA e : e.t < from) \o new \o SelectSeq(old, LAMBDA e : e.t > to)

CanBuild(preset, track) ==
    track.type = "cue" =>
        /\ preset.action # "" \/ ActionForKind(Kind[track.instrument]) # ""
        /\ Pulses(preset.shape) # <<>>

Inserted(preset, track, at) ==
    LET channels == ChannelsOf(track)
        to == at + preset.ms
    IN IF track.type = "cue"
       THEN [track EXCEPT !.cues = Merged(@, BuildCues(preset, track, at, channels), at, to)]
       ELSE [track EXCEPT !.points = Merged(@, BuildPoints(preset, track, at, channels), at, to)]
=============================================================================
