-------------------------------- MODULE Score --------------------------------
(***************************************************************************)
(* What a score says a device is doing at a moment: the curves, the cues    *)
(* and the colours, as the web page reads them (score.ts, state.ts), and    *)
(* curves as the player reads them (curve.go, colour.go).                   *)
(*                                                                         *)
(* Times are milliseconds and values thousandths, which is what the score   *)
(* is rounded to; a value between two points is rounded once more.          *)
(***************************************************************************)
EXTENDS Integers, SequencesExt

CONSTANT
    Kind            \* of an instrument: what the rig says, or its id's first word

One == 1000
Clamp01(v) == IF v < 0 THEN 0 ELSE IF v > One THEN One ELSE v
Magnitude(v) == IF v < 0 THEN -v ELSE v
Rounded(n, d) == (2 * n + d) \div (2 * d)
Times(a, b) == Rounded(a * b, One)

-----------------------------------------------------------------------------
(* How strong *)

LevelKeys == <<"i", "intensity", "level", "amount", "speed", "strength">>
ColourKeys == <<"r", "g", "b">>
HsiKeys == <<"h", "s", "i">>
AxisKeys == <<"surge", "sway", "heave", "roll", "pitch", "yaw">>

Named(keys, p) == SelectSeq(keys, LAMBDA k : k \in DOMAIN p)
Largest(keys, p) == Max({Clamp01(Magnitude(p[k])) : k \in keys})

\* -1 for what has no amplitude.
AmplitudeOf(p) ==
    IF Named(LevelKeys, p) # <<>> THEN Clamp01(p[Head(Named(LevelKeys, p))])
    ELSE IF Named(ColourKeys, p) # <<>> THEN Max({Clamp01(p[k]) : k \in ToSet(Named(ColourKeys, p))})
    ELSE IF Named(AxisKeys, p) # <<>> THEN Largest(ToSet(Named(AxisKeys, p)), p)
    ELSE IF DOMAIN p = {} THEN -1 ELSE Largest(DOMAIN p, p)

\* How much light or movement comes out: colours are averaged.
LevelOf(p) ==
    LET colour == Named(<<"r", "g", "b", "w">>, p)
        sum[k \in 0..Len(colour)] == IF k = 0 THEN 0 ELSE sum[k - 1] + Magnitude(p[colour[k]])
    IN IF DOMAIN p = {} THEN 0
       ELSE IF "i" \in DOMAIN p /\ DOMAIN p \cap {"h", "s"} # {} THEN Clamp01(p["i"])
       ELSE IF colour # <<>> THEN Clamp01(Rounded(sum[Len(colour)], Len(colour)))
       ELSE Clamp01(AmplitudeOf(p))

-----------------------------------------------------------------------------
(* Colours *)

Hue(h) == h % One

\* Six sectors; in each one channel is full, one empty and one on its way.
HsiToRgb(h, s, i) ==
    LET sector == Hue(h) * 6
        f == sector % One
        sat == Clamp01(s)
        val == Clamp01(i)
        p == Times(val, One - sat)
        q == Times(val, One - Times(sat, f))
        t == Times(val, One - Times(sat, One - f))
    IN IF sat = 0 THEN <<val, val, val>>
       ELSE << <<val, t, p>>, <<q, val, p>>, <<p, val, t>>,
               <<p, q, val>>, <<t, p, val>>, <<val, p, q>> >>[(sector \div One) + 1]

\* Grey has no hue and says 0.
RgbToHsi(r, g, b) ==
    LET max == Max({r, g, b})
        span == max - Min({r, g, b})
        sixths == CASE span = 0 -> 0
                    [] span > 0 /\ max = r -> (Rounded((g - b) * One, span) + 6 * One) % (6 * One)
                    [] span > 0 /\ max # r /\ max = g -> Rounded((b - r) * One, span) + 2 * One
                    [] span > 0 /\ max # r /\ max # g -> Rounded((r - g) * One, span) + 4 * One
    IN <<Rounded(sixths, 6), IF max = 0 THEN 0 ELSE Rounded(span * One, max), max>>

\* Empty for what has no colour.
RgbOf(p) ==
    LET at(k) == IF k \in DOMAIN p THEN p[k] ELSE 0
    IN IF DOMAIN p \cap {"h", "s"} # {} THEN HsiToRgb(at("h"), at("s"), at("i"))
       ELSE IF Named(ColourKeys, p) = <<>> THEN <<>>
       ELSE <<Clamp01(at("r")), Clamp01(at("g")), Clamp01(at("b"))>>

\* Two digits of it, or an rgb() of it; and back.
Byte(v) == Rounded(Clamp01(v) * 255, One)
FromByte(n) == Rounded(n * One, 255)
HexOf(p) == IF RgbOf(p) = <<>> THEN <<>> ELSE [k \in 1..3 |-> Byte(RgbOf(p)[k])]
CssColour(p) ==
    LET grey == Byte(IF "intensity" \in DOMAIN p THEN p["intensity"]
                     ELSE IF "i" \in DOMAIN p THEN p["i"] ELSE 0)
    IN IF RgbOf(p) = <<>> THEN <<grey, grey, grey>> ELSE HexOf(p)

\* The channels that a picked colour is written to; a grey leaves the hue as it was.
Spoken(p, saturation) ==
    IF DOMAIN p \cap {"h", "s"} # {} THEN {"s", "i"} \cup (IF saturation > 0 THEN {"h"} ELSE {})
    ELSE {"r", "g", "b"}

\* Only into those that are there.
WriteColour(p, hex) ==
    LET rgb == [k \in 1..3 |-> FromByte(hex[k])]
        hsi == RgbToHsi(rgb[1], rgb[2], rgb[3])
        new == [h |-> hsi[1], s |-> hsi[2], i |-> hsi[3], r |-> rgb[1], g |-> rgb[2], b |-> rgb[3]]
    IN [k \in DOMAIN p |-> IF k \in Spoken(p, hsi[2]) THEN new[k] ELSE p[k]]

\* The short way round, and a hue from the other end where there is none.
LerpHsi(a, b, n, d) ==
    LET at(p, k) == IF k \in DOMAIN p THEN p[k] ELSE 0
        to(x, y) == x + Rounded((y - x) * n, d)
        grey(p) == at(p, "s") <= 0
        ah == IF grey(a) THEN IF grey(b) THEN 0 ELSE Hue(at(b, "h")) ELSE Hue(at(a, "h"))
        bh == IF grey(b) THEN IF grey(a) THEN 0 ELSE Hue(at(a, "h")) ELSE Hue(at(b, "h"))
        turn == IF bh - ah > 500 THEN bh - ah - One
                ELSE IF bh - ah < -500 THEN bh - ah + One ELSE bh - ah
    IN [h |-> Hue(ah + Rounded(turn * n, d)), s |-> to(at(a, "s"), at(b, "s")), i |-> to(at(a, "i"), at(b, "i"))]

-----------------------------------------------------------------------------
(* Curves *)

\* A track: [instrument, type, space, step, cues, points]; a cue: [t, action, params,
\* duration]; a point: [t, value].
IsHsi(track) ==
    track.space = "hsi" \/ \E k \in DOMAIN track.points : {"h", "s"} \subseteq DOMAIN track.points[k].value

ChannelsForKind(kind) ==
    CASE kind = "light" -> ColourKeys
      [] kind \in {"fog", "mist"} -> <<"output">>
      [] kind = "motion" -> <<"heave", "roll", "pitch">>
      [] OTHER -> <<"intensity">>

\* Those its events name, or failing that those of its kind. As a set: the order is
\* the order of the lanes.
ChannelsOf(track) ==
    LET seen == UNION ({DOMAIN track.points[k].value : k \in DOMAIN track.points}
                       \cup {DOMAIN track.cues[k].params : k \in DOMAIN track.cues})
    IN IF seen # {} THEN seen ELSE ToSet(ChannelsForKind(Kind[track.instrument]))

None == [k \in {} |-> 0]
After(points, t) == CHOOSE k \in DOMAIN points : points[k].t > t /\ \A j \in 1..(k - 1) : points[j].t <= t

\* Straight from a to b; a channel that b does not name holds, and one that a does not
\* name jumps.
Toward(a, b, t) ==
    [c \in DOMAIN b.value |->
        IF c \in DOMAIN a.value
        THEN a.value[c] + Rounded((b.value[c] - a.value[c]) * (t - a.t), b.t - a.t)
        ELSE b.value[c]] @@ a.value

\* Held before the first point and after the last.
ValueAt(points, t, channels, hsi) ==
    LET zero == [c \in channels |-> 0]
        a == points[After(points, t) - 1]
        b == points[After(points, t)]
    IN IF points = <<>> THEN zero
       ELSE IF t <= points[1].t THEN points[1].value @@ zero
       ELSE IF t >= Last(points).t THEN Last(points).value @@ zero
       ELSE (IF hsi THEN LerpHsi(a.value, b.value, t - a.t, b.t - a.t) ELSE None)
            @@ Toward(a, b, t) @@ zero

\* The same by the player, who knows of steps and takes the space as it is declared.
PlayerAt(track, t) ==
    LET points == track.points
        a == points[After(points, t) - 1]
        b == points[After(points, t)]
    IN IF points = <<>> THEN None
       ELSE IF t <= points[1].t THEN points[1].value
       ELSE IF t >= Last(points).t THEN Last(points).value
       ELSE IF track.step THEN a.value
       ELSE IF track.space = "hsi"
            THEN LerpHsi(a.value, b.value, t - a.t, b.t - a.t)
                 @@ [c \in DOMAIN a.value |-> Toward(a, b, t)[c]]
            ELSE Toward(a, b, t)

-----------------------------------------------------------------------------
(* The room *)

MomentaryMs == 180
Lasts(cue) == IF cue.duration > 0 THEN cue.duration ELSE MomentaryMs

\* The first that is on, 0 for none.
ActiveCue(track, t) ==
    LET on == {k \in DOMAIN track.cues : track.cues[k].t <= t /\ t < track.cues[k].t + Lasts(track.cues[k])}
    IN IF on = {} THEN 0 ELSE Min(on)

Idle == [active |-> FALSE, params |-> None, level |-> 0]
Doing(p) == [active |-> TRUE, params |-> p, level |-> LevelOf(p)]

\* The last track of an instrument that says something decides: a curve always does,
\* if only that it is idle, a track of cues only while one is on.
Evaluate(score, t) ==
    [id \in {score[k].instrument : k \in DOMAIN score} |->
        LET says == {k \in DOMAIN score : /\ score[k].instrument = id
                                          /\ score[k].type = "curve" \/ ActiveCue(score[k], t) # 0}
            track == score[Max(says)]
        IN IF says = {} THEN Idle
           ELSE IF track.type = "cue" THEN Doing(track.cues[ActiveCue(track, t)].params)
           ELSE IF track.points = <<>> THEN Idle
           ELSE Doing(ValueAt(track.points, t, ChannelsOf(track), IsHsi(track)))]
=============================================================================
