-------------------------------- MODULE Room --------------------------------
(***************************************************************************)
(* The room beside the timeline: what it is given (Room.tsx, readings.ts),  *)
(* when it draws (Room3D.js, activity.ts), the film on its television, and  *)
(* the two things that drive it without a score, the sliders of Force.tsx   *)
(* and the preview of an effect (Effects.tsx).                             *)
(*                                                                         *)
(* React hands the room what changed right after the change, so an action   *)
(* ends with what the room is given; the room's own frames come when the    *)
(* browser gives them. How bright the room, its wash and its particles are  *)
(* and where the camera stands change nothing that is modelled here.        *)
(***************************************************************************)
EXTENDS Presets

CONSTANTS
    Settings,           \* [score, rigs, films, levels, offered]: a sequence of tracks, the
                        \* sets of instruments there may be, the video elements, where a
                        \* slider may be left and the presets that are tried, by name
    Seats,              \* the instruments that move the seat
    Moments,            \* of the film, where the playhead may be
    Colours,            \* that may be picked, as three bytes
    Loops, GapMs,       \* PREVIEW_LOOPS, GAP_SECONDS
    Glimpses,           \* frames that a preview gets
    MaxEdits            \* of the score

\* A score is a sequence of tracks, each of an instrument.
ASSUME RoomAssumption ==
    \A s \in Settings :
        /\ s.score \in Seq({s.score[k] : k \in DOMAIN s.score})
        /\ \A k \in DOMAIN s.score : "instrument" \in DOMAIN s.score[k]

ASSUME MomentsAssumption == Moments \subseteq Nat

VARIABLES
    setting,            \* which of them this is
    score, edits, time, rig,
    film,               \* [element, frame, wanted, playing]: what it shows, where it is sent
    onScreen, projecting,
    forced, byHand,     \* levels, and whose were set with the sliders
    target, chosen,     \* a track and a preset, 0 for none
    elapsed,            \* of the preview, in glimpses, -1 while none runs
    side,               \* whether the panels are there
    room,               \* "off", "loading" or "ready"
    scene,              \* what it was told
    textures, canvas, repaint,   \* the film in it: whose, and the small copy
    told, was,          \* Activity
    drawn,              \* the last picture
    late                \* a frame came that the room was not told of

props == <<setting, score, edits, time, rig, forced, byHand, target, chosen, elapsed, side>>
filming == <<film, onScreen, projecting>>
inside == <<scene, textures, canvas, repaint, told, was, drawn, late>>
vars == <<props, filming, room, inside>>

NoFilm == "none"
Off == -1
On == 20

-----------------------------------------------------------------------------
(* What is drawn *)

\* A forced level wins over the score and borrows its colour.
Reading(id, doing, levels) ==
    LET s == IF id \in DOMAIN doing THEN doing[id] ELSE Idle
    IN IF id \in DOMAIN levels
       THEN [level |-> levels[id],
             colour |-> CssColour(IF s.active THEN s.params ELSE [intensity |-> One])]
       ELSE [level |-> IF s.active THEN s.level ELSE 0, colour |-> CssColour(s.params)]

\* A forced seat sways on its own, any other stands where its cue says.
Wallowing(levels) == \E id \in DOMAIN levels \cap Seats : levels[id] > 0
Pose(doing, levels) ==
    LET moving == {id \in DOMAIN doing : Kind[id] = "motion"}
    IN IF Wallowing(levels) THEN [wallow |-> TRUE, params |-> None]
       ELSE [wallow |-> FALSE, params |-> IF moving = {} THEN None
                                          ELSE doing[CHOOSE id \in moving : TRUE].params]

Devices(doing, levels, ids) == [id \in ids |-> Reading(id, doing, levels)]

Picture(doing, levels, ids, held, frame, copy) ==
    [devices |-> Devices(doing, levels, ids), seat |-> Pose(doing, levels),
     screen |-> IF held.screen = NoFilm THEN Off ELSE frame,
     thrown |-> IF held.thrown = NoFilm THEN Off ELSE copy]

Running == film.playing /\ film.frame # Off
Moving ==
    \/ \E id \in rig : Reading(id, scene, forced).level > On
    \/ Wallowing(forced)
    \/ Running /\ (textures.screen # NoFilm \/ textures.thrown # NoFilm)

\* A frame copies the film for the projector while it runs, or once when asked to.
Copied == IF textures.thrown # NoFilm /\ film.frame # Off /\ (Running \/ repaint)
          THEN film.frame ELSE canvas
Asked == repaint /\ ~(textures.thrown # NoFilm /\ film.frame # Off)

\* update: what the score says now, drawn at once; the film may have moved too.
Update ==
    /\ UNCHANGED textures
    /\ scene' = Evaluate(score', time')
    /\ canvas' = IF textures.thrown # NoFilm /\ film'.frame # Off THEN film'.frame ELSE canvas
    /\ repaint' = ~(textures.thrown # NoFilm /\ film'.frame # Off)
    /\ told' = FALSE /\ was' = TRUE
    /\ drawn' = Picture(scene', forced', rig', textures', film'.frame, canvas')
    /\ late' = FALSE

Told == IF room = "ready" THEN Update ELSE UNCHANGED inside

\* Mutation: commands change the score in place, and nobody looks inside it.
EditUnnoticed == UNCHANGED inside
\* The score object is the same before and after an edit: its revision is watched.
Edited == Told

\* The loop draws what is in motion, what it was told of, and once more after that.
Frame ==
    /\ room = "ready"
    /\ UNCHANGED <<props, filming, room, scene, textures, late>>
    /\ canvas' = Copied
    /\ repaint' = Asked
    /\ was' = (Moving \/ told)
    /\ told' = FALSE
    /\ IF Moving \/ told \/ was THEN drawn' = Picture(scene', forced', rig', textures', film'.frame, canvas') ELSE UNCHANGED drawn

-----------------------------------------------------------------------------
(* The film on the television *)

\* applyFilm: one film for both that want it; what nobody wants is released, and
\* everything is when the element is another. A copy made anew is empty.
Textures(had, screen, thrown) ==
    LET video == IF screen # NoFilm THEN screen ELSE thrown
        kept == IF video = had.picture THEN had
                ELSE [picture |-> video, screen |-> NoFilm, thrown |-> NoFilm]
        held(now, wanted) == IF wanted = NoFilm THEN NoFilm ELSE IF now = NoFilm THEN video ELSE now
    IN [picture |-> video, screen |-> held(kept.screen, screen), thrown |-> held(kept.thrown, thrown)]

\* The two are told one after the other, each when what it is given has changed.
ApplyFilm ==
    LET want(wants, element) == IF wants THEN element ELSE NoFilm
        first == Textures(textures, want(onScreen', film'.element), want(projecting, film.element))
    IN /\ textures' = Textures(first, want(onScreen', film'.element), want(projecting', film'.element))
       /\ canvas' = IF textures.thrown = first.thrown /\ first.thrown = textures'.thrown THEN canvas ELSE Off
       /\ repaint' = TRUE /\ told' = TRUE
       /\ late' = FALSE
       /\ UNCHANGED <<scene, was, drawn>>

GivenFilm == IF room = "ready" THEN ApplyFilm ELSE UNCHANGED inside

ToggleScreen == onScreen' = ~onScreen /\ UNCHANGED <<film, projecting, props, room>> /\ GivenFilm
ToggleProjection == projecting' = ~projecting /\ UNCHANGED <<film, onScreen, props, room>> /\ GivenFilm

\* Another film: its element is mounted, or there is none, and has no picture yet.
Mount(element) ==
    /\ element # film.element
    /\ NoFilm \in {element, film.element}
    /\ film' = [element |-> element, frame |-> Off, wanted |-> 0, playing |-> FALSE]
    /\ UNCHANGED <<onScreen, projecting, props, room>>
    /\ GivenFilm

Seek(t) ==
    /\ t # time
    /\ time' = t
    /\ film' = IF film.element # NoFilm THEN [film EXCEPT !.wanted = t] ELSE film
    /\ UNCHANGED <<setting, score, edits, rig, forced, byHand, target, chosen, elapsed, side, onScreen, projecting, room>>
    /\ Told

\* The frame sought is there. The playhead follows the element's own time, which tells
\* the room when it is not what the playhead was to the last digit.
Present(heard) ==
    /\ film.element # NoFilm /\ film.frame # film.wanted
    /\ film' = [film EXCEPT !.frame = film.wanted]
    /\ time' = film.wanted
    /\ UNCHANGED <<setting, score, edits, rig, forced, byHand, target, chosen, elapsed, side, onScreen, projecting, room>>
    /\ IF heard \/ film.wanted # time
       THEN Told
       ELSE late' = (room = "ready") /\ UNCHANGED <<scene, textures, canvas, repaint, told, was, drawn>>

PlayPause ==
    /\ film.frame # Off
    /\ film' = [film EXCEPT !.playing = ~@]
    /\ UNCHANGED <<props, onScreen, projecting, room, inside>>

\* While it plays the playhead comes from the frames.
Advance ==
    /\ film.playing /\ film.frame = film.wanted
    /\ LET later == {t \in Moments : t > film.frame}
       IN \/ /\ later = {}
             /\ film' = [film EXCEPT !.playing = FALSE]
             /\ UNCHANGED <<props, onScreen, projecting, room, inside>>
          \/ \E t \in later :
                /\ \A u \in later : t <= u
                /\ film' = [film EXCEPT !.frame = t, !.wanted = t]
                /\ time' = t
                /\ UNCHANGED <<setting, score, edits, rig, forced, byHand, target, chosen, elapsed, side,
                               onScreen, projecting, room>>
                /\ Told

-----------------------------------------------------------------------------
(* Driving it by hand and by preview *)

Without(levels, id) == [d \in DOMAIN levels \ {id} |-> levels[d]]
With(levels, id, v) == [d \in DOMAIN levels \cup {id} |-> IF d = id THEN v ELSE levels[d]]

Slide(id, v) ==
    /\ side /\ room # "off" /\ id \in rig
    /\ forced' = IF v = 0 THEN Without(forced, id) ELSE With(forced, id, v)
    /\ forced' # forced
    /\ byHand' = IF v = 0 THEN byHand \ {id} ELSE byHand \cup {id}
    /\ UNCHANGED <<setting, score, edits, time, rig, target, chosen, elapsed, side, filming, room>>
    /\ Told

ReleaseAll ==
    /\ side /\ room # "off" /\ forced # None
    /\ forced' = None /\ byHand' = {}
    /\ UNCHANGED <<setting, score, edits, time, rig, target, chosen, elapsed, side, filming, room>>
    /\ Told

Instrument == IF target = 0 THEN "none" ELSE score[target].instrument
Preset == Library[chosen]
Cycle == Preset.ms + GapMs

\* Mutation: a preview that is stopped leaves the device as it was.
StopLeaving == elapsed' = Off /\ UNCHANGED <<forced, byHand>>

\* The cleanup of a preview that runs: the device goes back to the score, and so does
\* one that a slider held.
Stop ==
    /\ elapsed' = Off
    /\ IF elapsed = Off THEN UNCHANGED <<forced, byHand>>
       ELSE forced' = Without(forced, Instrument) /\ byHand' = byHand \ {Instrument}

\* Another track; one of another instrument forgets what was picked.
Focus(k) ==
    /\ k # target
    /\ target' = k
    /\ LET instrument == IF k = 0 THEN "none" ELSE score[k].instrument
       IN IF instrument = Instrument \/ ~side \/ room = "off"
          THEN UNCHANGED <<chosen, elapsed, forced, byHand>>
          ELSE chosen' = 0 /\ Stop
    /\ UNCHANGED <<setting, score, edits, time, rig, side, filming, room>>
    /\ Told

Listed(k) ==
    /\ Library[k].id \in setting.offered
    /\ Suits(Library[k], Kind[Instrument], score[target].type)

Pick(k) ==
    /\ side /\ room # "off" /\ target # 0 /\ Listed(k)
    /\ chosen' = IF chosen = k THEN 0 ELSE k
    /\ Stop
    /\ UNCHANGED <<setting, score, edits, time, rig, target, side, filming, room>>
    /\ Told

TogglePreview ==
    /\ side /\ room # "off" /\ target # 0 /\ chosen # 0
    /\ IF elapsed = Off THEN elapsed' = 0 /\ UNCHANGED <<forced, byHand>> ELSE Stop
    /\ UNCHANGED <<setting, score, edits, time, rig, target, chosen, side, filming, room>>
    /\ Told

\* Mutation: the envelope starts over for as long as it is picked.
PreviewForever ==
    /\ elapsed # Off
    /\ elapsed' = (elapsed + 1) % Glimpses
    /\ LET f == ((((elapsed * Cycle * Loops) \div Glimpses) % Cycle) * Whole) \div Preset.ms
       IN forced' = With(forced, Instrument,
                         IF f > Whole THEN 0 ELSE Magnitude(ValueOf(Preset.shape, f)))
    /\ UNCHANGED <<setting, score, edits, time, rig, target, chosen, byHand, side, filming, room>>
    /\ Told

\* A frame of it, or the last: it has run for so many cycles of shape and gap.
PreviewFrame ==
    /\ elapsed # Off
    /\ IF elapsed >= Glimpses
       THEN Stop
       ELSE LET f == ((((elapsed * Cycle * Loops) \div Glimpses) % Cycle) * Whole) \div Preset.ms
            IN /\ elapsed' = elapsed + 1
               /\ forced' = With(forced, Instrument,
                                 IF f > Whole THEN 0 ELSE Magnitude(ValueOf(Preset.shape, f)))
               /\ UNCHANGED byHand
    /\ UNCHANGED <<setting, score, edits, time, rig, target, chosen, side, filming, room>>
    /\ Told

\* The panels go, and with them what was picked.
ToggleSide ==
    /\ room # "off"
    /\ side' = ~side
    /\ IF side THEN chosen' = 0 /\ Stop ELSE UNCHANGED <<chosen, elapsed, forced, byHand>>
    /\ UNCHANGED <<setting, score, edits, time, rig, target, filming, room>>
    /\ Told

SwitchRig(r) ==
    /\ r # rig
    /\ rig' = r
    /\ UNCHANGED <<setting, score, edits, time, forced, byHand, target, chosen, elapsed, side, filming, room>>
    /\ Told

-----------------------------------------------------------------------------
(* Edits that the room shows *)

CanEdit == edits < MaxEdits /\ target # 0

InsertChosen ==
    /\ CanEdit /\ side /\ room # "off" /\ chosen # 0
    /\ edits' = edits + 1
    /\ CanBuild(Preset, score[target])
    /\ score' = [score EXCEPT ![target] = Inserted(Preset, @, time)]
    /\ UNCHANGED <<setting, time, rig, forced, byHand, target, chosen, elapsed, side, filming, room>>
    /\ Edited

\* A colour for a cue or a point, from the inspector.
ParamsOf(track, k) == IF track.type = "cue" THEN track.cues[k].params ELSE track.points[k].value
Recoloured(track, k, hex) ==
    IF track.type = "cue" THEN [track EXCEPT !.cues[k].params = WriteColour(@, hex)]
    ELSE [track EXCEPT !.points[k].value = WriteColour(@, hex)]

Recolour(k, hex) ==
    /\ CanEdit
    /\ edits' = edits + 1
    /\ RgbOf(ParamsOf(score[target], k)) # <<>>
    /\ score' = [score EXCEPT ![target] = Recoloured(@, k, hex)]
    /\ score' # score
    /\ UNCHANGED <<setting, time, rig, forced, byHand, target, chosen, elapsed, side, filming, room>>
    /\ Edited

-----------------------------------------------------------------------------
(* The room comes and goes *)

NoTextures == [picture |-> NoFilm, screen |-> NoFilm, thrown |-> NoFilm]
Undrawn == [devices |-> None, seat |-> [wallow |-> FALSE, params |-> None], screen |-> Off, thrown |-> Off]

\* Closed, with its panels, and disposed of.
ToggleRoom ==
    /\ IF room = "off" THEN room' = "loading" /\ UNCHANGED <<chosen, elapsed, forced, byHand>>
       ELSE room' = "off" /\ chosen' = 0 /\ Stop
    /\ scene' = None /\ textures' = NoTextures /\ canvas' = Off /\ repaint' = TRUE
    /\ told' = TRUE /\ was' = TRUE /\ drawn' = Undrawn /\ late' = FALSE
    /\ UNCHANGED <<setting, score, edits, time, rig, target, side, filming>>

\* Its code has come: it is built and given everything.
Built ==
    /\ room = "loading"
    /\ room' = "ready"
    /\ UNCHANGED <<props, filming>>
    /\ textures' = Textures(Textures(textures, IF onScreen THEN film.element ELSE NoFilm, NoFilm),
                            IF onScreen THEN film.element ELSE NoFilm,
                            IF projecting THEN film.element ELSE NoFilm)
    /\ scene' = Evaluate(score, time)
    /\ canvas' = IF textures'.thrown # NoFilm THEN film.frame ELSE canvas
    /\ repaint' = ~(textures'.thrown # NoFilm /\ film.frame # Off)
    /\ told' = FALSE /\ was' = TRUE /\ drawn' = Picture(scene', forced', rig', textures', film'.frame, canvas') /\ late' = FALSE

Init ==
    /\ setting \in Settings /\ score = setting.score /\ rig \in setting.rigs
    /\ edits = 0 /\ time = Min(Moments)
    /\ film = [element |-> NoFilm, frame |-> Off, wanted |-> 0, playing |-> FALSE]
    /\ onScreen = FALSE /\ projecting = FALSE
    /\ forced = None /\ byHand = {} /\ target = 0 /\ chosen = 0 /\ elapsed = Off /\ side = TRUE
    /\ room = "loading" /\ scene = None /\ textures = NoTextures /\ canvas = Off /\ repaint = TRUE
    /\ told = TRUE /\ was = TRUE /\ drawn = Undrawn /\ late = FALSE

Next ==
    \/ Frame \/ Built \/ ToggleRoom
    \/ ToggleScreen \/ ToggleProjection \/ PlayPause \/ Advance
    \/ \E element \in setting.films \cup {NoFilm} : Mount(element)
    \/ \E t \in Moments : Seek(t)
    \/ \E heard \in BOOLEAN : Present(heard)
    \/ \E id \in rig, v \in setting.levels \cup {0} : Slide(id, v)
    \/ ReleaseAll \/ TogglePreview \/ PreviewFrame \/ ToggleSide \/ InsertChosen
    \/ \E k \in 0..Len(score) : Focus(k)
    \/ \E k \in DOMAIN Library : Pick(k)
    \/ \E r \in setting.rigs : SwitchRig(r)
    \/ target # 0 /\ \E hex \in Colours :
           \E k \in DOMAIN score[target].cues \cup DOMAIN score[target].points : Recolour(k, hex)

\* The browser goes on giving a preview its frames: what one does to the preview itself.
Glimpse == elapsed # Off /\ elapsed' = IF elapsed >= Glimpses THEN Off ELSE elapsed + 1
Fairness == WF_elapsed(Glimpse)

Spec == Init /\ [][Next]_vars /\ Fairness

-----------------------------------------------------------------------------
(* Properties *)

\* When the room has nothing left to draw, what it shows is what the score, the
\* sliders and the film say now: it draws on demand and nothing it was told is lost.
\* But for a frame sought while the film stood still, of which nobody told it.
DrawnIsCurrent ==
    (room = "ready" /\ ~told /\ ~was /\ ~Moving) =>
        /\ drawn.devices = Devices(Evaluate(score, time), forced, rig)
        /\ drawn.seat = Pose(Evaluate(score, time), forced)
        /\ late \/ /\ drawn.screen = IF onScreen /\ film.element # NoFilm THEN film.frame ELSE Off
                   /\ drawn.thrown = IF projecting /\ film.element # NoFilm THEN film.frame ELSE Off

\* Nothing keeps hold of a device: what is driven was set with a slider and not yet
\* released, or is what the preview that runs is of.
NothingHeld ==
    DOMAIN forced \subseteq byHand \cup (IF elapsed = Off THEN {} ELSE {Instrument})

\* A preview stops on its own.
PreviewEnds == (elapsed # Off) ~> (elapsed = Off)

\* What was previewed is what is inserted: half way along every stretch of the shape
\* a curve is as strong as the preview was, and a cue is on where the shape is not at
\* rest, at least as strong as the preview and no stronger than it ever gets, and off
\* where it rests; unless a cue from before is still on.
LandsAsPreviewed(preset, track, at) ==
    LET shape == preset.shape
        between(k) == (shape[k][1] + shape[k + 1][1]) \div 2
        middle(k) == at + ((shape[k][1] + shape[k + 1][1]) * preset.ms) \div (2 * Whole)
        strong(k) == Magnitude(ValueOf(shape, between(k)))
        peak == Max({Magnitude(shape[k][2]) : k \in DOMAIN shape})
        rests(k) == shape[k][2] = 0 /\ shape[k + 1][2] = 0
        levelAt(t) == LevelOf(ValueAt(track.points, t, ChannelsOf(track), IsHsi(track)))
        before == \E k \in DOMAIN track.cues : track.cues[k].t < at /\ track.cues[k].t + Lasts(track.cues[k]) > at
        wide == {k \in 1..(Len(shape) - 1) : (shape[k + 1][1] - shape[k][1]) * preset.ms >= 50 * Whole}
    IN IF track.type = "curve"
       THEN \A k \in wide : Magnitude(levelAt(middle(k)) - strong(k)) <= 50
       ELSE before \/
            \A k \in wide :
              LET on == ActiveCue(track, middle(k))
              IN IF rests(k) THEN on = 0
                 ELSE on # 0 /\ LevelOf(track.cues[on].params) \in (strong(k) - 50)..peak
EffectsLandAsPreviewed ==
    [][InsertChosen => LandsAsPreviewed(Preset, score'[target], time)]_vars

\* The room and the player read the same curve the same way, steps included
\* (score.ts:280-284, state.ts:9-13): the room does not know of steps.
RoomMatchesPlayer ==
    \A k \in DOMAIN score : score[k].type = "curve" =>
        LET plays == PlayerAt(score[k], time)
            shows == ValueAt(score[k].points, time, ChannelsOf(score[k]), IsHsi(score[k]))
        IN \A c \in DOMAIN plays : shows[c] = plays[c]
=============================================================================
