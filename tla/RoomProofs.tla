----------------------------- MODULE RoomProofs -----------------------------
(***************************************************************************)
(* What is driven by hand or by preview is given back, for every score, rig *)
(* and library of presets, however sliders, previews, panels and edits      *)
(* follow each other.                                                      *)
(*                                                                         *)
(* The property is not inductive.  The instrument a preview is of is read   *)
(* again whenever it is needed, so it has to be the one the preview began    *)
(* with: an edit keeps the instrument of the track it changes, and another   *)
(* track comes into focus without the cleanup only while the panels are      *)
(* closed, when no preview runs.                                           *)
(*                                                                         *)
(* And the room shows what is there: a picture it does not mean to draw     *)
(* again is the one it would draw, because what it holds of the film is     *)
(* that film's, its small copy is of the frame or about to be made anew,    *)
(* and whatever changes a score, a level or a film tells it so.             *)
(***************************************************************************)
EXTENDS Room, SequenceTheorems, TLAPS

\* The focus is on a track of the score, which names its instrument.
ScoreInv ==
    /\ score \in Seq({score[k] : k \in DOMAIN score})
    /\ \A k \in DOMAIN score : "instrument" \in DOMAIN score[k]
    /\ target = 0 \/ target \in DOMAIN score

\* A preview runs only beside panels that are open, and counts its glimpses.
PreviewInv ==
    /\ elapsed \in Nat \cup {Off}
    /\ side \in BOOLEAN
    /\ ~side \/ room = "off" => elapsed = Off

RoomInv == ScoreInv /\ PreviewInv /\ NothingHeld

-----------------------------------------------------------------------------
(* What the helpers do to what is driven *)

LEMMA DomainOfWith ==
    ASSUME NEW levels, NEW id, NEW v
    PROVE  DOMAIN With(levels, id, v) = DOMAIN levels \cup {id}
  BY DEF With

LEMMA DomainOfWithout ==
    ASSUME NEW levels, NEW id
    PROVE  DOMAIN Without(levels, id) = DOMAIN levels \ {id}
  BY DEF Without

\* After the cleanup only what the sliders hold is driven.
LEMMA StopReleases ==
    ASSUME NothingHeld, Stop
    PROVE  DOMAIN forced' \subseteq byHand' /\ elapsed' = Off
<1>1. CASE elapsed = Off
  BY <1>1 DEF NothingHeld, Stop
<1>2. CASE elapsed # Off
  <2>1. DOMAIN forced \subseteq byHand \cup {Instrument}
    BY <1>2 DEF NothingHeld
  <2>2. /\ forced' = Without(forced, Instrument) /\ elapsed' = Off
        /\ byHand' = byHand \ {Instrument}
    BY <1>2 DEF Stop
  <2>3. DOMAIN forced' = DOMAIN forced \ {Instrument}
    BY <2>2, DomainOfWithout
  <2>4. QED
    BY <2>1, <2>2, <2>3
<1>3. QED
  BY <1>1, <1>2

\* An effect dropped onto a track, or a colour, leaves its instrument.
LEMMA InsertedKeepsInstrument ==
    ASSUME NEW preset, NEW track, NEW at, "instrument" \in DOMAIN track
    PROVE  /\ "instrument" \in DOMAIN Inserted(preset, track, at)
           /\ Inserted(preset, track, at).instrument = track.instrument
  BY DEF Inserted

LEMMA RecolouredKeepsInstrument ==
    ASSUME NEW track, NEW k, NEW hex, "instrument" \in DOMAIN track
    PROVE  /\ "instrument" \in DOMAIN Recoloured(track, k, hex)
           /\ Recoloured(track, k, hex).instrument = track.instrument
  BY DEF Recoloured

\* A score with one track replaced is a score, of the same tracks.
LEMMA EditKeepsScore ==
    ASSUME ScoreInv, target # 0, NEW track,
           "instrument" \in DOMAIN track,
           track.instrument = score[target].instrument,
           score' = [score EXCEPT ![target] = track],
           UNCHANGED target
    PROVE  ScoreInv' /\ Instrument' = Instrument
<1> DEFINE Tracks == {score'[k] : k \in DOMAIN score'}
<1>1. target \in DOMAIN score /\ DOMAIN score' = DOMAIN score
  BY DEF ScoreInv
<1>2. \A k \in DOMAIN score : score'[k] = IF k = target THEN track ELSE score[k]
  BY <1>1
<1>3. DOMAIN score = 1..Len(score) /\ Len(score) \in Nat
  BY DEF ScoreInv
<1>4. score' \in [1..Len(score) -> Tracks]
  <2>1. score' = [k \in DOMAIN score |-> score'[k]]
    BY <1>1
  <2>2. QED
    BY <1>1, <1>3, <2>1
<1>5. score' \in Seq(Tracks)
  <2>1. \E n \in Nat : score' \in [1..n -> Tracks]
    BY <1>3, <1>4
  <2>2. QED
    <3>1. score' \in UNION {[1..n -> Tracks] : n \in Nat}
      BY <2>1
    <3> HIDE DEF Tracks
    <3>2. Seq(Tracks) = UNION {[1..n -> Tracks] : n \in Nat}
      BY SeqDef
    <3>3. QED
      BY <3>1, <3>2
<1>6. QED
  BY <1>1, <1>2, <1>5 DEF ScoreInv, Instrument

-----------------------------------------------------------------------------
LEMMA InitRoom == Init => RoomInv
<1> SUFFICES ASSUME Init PROVE RoomInv
  OBVIOUS
<1>1. ScoreInv
  BY RoomAssumption DEF Init, ScoreInv
<1>2. PreviewInv /\ NothingHeld
  BY DEF Init, PreviewInv, NothingHeld, None, Off
<1>3. QED
  BY <1>1, <1>2 DEF RoomInv

\* Steps that leave alone what is driven, the preview and the tracks.
LEMMA QuietRoom ==
    ASSUME RoomInv,
           UNCHANGED <<score, target, forced, byHand, elapsed, side>>,
           room' = "off" => room = "off"
    PROVE  RoomInv'
  BY DEF RoomInv, ScoreInv, PreviewInv, NothingHeld, Instrument

LEMMA NextRoom == RoomInv /\ [Next]_vars => RoomInv'
<1> SUFFICES ASSUME RoomInv, [Next]_vars PROVE RoomInv'
  OBVIOUS
<1>0. ScoreInv /\ PreviewInv /\ NothingHeld
  BY DEF RoomInv
<1>1. CASE Frame
  BY <1>1, QuietRoom DEF Frame, props
<1>2. CASE Built
  BY <1>2, QuietRoom DEF Built, props
<1>3. CASE ToggleRoom
  <2>1. ScoreInv'
    BY <1>0, <1>3 DEF ToggleRoom, ScoreInv
  <2>2. CASE room = "off"
    BY <1>0, <1>3, <2>1, <2>2 DEF ToggleRoom, RoomInv, PreviewInv, NothingHeld, Instrument
  <2>3. CASE room # "off"
    BY <1>0, <1>3, <2>1, <2>3, StopReleases DEF ToggleRoom, RoomInv, PreviewInv, NothingHeld
  <2>4. QED
    BY <2>2, <2>3
<1>4. CASE ToggleScreen \/ ToggleProjection \/ PlayPause \/ Advance
  BY <1>4, QuietRoom DEF ToggleScreen, ToggleProjection, PlayPause, Advance, props
<1>5. ASSUME NEW element, Mount(element) PROVE RoomInv'
  BY <1>5, QuietRoom DEF Mount, props
<1>6. ASSUME NEW t, Seek(t) PROVE RoomInv'
  BY <1>6, QuietRoom DEF Seek
<1>7. ASSUME NEW heard, Present(heard) PROVE RoomInv'
  BY <1>7, QuietRoom DEF Present
<1>8. ASSUME NEW id, NEW v, Slide(id, v) PROVE RoomInv'
  <2>1. ScoreInv' /\ PreviewInv' /\ Instrument' = Instrument
    BY <1>0, <1>8 DEF Slide, ScoreInv, PreviewInv, Instrument
  <2>2. NothingHeld'
    <3>1. CASE v = 0
      <4>1. /\ forced' = Without(forced, id) /\ byHand' = byHand \ {id}
            /\ UNCHANGED elapsed
        BY <1>8, <3>1 DEF Slide
      <4>2. DOMAIN forced' = DOMAIN forced \ {id}
        BY <4>1, DomainOfWithout
      <4>3. QED
        BY <1>0, <2>1, <4>1, <4>2 DEF NothingHeld
    <3>2. CASE v # 0
      <4>1. /\ forced' = With(forced, id, v) /\ byHand' = byHand \cup {id}
            /\ UNCHANGED elapsed
        BY <1>8, <3>2 DEF Slide
      <4>2. DOMAIN forced' = DOMAIN forced \cup {id}
        BY <4>1, DomainOfWith
      <4>3. QED
        BY <1>0, <2>1, <4>1, <4>2 DEF NothingHeld
    <3>3. QED
      BY <3>1, <3>2
  <2>3. QED
    BY <2>1, <2>2 DEF RoomInv
<1>9. CASE ReleaseAll
  BY <1>0, <1>9 DEF ReleaseAll, RoomInv, ScoreInv, PreviewInv, NothingHeld, None
<1>10. CASE TogglePreview
  <2>1. ScoreInv' /\ Instrument' = Instrument
    BY <1>0, <1>10 DEF TogglePreview, ScoreInv, Instrument
  <2>2. CASE elapsed = Off
    <3>1. elapsed' = 0 /\ UNCHANGED <<forced, byHand, side, room>> /\ side /\ room # "off"
      BY <1>10, <2>2 DEF TogglePreview
    <3>2. PreviewInv'
      BY <1>0, <3>1 DEF PreviewInv
    <3>3. NothingHeld'
      BY <1>0, <2>2, <3>1 DEF NothingHeld
    <3>4. QED
      BY <2>1, <3>2, <3>3 DEF RoomInv
  <2>3. CASE elapsed # Off
    <3>1. Stop /\ UNCHANGED <<side, room>>
      BY <1>10, <2>3 DEF TogglePreview
    <3>2. QED
      BY <1>0, <2>1, <3>1, StopReleases DEF RoomInv, PreviewInv, NothingHeld
  <2>4. QED
    BY <2>2, <2>3
<1>11. CASE PreviewFrame
  <2>1. ScoreInv' /\ Instrument' = Instrument /\ UNCHANGED <<side, room>>
    BY <1>0, <1>11 DEF PreviewFrame, ScoreInv, Instrument
  <2>2. CASE elapsed >= Glimpses
    <3>1. Stop
      BY <1>11, <2>2 DEF PreviewFrame
    <3>2. QED
      BY <1>0, <2>1, <3>1, StopReleases DEF RoomInv, PreviewInv, NothingHeld
  <2>3. CASE ~(elapsed >= Glimpses)
    <3>1. /\ elapsed # Off /\ elapsed' = elapsed + 1 /\ UNCHANGED byHand
          /\ \E v : forced' = With(forced, Instrument, v)
      BY <1>11, <2>3 DEF PreviewFrame
    <3>2. PreviewInv' /\ elapsed' # Off
      BY <1>0, <2>1, <3>1 DEF PreviewInv, Off
    <3>3. DOMAIN forced' = DOMAIN forced \cup {Instrument}
      BY <3>1, DomainOfWith
    <3>4. NothingHeld'
      BY <1>0, <2>1, <3>1, <3>2, <3>3 DEF NothingHeld
    <3>5. QED
      BY <2>1, <3>2, <3>4 DEF RoomInv
  <2>4. QED
    BY <2>2, <2>3
<1>12. CASE ToggleSide
  <2>1. ScoreInv' /\ Instrument' = Instrument
    BY <1>0, <1>12 DEF ToggleSide, ScoreInv, Instrument
  <2>2. side' \in BOOLEAN
    BY <1>12 DEF ToggleSide
  <2>3. CASE side
    <3>1. Stop
      BY <1>12, <2>3 DEF ToggleSide
    <3>2. QED
      BY <1>0, <2>1, <2>2, <3>1, StopReleases DEF RoomInv, PreviewInv, NothingHeld
  <2>4. CASE ~side
    <3>1. elapsed = Off /\ UNCHANGED <<elapsed, forced, byHand>>
      BY <1>0, <1>12, <2>4 DEF ToggleSide, PreviewInv
    <3>2. QED
      BY <1>0, <2>1, <2>2, <3>1 DEF RoomInv, PreviewInv, NothingHeld
  <2>5. QED
    BY <2>3, <2>4
<1>13. CASE InsertChosen
  <2>1. /\ target # 0 /\ UNCHANGED <<target, forced, byHand, elapsed, side, room>>
        /\ score' = [score EXCEPT ![target] = Inserted(Preset, score[target], time)]
    BY <1>13 DEF InsertChosen, CanEdit
  <2>2. "instrument" \in DOMAIN score[target]
    BY <1>0, <2>1 DEF ScoreInv
  <2>3. ScoreInv' /\ Instrument' = Instrument
    BY <1>0, <2>1, <2>2, InsertedKeepsInstrument, EditKeepsScore
  <2>4. QED
    BY <1>0, <2>1, <2>3 DEF RoomInv, PreviewInv, NothingHeld
<1>14. ASSUME NEW k \in 0..Len(score), Focus(k) PROVE RoomInv'
  <2>1. ScoreInv'
    BY <1>0, <1>14 DEF Focus, ScoreInv
  <2>2. UNCHANGED <<side, room>>
    BY <1>14 DEF Focus
  <2>3. Instrument' = IF k = 0 THEN "none" ELSE score[k].instrument
    BY <1>14 DEF Focus, Instrument
  <2>4. CASE Instrument' = Instrument \/ ~side \/ room = "off"
    <3>1. UNCHANGED <<elapsed, forced, byHand>>
      BY <1>14, <2>3, <2>4 DEF Focus
    <3>2. QED
      BY <1>0, <2>1, <2>2, <2>4, <3>1 DEF RoomInv, PreviewInv, NothingHeld
  <2>5. CASE ~(Instrument' = Instrument \/ ~side \/ room = "off")
    <3>1. Stop
      BY <1>14, <2>3, <2>5 DEF Focus
    <3>2. QED
      BY <1>0, <2>1, <2>2, <3>1, StopReleases DEF RoomInv, PreviewInv, NothingHeld
  <2>6. QED
    BY <2>4, <2>5
<1>15. ASSUME NEW k, Pick(k) PROVE RoomInv'
  <2>1. Stop /\ UNCHANGED <<score, target, side, room>>
    BY <1>15 DEF Pick
  <2>2. QED
    BY <1>0, <2>1, StopReleases DEF RoomInv, ScoreInv, PreviewInv, NothingHeld
<1>16. ASSUME NEW r, SwitchRig(r) PROVE RoomInv'
  BY <1>16, QuietRoom DEF SwitchRig
<1>17. ASSUME target # 0, NEW k, NEW hex, Recolour(k, hex) PROVE RoomInv'
  <2>1. /\ UNCHANGED <<target, forced, byHand, elapsed, side, room>>
        /\ score' = [score EXCEPT ![target] = Recoloured(score[target], k, hex)]
    BY <1>17 DEF Recolour
  <2>2. "instrument" \in DOMAIN score[target]
    BY <1>0, <1>17 DEF ScoreInv
  <2>3. ScoreInv' /\ Instrument' = Instrument
    BY <1>0, <1>17, <2>1, <2>2, RecolouredKeepsInstrument, EditKeepsScore
  <2>4. QED
    BY <1>0, <2>1, <2>3 DEF RoomInv, PreviewInv, NothingHeld
<1>18. CASE UNCHANGED vars
  BY <1>18, QuietRoom DEF vars, props
<1>19. QED
  BY <1>1, <1>2, <1>3, <1>4, <1>5, <1>6, <1>7, <1>8, <1>9, <1>10, <1>11, <1>12,
     <1>13, <1>14, <1>15, <1>16, <1>17, <1>18 DEF Next

\* Nothing keeps hold of a device: what is driven is under a slider that was
\* not released, or is what the running preview is of (Force.tsx, Effects.tsx).
THEOREM RoomGivesBack == Spec => []NothingHeld
<1>1. RoomInv => NothingHeld
  BY DEF RoomInv
<1>2. QED
  BY InitRoom, NextRoom, <1>1, PTL DEF Spec

-----------------------------------------------------------------------------
(* What the room shows *)

\* What is shown of the film is on the screen, thrown, or neither.
Wanted(wants) == IF wants THEN film.element ELSE NoFilm
Held == [picture |-> IF onScreen \/ projecting THEN film.element ELSE NoFilm,
         screen |-> Wanted(onScreen), thrown |-> Wanted(projecting)]

\* A film has a picture at a moment of it, or none yet.
FilmInv ==
    /\ film = [element |-> film.element, frame |-> film.frame,
               wanted |-> film.wanted, playing |-> film.playing]
    /\ film.frame \in Nat \cup {Off} /\ film.wanted \in Nat

\* The small copy is of the frame that is there, or is about to be made anew.
CanvasInv ==
    /\ film.frame = Off \/ textures.thrown = NoFilm => canvas = Off
    /\ textures.thrown # NoFilm => late \/ repaint \/ canvas = film.frame

Shown(held, frame) == IF held = NoFilm THEN Off ELSE frame

\* A picture the room does not mean to draw again is the one it would draw.
CurrentInv ==
    ~told /\ ~was =>
        /\ drawn.devices = Devices(scene, forced, rig) /\ drawn.seat = Pose(scene, forced)
        /\ late \/ /\ drawn.screen = Shown(textures.screen, film.frame)
                   /\ drawn.thrown = Shown(textures.thrown, film.frame)

InsideInv ==
    IF room = "ready"
    THEN scene = Evaluate(score, time) /\ textures = Held /\ CanvasInv /\ CurrentInv
    ELSE textures = NoTextures /\ canvas = Off

ShownInv == FilmInv /\ InsideInv

\* What is held of a film is that film's, and what it is told twice is what it has.
LEMMA TexturesHold ==
    ASSUME NEW had, NEW element, NEW screen \in {NoFilm, element}, NEW thrown \in {NoFilm, element},
           had.screen \in {NoFilm, had.picture}, had.thrown \in {NoFilm, had.picture}
    PROVE  Textures(had, screen, thrown) =
              [picture |-> IF screen # NoFilm THEN screen ELSE thrown,
               screen |-> screen, thrown |-> thrown]
  BY DEF Textures

\* Whatever it is told, what it holds is of one film.
LEMMA TexturesAgree ==
    ASSUME NEW had, NEW screen, NEW thrown,
           had.screen \in {NoFilm, had.picture}, had.thrown \in {NoFilm, had.picture}
    PROVE  LET now == Textures(had, screen, thrown)
           IN  now.screen \in {NoFilm, now.picture} /\ now.thrown \in {NoFilm, now.picture}
  BY DEF Textures

\* What the room is told of and draws at once.
LEMMA ToldShows ==
    ASSUME ShownInv, FilmInv', Told, UNCHANGED <<onScreen, projecting, room>>,
           film'.element = film.element, film'.frame = Off => film.frame = Off
    PROVE  ShownInv'
<1>1. CASE room = "ready"
  <2>1. Update /\ textures = Held /\ CanvasInv /\ textures' = textures
    BY <1>1 DEF Told, Update, ShownInv, InsideInv
  <2>2. textures' = Held'
    BY <2>1 DEF Held, Wanted
  <2>3. canvas' = IF textures'.thrown # NoFilm /\ film'.frame # Off THEN film'.frame ELSE canvas
    BY <2>1 DEF Update
  <2>4. CanvasInv'
    BY <2>1, <2>3 DEF CanvasInv
  <2>5. /\ scene' = Evaluate(score', time')
        /\ drawn' = Picture(scene', forced', rig', textures', film'.frame, canvas')
    BY <2>1 DEF Update
  <2>6. /\ drawn'.devices = Devices(scene', forced', rig') /\ drawn'.seat = Pose(scene', forced')
        /\ drawn'.screen = Shown(textures'.screen, film'.frame)
        /\ drawn'.thrown = Shown(textures'.thrown, canvas')
    BY <2>5 DEF Picture, Shown
  <2>7. textures'.thrown # NoFilm => canvas' = film'.frame
    BY <2>1, <2>3 DEF CanvasInv
  <2>8. CurrentInv'
    BY <2>6, <2>7 DEF CurrentInv, Shown
  <2>9. QED
    BY <1>1, <2>2, <2>4, <2>5, <2>8 DEF ShownInv, InsideInv
<1>2. CASE room # "ready"
  BY <1>2 DEF Told, inside, ShownInv, InsideInv
<1>3. QED
  BY <1>1, <1>2

\* The film that the room is given: another one, or shown elsewhere.
LEMMA FilmShows ==
    ASSUME ShownInv, FilmInv', GivenFilm, UNCHANGED <<score, time, room>>,
           film' = film \/ film'.element # film.element,
           film'.element = film.element \/ NoFilm \in {film.element, film'.element}
    PROVE  ShownInv'
<1>1. CASE room = "ready"
  <2>1. ApplyFilm /\ textures = Held /\ CanvasInv /\ scene = Evaluate(score, time)
    BY <1>1 DEF GivenFilm, ShownInv, InsideInv
  <2> DEFINE x == IF film.element = NoFilm THEN film'.element ELSE film.element
             screen == IF onScreen' THEN film'.element ELSE NoFilm
             thrown == IF projecting' THEN film'.element ELSE NoFilm
             before == IF projecting THEN film.element ELSE NoFilm
             first == Textures(textures, screen, before)
  <2>2. screen \in {NoFilm, x} /\ thrown \in {NoFilm, x} /\ before \in {NoFilm, x}
    OBVIOUS
  <2>3. /\ textures.screen \in {NoFilm, textures.picture} /\ textures.thrown = before
        /\ textures.thrown \in {NoFilm, textures.picture}
    BY <2>1 DEF Held, Wanted
  <2>4. first.thrown = before
    <3> HIDE DEF x, screen, before
    <3>1. QED
      BY <2>2, <2>3, TexturesHold
  <2>5. first.screen \in {NoFilm, first.picture} /\ first.thrown \in {NoFilm, first.picture}
    <3> HIDE DEF screen, before
    <3>1. QED
      BY <2>3, TexturesAgree
  <2>6. /\ textures' = Textures(first, screen, thrown)
        /\ canvas' = IF textures.thrown = first.thrown /\ first.thrown = textures'.thrown
                     THEN canvas ELSE Off
        /\ repaint' = TRUE /\ told' = TRUE /\ scene' = scene
    BY <2>1 DEF ApplyFilm
  <2>7. textures' = [picture |-> IF screen # NoFilm THEN screen ELSE thrown,
                     screen |-> screen, thrown |-> thrown]
    <3> HIDE DEF x, screen, thrown, first
    <3>1. QED
      BY <2>2, <2>5, <2>6, TexturesHold
  <2>8. textures' = Held'
    BY <2>7 DEF Held, Wanted
  <2>9. canvas' = IF thrown = before THEN canvas ELSE Off
    BY <2>3, <2>4, <2>6, <2>7
  <2>10. thrown = before => thrown = NoFilm \/ film' = film
    OBVIOUS
  <2>11. CanvasInv'
    BY <2>1, <2>3, <2>6, <2>7, <2>9, <2>10 DEF CanvasInv
  <2>12. CurrentInv'
    BY <2>6 DEF CurrentInv
  <2>13. QED
    BY <1>1, <2>1, <2>6, <2>8, <2>11, <2>12 DEF ShownInv, InsideInv
<1>2. CASE room # "ready"
  BY <1>2 DEF GivenFilm, inside, ShownInv, InsideInv
<1>3. QED
  BY <1>1, <1>2

\* The room is built and given everything.
LEMMA BuiltShows == ASSUME ShownInv, Built PROVE ShownInv'
<1>1. /\ textures = NoTextures /\ canvas = Off /\ room' = "ready"
      /\ UNCHANGED <<film, onScreen, projecting, score, time, forced, rig>>
  BY DEF Built, ShownInv, InsideInv, filming, props
<1>2. FilmInv'
  BY <1>1 DEF ShownInv, FilmInv
<1> DEFINE first == Textures(textures, Wanted(onScreen), NoFilm)
<1>3. textures' = Textures(first, Wanted(onScreen), Wanted(projecting))
  BY DEF Built, Wanted
<1>4. first.screen \in {NoFilm, first.picture} /\ first.thrown \in {NoFilm, first.picture}
  BY <1>1, TexturesAgree DEF NoTextures
<1>5. textures' = Held
  <2> HIDE DEF first
  <2>1. textures' = [picture |-> IF Wanted(onScreen) # NoFilm THEN Wanted(onScreen)
                                 ELSE Wanted(projecting),
                     screen |-> Wanted(onScreen), thrown |-> Wanted(projecting)]
    BY <1>3, <1>4, TexturesHold DEF Wanted
  <2>2. QED
    BY <2>1 DEF Held, Wanted
<1>6. textures' = Held'
  BY <1>1, <1>5 DEF Held, Wanted
<1>7. /\ canvas' = IF textures'.thrown # NoFilm THEN film.frame ELSE canvas
      /\ scene' = Evaluate(score', time') /\ late' = FALSE
      /\ drawn' = Picture(scene', forced', rig', textures', film'.frame, canvas')
  BY <1>1 DEF Built
<1>8. CanvasInv'
  BY <1>1, <1>7 DEF CanvasInv
<1>9. CurrentInv'
  BY <1>1, <1>7 DEF CurrentInv, Picture, Shown
<1>10. QED
  BY <1>1, <1>2, <1>6, <1>7, <1>8, <1>9 DEF ShownInv, InsideInv

\* A frame draws what is in motion, what was told, and once more after that.
LEMMA FrameShows == ASSUME ShownInv, Frame PROVE ShownInv'
<1>1. /\ room = "ready" /\ room' = room /\ UNCHANGED <<scene, textures, late>>
      /\ UNCHANGED <<film, onScreen, projecting, score, time, forced, rig>>
  BY DEF Frame, filming, props
<1>2. /\ FilmInv /\ scene = Evaluate(score, time) /\ textures = Held /\ CanvasInv /\ CurrentInv
  BY <1>1 DEF ShownInv, InsideInv
<1>3. FilmInv' /\ scene' = Evaluate(score', time') /\ textures' = Held'
  BY <1>1, <1>2 DEF FilmInv, Held, Wanted
<1>4. canvas' = Copied /\ repaint' = Asked /\ was' = (Moving \/ told) /\ told' = FALSE
  BY DEF Frame
<1>5. CanvasInv'
  BY <1>1, <1>2, <1>4 DEF CanvasInv, Copied, Asked
<1>6. textures.thrown # NoFilm => late \/ canvas' = film.frame
  BY <1>1, <1>2, <1>4 DEF CanvasInv, Copied
<1>7. CurrentInv'
  <2>1. CASE Moving \/ told \/ was
    <3>1. drawn' = Picture(scene, forced, rig, textures, film.frame, canvas')
      BY <1>1, <2>1 DEF Frame
    <3>2. /\ drawn'.devices = Devices(scene, forced, rig) /\ drawn'.seat = Pose(scene, forced)
          /\ drawn'.screen = Shown(textures.screen, film.frame)
          /\ drawn'.thrown = Shown(textures.thrown, canvas')
      BY <3>1 DEF Picture, Shown
    <3>3. late \/ drawn'.thrown = Shown(textures.thrown, film.frame)
      BY <1>6, <3>2 DEF Shown
    <3>4. QED
      BY <1>1, <3>2, <3>3 DEF CurrentInv
  <2>2. CASE ~(Moving \/ told \/ was)
    <3>1. drawn' = drawn
      BY <2>2 DEF Frame
    <3>2. QED
      BY <1>1, <1>2, <2>2, <3>1 DEF CurrentInv
  <2>3. QED
    BY <2>1, <2>2
<1>8. QED
  BY <1>1, <1>3, <1>5, <1>7 DEF ShownInv, InsideInv

\* A frame of the film that the room may not be told of is of the same moment.
LEMMA PresentShows == ASSUME ShownInv, NEW heard, Present(heard) PROVE ShownInv'
<1>1. /\ film' = [film EXCEPT !.frame = film.wanted] /\ time' = film.wanted
      /\ UNCHANGED <<onScreen, projecting, room, score, forced, rig>>
  BY DEF Present
<1>2. /\ film'.element = film.element /\ film'.frame = film.wanted /\ film.wanted \in Nat
      /\ FilmInv'
  BY <1>1 DEF ShownInv, FilmInv
<1>3. CASE heard \/ film.wanted # time
  <2>1. Told
    BY <1>3 DEF Present
  <2>2. film'.frame # Off
    BY <1>2 DEF Off
  <2>3. QED
    BY <1>1, <1>2, <2>1, <2>2, ToldShows
<1>4. CASE ~(heard \/ film.wanted # time)
  <2>1. /\ late' = (room = "ready") /\ time' = time
        /\ UNCHANGED <<scene, textures, canvas, repaint, told, was, drawn>>
    BY <1>1, <1>4 DEF Present
  <2>2. film'.frame # Off
    BY <1>2 DEF Off
  <2>3. QED
    BY <1>1, <1>2, <2>1, <2>2
       DEF ShownInv, InsideInv, Held, Wanted, CanvasInv, CurrentInv
<1>5. QED
  BY <1>3, <1>4

\* The steps that leave the film where it is and tell the room.
LEMMA ToldAndStill ==
    ASSUME ShownInv, Told, UNCHANGED <<film, onScreen, projecting, room>>
    PROVE  ShownInv'
  BY ToldShows DEF ShownInv, FilmInv

LEMMA InitShows == Init => ShownInv
  BY DEF Init, ShownInv, FilmInv, InsideInv, Off

LEMMA NextShows == ShownInv /\ [Next]_vars => ShownInv'
<1> SUFFICES ASSUME ShownInv, [Next]_vars PROVE ShownInv'
  OBVIOUS
<1> USE MomentsAssumption DEF filming
<1>0. FilmInv
  BY DEF ShownInv
<1>1. CASE Frame \/ Built
  BY <1>1, FrameShows, BuiltShows
<1>2. CASE ToggleRoom
  <2>1. film' = film /\ textures' = NoTextures /\ canvas' = Off /\ room' # "ready"
    BY <1>2 DEF ToggleRoom
  <2>2. QED
    BY <1>0, <2>1 DEF ShownInv, FilmInv, InsideInv
<1>3. CASE ToggleScreen \/ ToggleProjection
  <2>1. film' = film /\ GivenFilm /\ UNCHANGED <<score, time, room>>
    BY <1>3 DEF ToggleScreen, ToggleProjection, props
  <2>2. FilmInv'
    BY <1>0, <2>1 DEF FilmInv
  <2>3. QED
    BY <2>1, <2>2, FilmShows
<1>4. ASSUME NEW element, Mount(element) PROVE ShownInv'
  <2>1. /\ film' = [element |-> element, frame |-> Off, wanted |-> 0, playing |-> FALSE]
        /\ element # film.element /\ NoFilm \in {element, film.element}
        /\ GivenFilm /\ UNCHANGED <<score, time, room>>
    BY <1>4 DEF Mount, props
  <2>2. FilmInv' /\ film'.element # film.element /\ NoFilm \in {film.element, film'.element}
    BY <2>1 DEF FilmInv
  <2>3. QED
    BY <2>1, <2>2, FilmShows
<1>5. ASSUME NEW t \in Moments, Seek(t) PROVE ShownInv'
  <2>1. /\ Told /\ UNCHANGED <<onScreen, projecting, room>>
        /\ film' = IF film.element # NoFilm THEN [film EXCEPT !.wanted = t] ELSE film
    BY <1>5 DEF Seek
  <2>2. FilmInv' /\ film'.element = film.element /\ film'.frame = film.frame
    BY <1>0, <2>1 DEF FilmInv
  <2>3. QED
    BY <2>1, <2>2, ToldShows
<1>6. ASSUME NEW heard, Present(heard) PROVE ShownInv'
  BY <1>6, PresentShows
<1>7. CASE PlayPause
  <2>1. /\ film' = [film EXCEPT !.playing = ~film.playing]
        /\ UNCHANGED <<score, time, forced, rig, onScreen, projecting, room, scene, textures,
                       canvas, repaint, told, was, drawn, late>>
    BY <1>7 DEF PlayPause, props, inside
  <2>2. FilmInv' /\ film'.element = film.element /\ film'.frame = film.frame
    BY <1>0, <2>1 DEF FilmInv
  <2>3. QED
    BY <2>1, <2>2 DEF ShownInv, InsideInv, Held, Wanted, CanvasInv, CurrentInv
<1>8. CASE Advance
  <2>1. CASE film' = [film EXCEPT !.playing = FALSE]
                /\ UNCHANGED <<props, onScreen, projecting, room, inside>>
    <3>1. FilmInv' /\ film'.element = film.element /\ film'.frame = film.frame
      BY <1>0, <2>1 DEF FilmInv
    <3>2. UNCHANGED <<score, time, forced, rig, onScreen, projecting, room, scene, textures,
                      canvas, repaint, told, was, drawn, late>>
      BY <2>1 DEF props, inside
    <3>3. QED
      BY <3>1, <3>2 DEF ShownInv, InsideInv, Held, Wanted, CanvasInv, CurrentInv
  <2>2. ASSUME NEW t \in Moments, film' = [film EXCEPT !.frame = t, !.wanted = t],
               Told, UNCHANGED <<onScreen, projecting, room>>
        PROVE  ShownInv'
    <3>1. t \in Nat
      BY <2>2
    <3>2. /\ film'.element = film.element /\ film'.frame = t /\ film'.wanted = t
          /\ film' = [element |-> film'.element, frame |-> film'.frame,
                      wanted |-> film'.wanted, playing |-> film'.playing]
      BY <1>0, <2>2 DEF FilmInv
    <3>3. FilmInv' /\ film'.frame # Off
      BY <3>1, <3>2 DEF FilmInv, Off
    <3>4. QED
      BY <2>2, <3>2, <3>3, ToldShows
  <2>3. QED
    BY <1>8, <2>1, <2>2 DEF Advance
<1>9. ASSUME NEW id, NEW v, Slide(id, v) PROVE ShownInv'
  BY <1>9, ToldAndStill DEF Slide
<1>10. ASSUME NEW k, Focus(k) PROVE ShownInv'
  BY <1>10, ToldAndStill DEF Focus
<1>11. ASSUME NEW k, Pick(k) PROVE ShownInv'
  BY <1>11, ToldAndStill DEF Pick
<1>12. ASSUME NEW r, SwitchRig(r) PROVE ShownInv'
  BY <1>12, ToldAndStill DEF SwitchRig
<1>13. ASSUME NEW k, NEW hex, Recolour(k, hex) PROVE ShownInv'
  BY <1>13, ToldAndStill DEF Recolour, Edited
<1>14. CASE ReleaseAll \/ TogglePreview \/ PreviewFrame \/ ToggleSide \/ InsertChosen
  BY <1>14, ToldAndStill
     DEF ReleaseAll, TogglePreview, PreviewFrame, ToggleSide, InsertChosen, Edited
<1>15. CASE UNCHANGED vars
  BY <1>15 DEF vars, props, inside, ShownInv, FilmInv, InsideInv, Held, Wanted, CanvasInv, CurrentInv
<1>16. QED
  BY <1>1, <1>2, <1>3, <1>4, <1>5, <1>6, <1>7, <1>8, <1>9, <1>10, <1>11, <1>12,
     <1>13, <1>14, <1>15 DEF Next

\* A room that does not mean to draw again shows what the score, the sliders and
\* the film say now: nothing it was told is lost, whatever comes in between
\* (Room3D.js, activity.ts).
THEOREM RoomDrawsWhatIsThere == Spec => []DrawnIsCurrent
<1>1. ShownInv => DrawnIsCurrent
  <2> SUFFICES ASSUME ShownInv, room = "ready", ~told, ~was, ~Moving
               PROVE  /\ drawn.devices = Devices(Evaluate(score, time), forced, rig)
                      /\ drawn.seat = Pose(Evaluate(score, time), forced)
                      /\ late \/ /\ drawn.screen = IF onScreen /\ film.element # NoFilm
                                                     THEN film.frame ELSE Off
                                 /\ drawn.thrown = IF projecting /\ film.element # NoFilm
                                                    THEN film.frame ELSE Off
    BY DEF DrawnIsCurrent
  <2>1. scene = Evaluate(score, time) /\ textures = Held /\ CurrentInv
    BY DEF ShownInv, InsideInv
  <2>2. textures.screen = Wanted(onScreen) /\ textures.thrown = Wanted(projecting)
    BY <2>1 DEF Held
  <2>3. /\ drawn.devices = Devices(scene, forced, rig) /\ drawn.seat = Pose(scene, forced)
        /\ late \/ /\ drawn.screen = Shown(textures.screen, film.frame)
                   /\ drawn.thrown = Shown(textures.thrown, film.frame)
    BY <2>1 DEF CurrentInv
  <2>4. /\ Shown(textures.screen, film.frame)
             = IF onScreen /\ film.element # NoFilm THEN film.frame ELSE Off
        /\ Shown(textures.thrown, film.frame)
             = IF projecting /\ film.element # NoFilm THEN film.frame ELSE Off
    BY <2>2 DEF Wanted, Shown
  <2>5. QED
    BY <2>1, <2>3, <2>4
<1>2. QED
  BY InitShows, NextShows, <1>1, PTL DEF Spec
=============================================================================
