------------------------------- MODULE Clock -------------------------------
(***************************************************************************)
(* internal/clock: the media clock, with the player it watches and the     *)
(* poll of the show loop that feeds it (internal/show/show.go).             *)
(*                                                                         *)
(* Wall time is counted in ticks and the film advances one tick per tick.   *)
(* The fit of the rate is left out with it: the rate is 1 and neither the   *)
(* residual nor the drift adds to the precision.  The player is external:   *)
(* it shows a frame from its timestamp until the next one's, may be paused, *)
(* moved and emptied at any moment, and answers a poll late.                *)
(***************************************************************************)
EXTENDS Integers

CONSTANTS
    Frame,      \* Config.FrameInterval
    Stall,      \* Config.StallFrames
    SeekFrames, \* Config.SeekFrames
    Poll,       \* Config.PollInterval, the floor of the precision
    Gap,        \* the longest a poll comes after the sample before it
    Latency,    \* the longest an answer takes
    End         \* the length of the film

ASSUME ConstantsAssumption ==
    /\ Frame \in Nat \ {0} /\ Stall \in Nat \ {0} /\ SeekFrames \in Nat \ {0}
    /\ Poll \in Nat /\ Gap \in Nat \ {0} /\ Latency \in Nat
    /\ End \in Nat \ {0}

\* The stall is longer than a frame and an answer: by default it is three frames, and
\* a player that takes two of them to answer is no clock.
ASSUME StallAssumption == Stall * Frame >= Frame + Latency

VARIABLES
    film,        \* where the film really is
    player,      \* "playing", "paused", or "empty" with no position to give
    calm,        \* ticks since the player was last interfered with
    asked,       \* the answer to the poll under way, or NoPoll
    waited,      \* ticks since that answer was true
    lastPos,
    lastPosValid,
    sinceSample, \* wall time since lastSampleWall
    sinceChange, \* wall time since lastChangeWall
    state,
    anchors      \* the last anchor, its wall time as its age, in a set

external == <<film, player, calm>>
clock == <<lastPos, lastPosValid, sinceSample, sinceChange, state, anchors>>
vars == <<external, asked, waited, clock>>

Answer == [pos: Nat, ok: BOOLEAN]
NoPoll == [pos |-> -1, ok |-> FALSE]

StallTime == Stall * Frame
Tolerance == SeekFrames * Frame

\* An answer that is out of date, and then two polls.
Settling == 2 * Gap + 3 * Latency

\* Ages stop where nothing tells them apart.
Cap == StallTime + Frame + Settling + 1
Older(age) == IF age < Cap THEN age + 1 ELSE age

-----------------------------------------------------------------------------
Init ==
    /\ film = 0 /\ player = "empty" /\ calm = 0
    /\ asked = NoPoll /\ waited = 0
    /\ lastPos = 0 /\ lastPosValid = FALSE
    /\ sinceSample = 0 /\ sinceChange = 0
    /\ state = "unknown" /\ anchors = {}

(* The player *)

\* The timestamp of the frame on screen.
Position == (film \div Frame) * Frame

Interfere ==
    /\ calm' = 0
    /\ \/ player = "playing" /\ player' = "paused" /\ film' = film
       \/ player = "paused" /\ player' = "playing" /\ film' = film
       \/ player # "empty" /\ player' = player
          /\ film' \in {f \in 0..End : f % Frame = 0}
       \/ player # "empty" /\ player' = "empty" /\ film' = 0
       \/ player = "empty" /\ player' \in {"playing", "paused"}
          /\ film' \in {f \in 0..End : f % Frame = 0}
    /\ UNCHANGED <<asked, waited, clock>>

\* Time passes.  At its end the film stops.
Tick ==
    /\ IF asked = NoPoll THEN sinceSample < Gap ELSE waited < Latency
    /\ IF player = "playing" /\ film < End
       THEN film' = film + 1 /\ player' = player /\ calm' = Older(calm)
       ELSE /\ film' = film
            /\ player' = IF player = "playing" THEN "paused" ELSE player
            /\ calm' = IF player = "playing" THEN 0 ELSE Older(calm)
    /\ waited' = IF asked = NoPoll THEN 0 ELSE waited + 1
    /\ sinceSample' = Older(sinceSample) /\ sinceChange' = Older(sinceChange)
    /\ anchors' = {[a EXCEPT !.age = Older(@)] : a \in anchors}
    /\ UNCHANGED <<asked, lastPos, lastPosValid, state>>

-----------------------------------------------------------------------------
(* The show loop *)

\* cfg.Source.Position: what it answers was true when it was asked.
Ask ==
    /\ asked = NoPoll
    /\ asked' = [pos |-> IF player = "empty" THEN 0 ELSE Position,
                 ok |-> player # "empty"]
    /\ waited' = 0
    /\ UNCHANGED <<external, clock>>

\* A poll that fails is not given to the clock.  Of polls in a row that fail,
\* which end the show when there are too many, Gap allows what fits in it.
AskFails ==
    /\ asked # NoPoll /\ sinceSample < Gap
    /\ asked' = NoPoll /\ waited' = 0
    /\ UNCHANGED <<external, clock>>

\* Sample, for the answer at hand.
Sampled == asked' = NoPoll /\ waited' = 0 /\ sinceSample' = 0 /\ UNCHANGED external

SampleNothing ==
    /\ asked # NoPoll /\ ~asked.ok
    /\ anchors' = {} /\ lastPosValid' = FALSE /\ lastPos' = 0
    /\ state' = "unknown"
    /\ UNCHANGED sinceChange
    /\ Sampled

SampleFirst ==
    /\ asked.ok /\ ~lastPosValid
    /\ lastPos' = asked.pos /\ lastPosValid' = TRUE
    /\ sinceChange' = 0
    /\ state' = "playing"
    /\ UNCHANGED anchors
    /\ Sampled

\* Mutation: the stall is measured from the sample before.
SampleSameSinceSample ==
    /\ asked.ok /\ lastPosValid /\ asked.pos = lastPos
    /\ state' = IF sinceSample > StallTime THEN "paused" ELSE state
    /\ UNCHANGED <<lastPos, lastPosValid, sinceChange, anchors>>
    /\ Sampled

SampleSame ==
    /\ asked.ok /\ lastPosValid /\ asked.pos = lastPos
    /\ state' = IF sinceChange > StallTime THEN "paused" ELSE state
    /\ UNCHANGED <<lastPos, lastPosValid, sinceChange, anchors>>
    /\ Sampled

\* The position moved back, or on, by more than playing can explain.
Jump(pos) ==
    \/ pos - lastPos < -Tolerance
    \/ pos - lastPos - sinceSample > Tolerance

SampleJump ==
    /\ asked.ok /\ lastPosValid /\ asked.pos # lastPos /\ Jump(asked.pos)
    /\ anchors' = {}
    /\ lastPos' = asked.pos /\ sinceChange' = 0
    /\ state' = "playing"
    /\ UNCHANGED lastPosValid
    /\ Sampled

\* Mutation: an edge resumes only a clock that was not paused.
SampleEdgeStaysPaused ==
    /\ asked.ok /\ lastPosValid /\ asked.pos # lastPos /\ ~Jump(asked.pos)
    /\ anchors' = {[media |-> asked.pos, age |-> 0, window |-> sinceSample]}
    /\ lastPos' = asked.pos /\ sinceChange' = 0
    /\ UNCHANGED <<lastPosValid, state>>
    /\ Sampled

\* Mutation: an edge is taken to be where it was seen.
SampleEdgeExact ==
    /\ asked.ok /\ lastPosValid /\ asked.pos # lastPos /\ ~Jump(asked.pos)
    /\ anchors' = {[media |-> asked.pos, age |-> 0, window |-> 0]}
    /\ lastPos' = asked.pos /\ sinceChange' = 0
    /\ state' = "playing"
    /\ UNCHANGED lastPosValid
    /\ Sampled

\* A frame edge, somewhere since the sample before.
SampleEdge ==
    /\ asked.ok /\ lastPosValid /\ asked.pos # lastPos /\ ~Jump(asked.pos)
    /\ anchors' = {[media |-> asked.pos, age |-> 0, window |-> sinceSample]}
    /\ lastPos' = asked.pos /\ sinceChange' = 0
    /\ state' = "playing"
    /\ UNCHANGED lastPosValid
    /\ Sampled

Next ==
    \/ Interfere \/ Tick \/ Ask \/ AskFails
    \/ SampleNothing \/ SampleFirst \/ SampleSame \/ SampleJump \/ SampleEdge

Spec == Init /\ [][Next]_vars

-----------------------------------------------------------------------------
(* At *)

Anchored == anchors # {}
Extrapolates == lastPosValid /\ state # "paused" /\ Anchored
Anchor == CHOOSE a \in anchors : TRUE

Media ==
    IF Extrapolates THEN Anchor.media + Anchor.age
    ELSE IF lastPosValid THEN lastPos ELSE 0

Precision ==
    IF ~Extrapolates THEN Frame
    ELSE IF Anchor.window < Poll THEN Poll ELSE Anchor.window

\* The show loop reads the clock where it has just been given a sample.
IsReading == sinceSample = 0 /\ lastPosValid

-----------------------------------------------------------------------------
(* Properties *)

\* The type of every variable; a clock that knows no position has nothing to go by.
TypeOK ==
    /\ film \in 0..End /\ player \in {"playing", "paused", "empty"}
    /\ calm \in 0..Cap
    /\ asked \in Answer \cup {NoPoll} /\ waited \in 0..Latency
    /\ lastPos \in Nat /\ lastPosValid \in BOOLEAN
    /\ sinceSample \in 0..(Gap + Latency) /\ sinceChange \in 0..Cap
    /\ state \in {"unknown", "playing", "paused"}
    /\ anchors \subseteq [media: Nat, age: 0..Cap, window: 0..(Gap + Latency)]
    /\ lastPosValid <=> state # "unknown"
    /\ anchors # {} => lastPosValid

\* Nobody has interfered with the player since the answer that changed what
\* the clock knows was given.
Undisturbed == player = "playing" /\ calm > sinceChange + Latency

\* While the film plays, a reading is no further from the film than it says,
\* and than the answer took (clock.go:60).
PrecisionIsHonest ==
    IsReading /\ Undisturbed => film - Media \in 0..(Precision + Latency)

\* A pause that lasts is noticed, whatever the film was moved by before: after
\* the stall and two polls no reading says the film plays (clock.go:90).
PauseIsNoticed ==
    player # "playing" /\ calm > StallTime + Settling => state # "playing"

\* A film that plays is not said to be paused, once a frame and a poll or two
\* have passed since it resumed, however late the polls are (clock.go:181).
PlayIsNoticed ==
    player = "playing" /\ calm > Frame + Settling => state = "playing"
=============================================================================
