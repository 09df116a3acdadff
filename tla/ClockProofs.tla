----------------------------- MODULE ClockProofs -----------------------------
(***************************************************************************)
(* What a reading of the media clock is worth, for every frame rate, stall, *)
(* poll interval and latency, whatever is done to the player.               *)
(*                                                                         *)
(* None of it is inductive.  An answer is of the film as it is once nobody   *)
(* has interfered for longer than it is old; so is what the clock knows     *)
(* once that holds of its last sample.  The pause is found because the      *)
(* position it knows then changes no more; the film that plays is found     *)
(* because a frame later its position must have changed.                    *)
(***************************************************************************)
EXTENDS Clock, TLAPS

\* pos is the timestamp of the frame on screen with the film at f.
Shows(pos, f) == pos =< f /\ f < pos + Frame

\* A poll is asked in time and answered in time.
PollInv ==
    IF asked = NoPoll THEN waited = 0 /\ sinceSample =< Gap
                      ELSE sinceSample =< Gap + waited

\* An answer younger than the last interference says how things are.
AnswerInv ==
    asked # NoPoll /\ calm > waited =>
        /\ asked.ok <=> player # "empty"
        /\ player = "paused" => asked.pos = Position
        /\ player = "playing" => Shows(asked.pos, film - waited)

\* And so does what the clock knows, when its last sample was of such an answer.
KnownInv ==
    calm > sinceSample + Latency =>
        /\ lastPosValid <=> player # "empty"
        /\ player = "paused" => lastPos = Position
        /\ player = "playing" => /\ lastPos =< film - sinceSample
                                 /\ film - sinceSample - Latency < lastPos + Frame

BaseInv == TypeOK /\ PollInv /\ AnswerInv /\ KnownInv

\* A clock that says the film plays has seen it move within the stall; of a
\* paused film it has seen nothing move since it knew of the pause.
PauseInv ==
    /\ state = "playing" => sinceChange =< sinceSample + StallTime
    /\ player = "paused" => calm =< sinceChange + Gap + 2 * Latency

\* Of a film that plays: where it was when it was last seen to move; that it was
\* little further when nothing moved since the interference; that the clock says
\* paused only then; and that a frame later it has seen it move.
MovedInv == player = "playing" /\ calm > sinceChange + Latency => lastPos =< film - sinceChange
StillInv ==
    /\ player = "playing" /\ calm > sinceSample + Latency
    /\ calm < Cap /\ calm =< sinceChange + Latency
    => lastPos =< film - calm + Gap + Latency
ResumedInv == player = "playing" /\ state = "paused" => calm =< sinceChange + Latency
SeenInv == player = "playing" /\ calm > Frame + Settling => calm > sinceChange + Latency
PlayInv == MovedInv /\ StillInv /\ ResumedInv /\ SeenInv

\* Wherever the film was put, it has run for no longer than the samples are apart
\* since the frame on screen began, if that is not the frame the clock knows; and
\* an anchor is as far behind the film as it was when the edge was seen.
FrameInv == lastPosValid /\ player # "empty" =>
                Position = lastPos \/ film - Position =< sinceSample + Latency
LateInv == asked # NoPoll /\ asked.ok /\ player # "empty" =>
                asked.pos = Position \/ film - Position =< waited
EdgeInv == asked # NoPoll /\ asked.ok /\ lastPosValid /\ player = "playing" /\ calm > waited =>
                asked.pos = lastPos \/ film - asked.pos =< sinceSample + Latency
AnchorInv ==
    \A a \in anchors :
        /\ a.age = sinceChange
        /\ player = "playing" /\ calm > sinceChange + Latency =>
              /\ a.media + a.age =< film
              /\ film - (a.media + a.age) =< a.window + Latency
EdgesInv == FrameInv /\ LateInv /\ EdgeInv /\ AnchorInv

-----------------------------------------------------------------------------
(* Arithmetic *)

LEMMA Constants ==
    /\ Frame \in Nat /\ Frame >= 1 /\ Gap \in Nat /\ Gap >= 1 /\ Latency \in Nat /\ End \in Nat
    /\ StallTime \in Nat /\ StallTime >= 1 /\ Tolerance \in Nat
    /\ Settling = 2 * Gap + 3 * Latency /\ Settling \in Nat
    /\ Cap = StallTime + Frame + Settling + 1 /\ Cap \in Nat
<1>1. \A m, n \in Nat \ {0} : m * n \in Nat /\ m * n >= 1
  OBVIOUS
<1>2. StallTime \in Nat /\ StallTime >= 1 /\ Tolerance \in Nat
  BY <1>1, ConstantsAssumption DEF StallTime, Tolerance
<1>3. QED
  BY <1>2, ConstantsAssumption DEF Settling, Cap

LEMMA NoneIsMore == \A m, n \in Nat : m + n \in Nat /\ ~(0 > m + n) /\ ~(0 > m)
  OBVIOUS

LEMMA FrameShown ==
    ASSUME NEW f \in Nat
    PROVE  (f \div Frame) * Frame \in Nat /\ Shows((f \div Frame) * Frame, f)
  BY ConstantsAssumption DEF Shows

\* A tick later the same frame is shown, or the next one has just begun.
LEMMA FrameNext ==
    ASSUME NEW f \in Nat
    PROVE  \/ ((f + 1) \div Frame) * Frame = (f \div Frame) * Frame
           \/ ((f + 1) \div Frame) * Frame = f + 1
<1> DEFINE a == f \div Frame
           b == (f + 1) \div Frame
<1>1. a \in Nat /\ b \in Nat /\ Frame \in Nat
  BY ConstantsAssumption
<1>2. /\ a * Frame \in Nat /\ a * Frame =< f /\ f < a * Frame + Frame
      /\ b * Frame \in Nat /\ b * Frame =< f + 1 /\ f + 1 < b * Frame + Frame
  BY FrameShown DEF Shows
<1>3. \A m, n, k \in Nat : m < n => m * k + k =< n * k
  OBVIOUS
<1>4. (a < b => a * Frame + Frame =< b * Frame) /\ (b < a => b * Frame + Frame =< a * Frame)
  BY <1>1, <1>3
<1> HIDE DEF a, b
<1>5. a * Frame = b * Frame \/ b * Frame = f + 1
  BY <1>1, <1>2, <1>4
<1>6. QED
  BY <1>5 DEF a, b

LEMMA FrameBegins ==
    ASSUME NEW f \in Nat, f % Frame = 0
    PROVE  (f \div Frame) * Frame = f
  BY ConstantsAssumption

LEMMA Typed ==
    ASSUME TypeOK
    PROVE  /\ film \in Nat /\ film =< End /\ calm \in Nat /\ calm =< Cap
           /\ waited \in Nat /\ waited =< Latency
           /\ sinceSample \in Nat /\ sinceSample =< Gap + Latency
           /\ sinceChange \in Nat /\ sinceChange =< Cap
           /\ lastPos \in Nat /\ Position \in Nat /\ Shows(Position, film)
           /\ asked # NoPoll => asked.pos \in Nat
           /\ asked = NoPoll => ~asked.ok
           /\ asked.ok \in BOOLEAN
<1>1. film \in Nat /\ Cap \in Nat /\ Latency \in Nat /\ Gap \in Nat /\ End \in Nat
  BY Constants DEF TypeOK
<1>2. Position \in Nat /\ Shows(Position, film)
  BY <1>1, FrameShown DEF Position
<1>3. /\ asked # NoPoll => asked.pos \in Nat
      /\ asked = NoPoll => ~asked.ok
      /\ asked.ok \in BOOLEAN
  <2>1. asked \in Answer \cup {NoPoll}
    BY DEF TypeOK
  <2>2. NoPoll.ok = FALSE
    BY DEF NoPoll
  <2>3. \A x \in Answer : x.pos \in Nat /\ x.ok \in BOOLEAN
    BY DEF Answer
  <2>4. asked = NoPoll => ~asked.ok /\ asked.ok \in BOOLEAN
    BY <2>2, Zenon
  <2>5. asked # NoPoll => asked.pos \in Nat /\ asked.ok \in BOOLEAN
    BY <2>1, <2>3, Zenon
  <2>6. QED
    BY <2>4, <2>5
<1>4. QED
  BY <1>1, <1>2, <1>3 DEF TypeOK

\* What time passing does to the ages.
LEMMA TickAges ==
    ASSUME TypeOK, PollInv, Tick
    PROVE  /\ sinceSample' = sinceSample + 1 /\ sinceSample' =< Gap + Latency
           /\ sinceChange' = (IF sinceChange < Cap THEN sinceChange + 1 ELSE Cap)
           /\ waited' \in 0..Latency
           /\ asked # NoPoll => waited' = waited + 1
           /\ PollInv'
           /\ UNCHANGED <<asked, lastPos, lastPosValid, state>>
           /\ \/ /\ player = "playing" /\ player' = "playing" /\ film' = film + 1 /\ film' =< End
                 /\ calm' = (IF calm < Cap THEN calm + 1 ELSE Cap)
              \/ player = "playing" /\ player' = "paused" /\ film' = film /\ calm' = 0
              \/ /\ player # "playing" /\ player' = player /\ film' = film
                 /\ calm' = (IF calm < Cap THEN calm + 1 ELSE Cap)
<1>1. /\ sinceSample' = sinceSample + 1 /\ sinceSample' =< Gap + Latency
      /\ waited' \in 0..Latency
      /\ asked # NoPoll => waited' = waited + 1
      /\ PollInv' /\ asked' = asked
  <2>1. sinceSample < Cap
    BY Typed, Constants
  <2>2. sinceSample' = sinceSample + 1 /\ asked' = asked
    BY <2>1 DEF Tick, Older
  <2>3. CASE asked = NoPoll
    <3>1. sinceSample < Gap /\ waited' = 0
      BY <2>3 DEF Tick
    <3>2. QED
      BY <2>2, <2>3, <3>1, Typed, Constants DEF PollInv
  <2>4. CASE asked # NoPoll
    <3>1. waited < Latency /\ waited' = waited + 1
      BY <2>4 DEF Tick
    <3>2. QED
      BY <2>2, <2>4, <3>1, Typed, Constants DEF PollInv
  <2>5. QED
    BY <2>3, <2>4
<1>2. /\ sinceChange' = (IF sinceChange < Cap THEN sinceChange + 1 ELSE Cap)
      /\ UNCHANGED <<lastPos, lastPosValid, state>>
  <2>1. sinceChange' = Older(sinceChange) /\ UNCHANGED <<lastPos, lastPosValid, state>>
    BY DEF Tick
  <2>2. sinceChange =< Cap /\ sinceChange \in Nat /\ Cap \in Nat
    BY Typed, Constants
  <2>3. QED
    BY <2>1, <2>2 DEF Older
<1>3. Older(calm) = IF calm < Cap THEN calm + 1 ELSE Cap
  BY Typed, Constants DEF Older
<1>4. CASE player = "playing" /\ film < End
  <2>1. film' = film + 1 /\ player' = player /\ calm' = Older(calm)
    BY <1>4 DEF Tick
  <2>2. QED
    BY <1>1, <1>2, <1>3, <1>4, <2>1, Typed, Constants
<1>5. CASE player = "playing" /\ ~(film < End)
  <2>1. film' = film /\ player' = "paused" /\ calm' = 0
    BY <1>5 DEF Tick
  <2>2. QED
    BY <1>1, <1>2, <1>5, <2>1
<1>6. CASE player # "playing"
  <2>1. film' = film /\ player' = player /\ calm' = Older(calm)
    BY <1>6 DEF Tick
  <2>2. QED
    BY <1>1, <1>2, <1>3, <1>6, <2>1
<1>7. QED
  BY <1>4, <1>5, <1>6

\* What any sample does, and what it makes of the position.
Sample == SampleNothing \/ SampleFirst \/ SampleSame \/ SampleJump \/ SampleEdge

LEMMA SampleTakes ==
    ASSUME TypeOK, Sample
    PROVE  /\ asked # NoPoll
           /\ asked' = NoPoll /\ waited' = 0 /\ sinceSample' = 0
           /\ UNCHANGED <<film, player, calm>>
           /\ lastPosValid' <=> asked.ok
           /\ asked.ok => lastPos' = asked.pos
           /\ ~asked.ok => lastPos' = 0 /\ state' = "unknown" /\ anchors' = {} /\ sinceChange' = sinceChange
           /\ asked.ok => \/ sinceChange' = 0 /\ state' = "playing" /\ ~SampleSame
                          \/ /\ SampleSame /\ sinceChange' = sinceChange /\ lastPosValid
                             /\ lastPos = asked.pos /\ anchors' = anchors
                             /\ state' = IF sinceChange > StallTime THEN "paused" ELSE state
<1>1. asked # NoPoll
  BY Typed DEF Sample, SampleNothing, SampleFirst, SampleSame, SampleJump, SampleEdge
<1>2. CASE SampleNothing
  BY <1>1, <1>2, Typed DEF SampleNothing, Sampled, external
<1>3. CASE SampleFirst
  BY <1>1, <1>3, Typed DEF SampleFirst, Sampled, external, SampleSame
<1>4. CASE SampleSame
  BY <1>1, <1>4, Typed DEF SampleSame, Sampled, external
<1>5. CASE SampleJump
  BY <1>1, <1>5, Typed DEF SampleJump, Sampled, external, SampleSame
<1>6. CASE SampleEdge
  BY <1>1, <1>6, Typed DEF SampleEdge, Sampled, external, SampleSame
<1>7. QED
  BY <1>2, <1>3, <1>4, <1>5, <1>6 DEF Sample

LEMMA AskTakes ==
    ASSUME TypeOK, Ask
    PROVE  /\ asked = NoPoll /\ waited' = 0 /\ UNCHANGED <<external, clock>>
           /\ asked' \in Answer /\ asked' # NoPoll
           /\ asked'.ok <=> player # "empty"
           /\ player # "empty" => asked'.pos = Position
<1>1. Position \in Nat
  BY Typed
<1>2. (player # "empty") \in BOOLEAN
  OBVIOUS
<1>3. /\ asked' = [pos |-> IF player = "empty" THEN 0 ELSE Position, ok |-> player # "empty"]
      /\ asked = NoPoll /\ waited' = 0 /\ UNCHANGED <<external, clock>>
  BY DEF Ask
<1>4. asked'.pos \in Nat /\ (player # "empty" => asked'.pos = Position)
  BY <1>1, <1>3
<1>5. asked'.ok <=> player # "empty"
  BY <1>3
<1>6. asked' # NoPoll
  BY <1>4 DEF NoPoll
<1>7. asked' \in Answer
  BY <1>1, <1>3 DEF Answer
<1>8. QED
  BY <1>3, <1>4, <1>5, <1>6, <1>7

LEMMA InterfereTakes ==
    ASSUME TypeOK, Interfere
    PROVE  /\ calm' = 0 /\ UNCHANGED <<asked, waited, clock>>
           /\ film' \in 0..End /\ player' \in {"playing", "paused", "empty"}
           /\ \/ film' = film /\ player # "empty"
              \/ player' = "empty"
              \/ film' % Frame = 0
  BY Constants, Typed DEF Interfere, TypeOK

-----------------------------------------------------------------------------
(* The type invariant, and what answers and samples are worth *)

LEMMA InitBase == Init => BaseInv
<1> SUFFICES ASSUME Init PROVE BaseInv
  OBVIOUS
<1>1. TypeOK
  <2>1. film \in 0..End /\ calm \in 0..Cap /\ waited \in 0..Latency
    BY Constants DEF Init
  <2>2. sinceSample \in 0..(Gap + Latency) /\ sinceChange \in 0..Cap
    BY Constants DEF Init
  <2>3. QED
    BY <2>1, <2>2 DEF Init, TypeOK
<1>2. PollInv /\ AnswerInv /\ KnownInv
  BY Constants DEF Init, PollInv, AnswerInv, KnownInv
<1>3. QED
  BY <1>1, <1>2 DEF BaseInv

LEMMA TypeStep == TypeOK /\ PollInv /\ [Next]_vars => TypeOK'
<1> SUFFICES ASSUME TypeOK, PollInv, [Next]_vars PROVE TypeOK'
  OBVIOUS
<1>1. CASE Interfere
  BY <1>1, InterfereTakes, Constants DEF TypeOK, clock
<1>2. CASE Tick
  <2>1. /\ film' \in 0..End /\ player' \in {"playing", "paused", "empty"} /\ calm' \in 0..Cap
        /\ sinceChange' \in 0..Cap /\ sinceSample' \in 0..(Gap + Latency) /\ waited' \in 0..Latency
        /\ UNCHANGED <<asked, lastPos, lastPosValid, state>>
    BY <1>2, TickAges, Typed, Constants DEF TypeOK
  <2>2. anchors' \subseteq [media: Nat, age: 0..Cap, window: 0..(Gap + Latency)]
    <3>1. \A age \in 0..Cap : Older(age) \in 0..Cap
      BY Constants DEF Older
    <3>2. \A a \in [media: Nat, age: 0..Cap, window: 0..(Gap + Latency)] :
             [a EXCEPT !.age = Older(@)] \in [media: Nat, age: 0..Cap, window: 0..(Gap + Latency)]
      BY <3>1
    <3>3. anchors' = {[a EXCEPT !.age = Older(@)] : a \in anchors}
      BY <1>2 DEF Tick
    <3>4. QED
      BY <3>2, <3>3 DEF TypeOK
  <2>3. anchors' # {} => anchors # {}
    BY <1>2 DEF Tick
  <2>4. QED
    BY <2>1, <2>2, <2>3 DEF TypeOK
<1>3. CASE Ask
  BY <1>3, AskTakes, Constants DEF TypeOK, external, clock
<1>4. CASE AskFails
  BY <1>4, Constants DEF AskFails, TypeOK, external, clock
<1>5. CASE Sample
  <2>1. /\ asked' \in Answer \cup {NoPoll} /\ waited' \in 0..Latency
        /\ sinceSample' \in 0..(Gap + Latency) /\ sinceChange' \in 0..Cap
        /\ UNCHANGED <<film, player, calm>> /\ lastPos' \in Nat
    BY <1>5, SampleTakes, Typed, Constants DEF TypeOK
  <2>2. CASE SampleNothing
    <3>1. anchors' = {} /\ lastPosValid' = FALSE /\ state' = "unknown"
      BY <2>2 DEF SampleNothing
    <3>2. QED
      BY <2>1, <3>1 DEF TypeOK
  <2>3. CASE SampleFirst
    <3>1. anchors' = anchors /\ lastPosValid' = TRUE /\ state' = "playing"
      BY <2>3 DEF SampleFirst
    <3>2. QED
      BY <2>1, <3>1 DEF TypeOK
  <2>4. CASE SampleSame
    <3>1. /\ lastPosValid /\ lastPosValid' = lastPosValid /\ anchors' = anchors
          /\ state' = "paused" \/ state' = state
      BY <2>4 DEF SampleSame
    <3>2. QED
      BY <2>1, <3>1 DEF TypeOK
  <2>5. CASE SampleJump
    <3>1. anchors' = {} /\ lastPosValid /\ lastPosValid' = lastPosValid /\ state' = "playing"
      BY <2>5 DEF SampleJump
    <3>2. QED
      BY <2>1, <3>1 DEF TypeOK
  <2>6. CASE SampleEdge
    <3>1. /\ anchors' = {[media |-> asked.pos, age |-> 0, window |-> sinceSample]}
          /\ lastPosValid /\ lastPosValid' = lastPosValid /\ state' = "playing"
      BY <2>6 DEF SampleEdge
    <3>2. asked # NoPoll
      BY <1>5, SampleTakes
    <3>3. anchors' \subseteq [media: Nat, age: 0..Cap, window: 0..(Gap + Latency)]
      BY <3>1, <3>2, Typed, Constants
    <3>4. QED
      BY <2>1, <3>1, <3>3 DEF TypeOK
  <2>7. QED
    BY <1>5, <2>2, <2>3, <2>4, <2>5, <2>6 DEF Sample
<1>6. CASE UNCHANGED vars
  BY <1>6 DEF TypeOK, vars, external, clock
<1>7. QED
  BY <1>1, <1>2, <1>3, <1>4, <1>5, <1>6 DEF Next, Sample

LEMMA BaseStep == BaseInv /\ [Next]_vars => BaseInv'
<1> SUFFICES ASSUME BaseInv, [Next]_vars PROVE BaseInv'
  OBVIOUS
<1>0. TypeOK /\ PollInv /\ AnswerInv /\ KnownInv /\ TypeOK'
  BY TypeStep DEF BaseInv
<1>1. CASE Interfere
  <2>1. PollInv'
    BY <1>0, <1>1, InterfereTakes DEF PollInv, clock
  <2>2. AnswerInv' /\ KnownInv'
    <3>1. calm' = 0 /\ waited' \in Nat /\ sinceSample' \in Nat /\ Latency \in Nat
      BY <1>0, <1>1, InterfereTakes, Typed, Constants DEF clock
    <3>2. ~(calm' > waited') /\ ~(calm' > sinceSample' + Latency)
      BY <3>1, NoneIsMore
    <3>3. QED
      BY <3>2, Zenon DEF AnswerInv, KnownInv
  <2>3. QED
    BY <1>0, <2>1, <2>2 DEF BaseInv
<1>2. CASE Tick
  <2>1. PollInv' /\ UNCHANGED <<asked, lastPos, lastPosValid>>
    BY <1>0, <1>2, TickAges
  <2>2. CASE player = "playing" /\ player' = "playing"
    <3>1. /\ film' = film + 1 /\ calm' = (IF calm < Cap THEN calm + 1 ELSE Cap)
          /\ sinceSample' = sinceSample + 1
          /\ asked # NoPoll => waited' = waited + 1
          /\ waited' =< Latency /\ waited' \in Nat /\ sinceSample' =< Gap + Latency
      BY <1>0, <1>2, <2>2, TickAges
    <3>2. AnswerInv'
      <4>1. CASE asked # NoPoll /\ calm' > waited'
        <5>1. calm > waited
          BY <1>0, <3>1, <4>1, Typed, Constants
        <5>2. asked.ok /\ asked.pos =< film - waited /\ film - waited < asked.pos + Frame
          BY <1>0, <2>2, <4>1, <5>1 DEF AnswerInv, Shows
        <5>3. film' - waited' = film - waited
          BY <1>0, <3>1, <4>1, Typed
        <5>4. QED
          BY <2>1, <2>2, <5>2, <5>3 DEF AnswerInv, Shows
      <4>2. QED
        BY <2>1, <4>1 DEF AnswerInv
    <3>3. KnownInv'
      <4>1. CASE calm' > sinceSample' + Latency
        <5>1. calm > sinceSample + Latency
          BY <1>0, <3>1, <4>1, Typed, Constants
        <5>2. QED
          BY <1>0, <2>1, <2>2, <3>1, <5>1, Typed, Constants DEF KnownInv
      <4>2. QED
        BY <4>1 DEF KnownInv
    <3>4. QED
      BY <1>0, <2>1, <3>2, <3>3 DEF BaseInv
  <2>3. CASE player = "playing" /\ player' # "playing"
    <3>1. calm' = 0 /\ waited' \in Nat /\ sinceSample' \in Nat /\ Latency \in Nat
      BY <1>0, <1>2, <2>3, TickAges, Typed, Constants
    <3>2. ~(calm' > waited') /\ ~(calm' > sinceSample' + Latency)
      BY <3>1, NoneIsMore
    <3>3. AnswerInv' /\ KnownInv'
      BY <3>2, Zenon DEF AnswerInv, KnownInv
    <3>4. QED
      BY <1>0, <2>1, <3>3 DEF BaseInv
  <2>4. CASE player # "playing"
    <3>1. /\ film' = film /\ player' = player /\ Position' = Position
          /\ calm' = (IF calm < Cap THEN calm + 1 ELSE Cap)
          /\ sinceSample' = sinceSample + 1
          /\ asked # NoPoll => waited' = waited + 1
          /\ waited' =< Latency /\ waited' \in Nat /\ sinceSample' =< Gap + Latency
      BY <1>0, <1>2, <2>4, TickAges DEF Position
    <3>2. asked # NoPoll /\ calm' > waited' => calm > waited
      BY <1>0, <3>1, Typed, Constants
    <3>3. calm' > sinceSample' + Latency => calm > sinceSample + Latency
      BY <1>0, <3>1, Typed, Constants
    <3>4. AnswerInv' /\ KnownInv'
      BY <1>0, <2>1, <2>4, <3>1, <3>2, <3>3 DEF AnswerInv, KnownInv
    <3>5. QED
      BY <1>0, <2>1, <3>4 DEF BaseInv
  <2>5. QED
    BY <2>2, <2>3, <2>4
<1>3. CASE Ask
  <2>1. /\ asked = NoPoll /\ waited' = 0 /\ asked' # NoPoll
        /\ asked'.ok <=> player # "empty"
        /\ player # "empty" => asked'.pos = Position
        /\ UNCHANGED <<film, player, calm, lastPos, lastPosValid, sinceSample>>
    BY <1>0, <1>3, AskTakes DEF external, clock
  <2>2. PollInv'
    BY <1>0, <2>1, Typed, Constants DEF PollInv
  <2>3. AnswerInv'
    <3>1. Shows(Position, film - 0) /\ Position' = Position
      BY <1>0, <2>1, Typed DEF Position
    <3>2. QED
      BY <2>1, <3>1 DEF AnswerInv
  <2>4. KnownInv'
    BY <1>0, <2>1 DEF KnownInv, Position
  <2>5. QED
    BY <1>0, <2>2, <2>3, <2>4 DEF BaseInv
<1>4. CASE AskFails
  <2>1. /\ asked' = NoPoll /\ waited' = 0 /\ sinceSample < Gap
        /\ UNCHANGED <<film, player, calm, lastPos, lastPosValid, sinceSample>>
    BY <1>4 DEF AskFails, external, clock
  <2>2. PollInv' /\ AnswerInv'
    BY <1>0, <2>1, Typed, Constants DEF PollInv, AnswerInv
  <2>3. KnownInv'
    BY <1>0, <2>1 DEF KnownInv, Position
  <2>4. QED
    BY <1>0, <2>2, <2>3 DEF BaseInv
<1>5. CASE Sample
  <2>1. /\ asked # NoPoll /\ asked' = NoPoll /\ waited' = 0 /\ sinceSample' = 0
        /\ UNCHANGED <<film, player, calm>> /\ Position' = Position
        /\ lastPosValid' <=> asked.ok
        /\ asked.ok => lastPos' = asked.pos
    BY <1>0, <1>5, SampleTakes DEF Position
  <2>2. PollInv' /\ AnswerInv'
    BY <1>0, <2>1, Typed, Constants DEF PollInv, AnswerInv
  <2>3. KnownInv'
    <3>1. CASE calm > Latency
      <4>1. calm > waited
        BY <1>0, <3>1, Typed, Constants
      <4>2. /\ asked.ok <=> player # "empty"
            /\ player = "paused" => asked.pos = Position
            /\ player = "playing" => asked.pos =< film - waited /\ film - waited < asked.pos + Frame
        BY <1>0, <2>1, <4>1 DEF AnswerInv, Shows
      <4>3. player = "playing" => lastPos' =< film' - sinceSample'
                                  /\ film' - sinceSample' - Latency < lastPos' + Frame
        BY <1>0, <2>1, <4>2, Typed, Constants
      <4>4. QED
        BY <2>1, <4>2, <4>3 DEF KnownInv
    <3>2. CASE ~(calm > Latency)
      BY <1>0, <2>1, <3>2, Typed, Constants DEF KnownInv
    <3>3. QED
      BY <3>1, <3>2
  <2>4. QED
    BY <1>0, <2>2, <2>3 DEF BaseInv
<1>6. CASE UNCHANGED vars
  BY <1>0, <1>6 DEF BaseInv, PollInv, AnswerInv, KnownInv, Position, vars, external, clock
<1>7. QED
  BY <1>1, <1>2, <1>3, <1>4, <1>5, <1>6 DEF Next, Sample

\* The clock's variables keep their types, and it is in no state without a
\* position (clock.go:70).
THEOREM ClockTypes == Spec => []TypeOK
<1>1. BaseInv => TypeOK
  BY DEF BaseInv
<1>2. QED
  BY <1>1, InitBase, BaseStep, PTL DEF Spec

-----------------------------------------------------------------------------
(* A pause *)

\* A sample of an answer that says how things are finds what the clock knew.
LEMMA PausedSample ==
    ASSUME BaseInv, Sample, player = "paused", calm > Gap + 2 * Latency
    PROVE  asked.ok /\ lastPosValid /\ lastPos = asked.pos /\ SampleSame
<1>1. calm > waited /\ calm > sinceSample + Latency
  BY Typed, Constants DEF BaseInv
<1>2. asked # NoPoll
  BY SampleTakes DEF BaseInv
<1>3. asked.ok /\ asked.pos = Position /\ lastPosValid /\ lastPos = Position
  BY <1>1, <1>2 DEF BaseInv, AnswerInv, KnownInv
<1>4. SampleSame
  BY <1>3 DEF Sample, SampleNothing, SampleFirst, SampleJump, SampleEdge
<1>5. QED
  BY <1>3, <1>4

LEMMA PauseStep == BaseInv /\ PauseInv /\ [Next]_vars => PauseInv'
<1> SUFFICES ASSUME BaseInv, PauseInv, [Next]_vars PROVE PauseInv'
  OBVIOUS
<1>0. TypeOK /\ PollInv
  BY DEF BaseInv
<1>1. CASE Interfere
  <2>1. calm' = 0 /\ UNCHANGED clock /\ sinceChange' \in Nat
    BY <1>0, <1>1, InterfereTakes, Typed DEF clock
  <2>2. \A n \in Nat : 0 =< n + Gap + 2 * Latency
    BY Constants
  <2>3. QED
    BY <2>1, <2>2 DEF PauseInv, clock
<1>2. CASE Tick
  <2>1. /\ sinceSample' = sinceSample + 1
        /\ sinceChange' = (IF sinceChange < Cap THEN sinceChange + 1 ELSE Cap)
        /\ state' = state
    BY <1>0, <1>2, TickAges
  <2>2. state' = "playing" => sinceChange' =< sinceSample' + StallTime
    BY <1>0, <2>1, Typed, Constants DEF PauseInv
  <2>3. CASE player = "playing"
    <3>1. player' = "paused" => calm' = 0
      BY <1>0, <1>2, <2>3, TickAges
    <3>2. sinceChange' \in Nat
      BY <1>0, <2>1, Typed, Constants
    <3>3. \A n \in Nat : 0 =< n + Gap + 2 * Latency
      BY Constants
    <3>4. QED
      BY <2>2, <3>1, <3>2, <3>3 DEF PauseInv
  <2>4. CASE player # "playing"
    <3>1. player' = player /\ calm' = (IF calm < Cap THEN calm + 1 ELSE Cap)
      BY <1>0, <1>2, <2>4, TickAges
    <3>2. player' = "paused" => calm' =< sinceChange' + Gap + 2 * Latency
      BY <1>0, <2>1, <3>1, Typed, Constants DEF PauseInv
    <3>3. QED
      BY <2>2, <3>2 DEF PauseInv
  <2>5. QED
    BY <2>3, <2>4
<1>3. CASE Ask \/ AskFails
  BY <1>3 DEF Ask, AskFails, PauseInv, external, clock
<1>4. CASE Sample
  <2>1. /\ sinceSample' = 0 /\ UNCHANGED <<player, calm>>
        /\ ~asked.ok => state' = "unknown" /\ sinceChange' = sinceChange
        /\ asked.ok => \/ sinceChange' = 0 /\ state' = "playing" /\ ~SampleSame
                       \/ /\ SampleSame /\ sinceChange' = sinceChange
                          /\ state' = IF sinceChange > StallTime THEN "paused" ELSE state
    BY <1>0, <1>4, SampleTakes
  <2>2. state' = "playing" => sinceChange' =< sinceSample' + StallTime
    BY <1>0, <2>1, Typed, Constants
  <2>3. ASSUME player = "paused"
        PROVE  calm =< sinceChange' + Gap + 2 * Latency
    <3>1. CASE calm > Gap + 2 * Latency
      BY <2>1, <2>3, <3>1, <1>4, PausedSample DEF PauseInv
    <3>2. CASE ~(calm > Gap + 2 * Latency)
      BY <1>0, <2>1, <3>2, Typed, Constants
    <3>3. QED
      BY <3>1, <3>2
  <2>4. QED
    BY <2>1, <2>2, <2>3 DEF PauseInv
<1>5. CASE UNCHANGED vars
  BY <1>5 DEF PauseInv, vars, external, clock
<1>6. QED
  BY <1>1, <1>2, <1>3, <1>4, <1>5 DEF Next, Sample

LEMMA PauseHolds == BaseInv /\ PauseInv => PauseIsNoticed
<1> SUFFICES ASSUME BaseInv, PauseInv, player # "playing", calm > StallTime + Settling
             PROVE  state # "playing"
  BY DEF PauseIsNoticed
<1>0. TypeOK
  BY DEF BaseInv
<1>1. calm > sinceSample + Latency
  BY <1>0, Typed, Constants
<1>2. CASE player = "empty"
  BY <1>0, <1>1, <1>2 DEF BaseInv, KnownInv, TypeOK
<1>3. CASE player = "paused"
  <2>1. calm =< sinceChange + Gap + 2 * Latency
    BY <1>3 DEF PauseInv
  <2>2. sinceChange > sinceSample + StallTime
    BY <1>0, <2>1, Typed, Constants
  <2>3. QED
    BY <1>0, <2>2, Typed, Constants DEF PauseInv
<1>4. QED
  BY <1>0, <1>2, <1>3 DEF TypeOK

LEMMA InitPause == Init => PauseInv
<1> SUFFICES ASSUME Init PROVE PauseInv
  OBVIOUS
<1>1. player # "paused" /\ state # "playing"
  BY DEF Init
<1>2. QED
  BY <1>1 DEF PauseInv

\* A pause that lasts is noticed: no reading says the film plays once the stall
\* and two polls are over, whatever was done to the player before (clock.go:90).
THEOREM ClockNoticesAPause == Spec => []PauseIsNoticed
<1>1. Init => BaseInv /\ PauseInv
  BY InitBase, InitPause
<1>2. BaseInv /\ PauseInv /\ [Next]_vars => BaseInv' /\ PauseInv'
  BY BaseStep, PauseStep
<1>3. QED
  BY <1>1, <1>2, PauseHolds, PTL DEF Spec

-----------------------------------------------------------------------------
(* A film that plays *)

\* A sample taken long enough after the interference is of the film as it plays.
LEMMA PlayingSample ==
    ASSUME BaseInv, Sample, player = "playing", calm > Latency
    PROVE  /\ asked.ok /\ lastPos' = asked.pos /\ lastPosValid'
           /\ lastPos' =< film - waited /\ film - waited < lastPos' + Frame
           /\ calm > waited /\ asked # NoPoll
<1>1. calm > waited
  BY Typed, Constants DEF BaseInv
<1>2. asked # NoPoll
  BY SampleTakes DEF BaseInv
<1>3. asked.ok /\ Shows(asked.pos, film - waited)
  BY <1>1, <1>2 DEF BaseInv, AnswerInv
<1>4. lastPos' = asked.pos /\ lastPosValid'
  BY <1>3, SampleTakes DEF BaseInv
<1>5. QED
  BY <1>1, <1>2, <1>3, <1>4 DEF Shows

\* A film that plays has not stood still for the stall.
LEMMA NeverStalled ==
    ASSUME BaseInv, MovedInv, SampleSame, player = "playing", calm > sinceChange + Latency
    PROVE  ~(sinceChange > StallTime)
<1>0. TypeOK
  BY DEF BaseInv
<1>1. calm > Latency
  BY <1>0, Typed, Constants
<1>2. lastPos =< film - sinceChange
  BY DEF MovedInv
<1>3. asked.pos = lastPos
  BY DEF SampleSame
<1>4. film - waited < asked.pos + Frame
  <2>1. lastPos' = asked.pos /\ film - waited < lastPos' + Frame
    BY <1>1, PlayingSample DEF Sample
  <2>2. QED
    BY <2>1
<1>5. sinceChange < Frame + waited
  BY <1>0, <1>2, <1>3, <1>4, Typed, Constants
<1>6. StallTime >= Frame + Latency
  BY StallAssumption DEF StallTime
<1>7. QED
  BY <1>0, <1>5, <1>6, Typed, Constants

\* In a sample where nothing moved since the interference, the answer was asked
\* soon after it.
LEMMA StillSample ==
    ASSUME BaseInv, StillInv, Sample, player = "playing", calm > Latency, calm < Cap,
           calm =< sinceChange' + Latency
    PROVE  lastPos' =< film - calm + Gap + Latency
<1>0. TypeOK
  BY DEF BaseInv
<1>1. /\ asked.ok /\ lastPos' = asked.pos /\ lastPos' =< film - waited
      /\ asked # NoPoll
  BY PlayingSample
<1>2. SampleSame /\ sinceChange' = sinceChange /\ lastPos = asked.pos
  BY <1>0, <1>1, SampleTakes, Typed, Constants
<1>3. CASE calm > sinceSample + Latency
  BY <1>1, <1>2, <1>3 DEF StillInv
<1>4. CASE ~(calm > sinceSample + Latency)
  <2>1. sinceSample =< Gap + waited
    BY <1>1 DEF BaseInv, PollInv
  <2>2. lastPos' \in Nat
    BY <1>0, <1>1, Typed
  <2>3. QED
    BY <1>0, <1>1, <1>4, <2>1, <2>2, Typed, Constants
<1>5. QED
  BY <1>3, <1>4

\* Once a frame and two polls are over, the clock has seen the film move.
LEMMA MustHaveMoved ==
    ASSUME BaseInv, StillInv, player = "playing", calm > Frame + Settling, calm < Cap
    PROVE  calm > sinceChange + Latency
<1>0. TypeOK
  BY DEF BaseInv
<1>1. calm > sinceSample + Latency
  BY <1>0, Typed, Constants
<1>2. film - sinceSample - Latency < lastPos + Frame
  BY <1>1 DEF BaseInv, KnownInv
<1>3. SUFFICES ASSUME calm =< sinceChange + Latency PROVE FALSE
  BY <1>0, Typed, Constants
<1>4. lastPos =< film - calm + Gap + Latency
  BY <1>1, <1>3 DEF StillInv
<1>5. QED
  BY <1>0, <1>2, <1>4, Typed, Constants

\* And after that it saw it move no longer ago than a frame and a poll.
LEMMA MovedLately ==
    ASSUME BaseInv, MovedInv, player = "playing", calm > Frame + Settling,
           calm > sinceChange + Latency
    PROVE  sinceChange < Frame + sinceSample + Latency
<1>0. TypeOK
  BY DEF BaseInv
<1>1. calm > sinceSample + Latency
  BY <1>0, Typed, Constants
<1>2. film - sinceSample - Latency < lastPos + Frame
  BY <1>1 DEF BaseInv, KnownInv
<1>3. lastPos =< film - sinceChange
  BY DEF MovedInv
<1>4. QED
  BY <1>0, <1>2, <1>3, Typed, Constants

LEMMA PlayTick ==
    ASSUME BaseInv, BaseInv', PlayInv, Tick
    PROVE  PlayInv'
<1>0. TypeOK /\ PollInv /\ TypeOK' /\ MovedInv /\ StillInv /\ ResumedInv /\ SeenInv
  BY DEF BaseInv, PlayInv
<1>1. CASE player' # "playing"
  BY <1>1 DEF PlayInv, MovedInv, StillInv, ResumedInv, SeenInv
<1>2. CASE player' = "playing"
  <2>1. /\ player = "playing" /\ film' = film + 1
        /\ calm' = (IF calm < Cap THEN calm + 1 ELSE Cap)
        /\ sinceSample' = sinceSample + 1 /\ sinceSample' =< Gap + Latency
        /\ sinceChange' = (IF sinceChange < Cap THEN sinceChange + 1 ELSE Cap)
        /\ lastPos' = lastPos /\ state' = state
    BY <1>0, <1>2, TickAges
  <2>2. MovedInv'
    <3>1. CASE calm' > sinceChange' + Latency
      <4>1. calm > sinceChange + Latency /\ sinceChange' = sinceChange + 1
        BY <1>0, <2>1, <3>1, Typed, Constants
      <4>2. lastPos =< film - sinceChange
        BY <1>0, <2>1, <4>1 DEF MovedInv
      <4>3. lastPos' =< film' - sinceChange'
        BY <1>0, <2>1, <4>1, <4>2, Typed
      <4>4. QED
        BY <4>3 DEF MovedInv
    <3>2. QED
      BY <3>1 DEF MovedInv
  <2>3. StillInv'
    <3>1. CASE calm' > sinceSample' + Latency /\ calm' < Cap /\ calm' =< sinceChange' + Latency
      <4>1. /\ calm > sinceSample + Latency /\ calm < Cap /\ calm =< sinceChange + Latency
            /\ calm' = calm + 1
        BY <1>0, <2>1, <3>1, Typed, Constants
      <4>2. lastPos =< film - calm + Gap + Latency
        BY <1>0, <2>1, <4>1 DEF StillInv
      <4>3. lastPos' =< film' - calm' + Gap + Latency
        BY <1>0, <2>1, <4>1, <4>2, Typed, Constants
      <4>4. QED
        BY <4>3 DEF StillInv
    <3>2. QED
      BY <3>1 DEF StillInv
  <2>4. ResumedInv'
    <3>1. CASE state' = "paused"
      <4>1. calm =< sinceChange + Latency
        BY <1>0, <2>1, <3>1 DEF ResumedInv
      <4>2. calm' =< sinceChange' + Latency
        BY <1>0, <2>1, <4>1, Typed, Constants
      <4>3. QED
        BY <4>2 DEF ResumedInv
    <3>2. QED
      BY <3>1 DEF ResumedInv
  <2>5. SeenInv'
    <3>1. CASE calm' > Frame + Settling /\ calm' < Cap
      <4>1. StillInv' /\ player' = "playing"
        BY <1>2, <2>3
      <4>2. (BaseInv /\ StillInv /\ player = "playing" /\ calm > Frame + Settling /\ calm < Cap
               => calm > sinceChange + Latency)'
        BY MustHaveMoved, PTL
      <4>3. calm' > sinceChange' + Latency
        BY <3>1, <4>1, <4>2
      <4>4. QED
        BY <4>3 DEF SeenInv
    <3>2. CASE calm' > Frame + Settling /\ ~(calm' < Cap)
      <4>1. calm > Frame + Settling /\ calm' = Cap
        BY <1>0, <2>1, <3>2, Typed, Constants
      <4>2. calm > sinceChange + Latency
        BY <1>0, <2>1, <4>1 DEF SeenInv
      <4>3. sinceChange < Frame + sinceSample + Latency
        BY <1>0, <2>1, <4>1, <4>2, MovedLately
      <4>4. sinceChange' =< sinceChange + 1
        BY <1>0, <2>1, Typed, Constants
      <4>5. calm' > sinceChange' + Latency
        BY <1>0, <2>1, <4>1, <4>3, <4>4, Typed, Constants
      <4>6. QED
        BY <4>5 DEF SeenInv
    <3>3. QED
      BY <3>1, <3>2 DEF SeenInv
  <2>6. QED
    BY <2>2, <2>3, <2>4, <2>5 DEF PlayInv
<1>3. QED
  BY <1>1, <1>2

LEMMA PlaySample ==
    ASSUME BaseInv, PlayInv, Sample
    PROVE  PlayInv'
<1>0. TypeOK /\ MovedInv /\ StillInv /\ ResumedInv /\ SeenInv
  BY DEF BaseInv, PlayInv
<1>1. /\ sinceSample' = 0 /\ UNCHANGED <<film, player, calm>>
      /\ sinceChange' = 0 \/ sinceChange' = sinceChange
      /\ sinceChange' \in Nat
  BY <1>0, SampleTakes, Typed
<1>2. CASE player # "playing"
  BY <1>1, <1>2 DEF PlayInv, MovedInv, StillInv, ResumedInv, SeenInv
<1>3. CASE player = "playing"
  <2>1. MovedInv'
    <3>1. CASE calm > sinceChange' + Latency
      <4>1. calm > Latency
        BY <1>0, <1>1, <3>1, Typed, Constants
      <4>2. asked.ok /\ lastPos' = asked.pos /\ lastPos' =< film - waited
        BY <1>3, <4>1, PlayingSample
      <4>3. CASE sinceChange' = 0
        <5>1. lastPos' =< film' - sinceChange'
          BY <1>0, <1>1, <4>2, <4>3, Typed
        <5>2. QED
          BY <5>1 DEF MovedInv
      <4>4. CASE sinceChange' # 0
        <5>1. sinceChange' = sinceChange /\ lastPos' = lastPos
          BY <1>0, <1>1, <4>2, <4>4, SampleTakes
        <5>2. QED
          BY <1>0, <1>1, <5>1 DEF MovedInv
      <4>5. QED
        BY <4>3, <4>4
    <3>2. QED
      BY <1>1, <3>1 DEF MovedInv
  <2>2. StillInv'
    <3>1. CASE calm > Latency /\ calm < Cap /\ calm =< sinceChange' + Latency
      <4>1. lastPos' =< film - calm + Gap + Latency
        BY <1>0, <1>3, <3>1, StillSample
      <4>2. QED
        BY <1>1, <4>1 DEF StillInv
    <3>2. calm > sinceSample' + Latency => calm > Latency
      BY <1>1, Constants
    <3>3. QED
      BY <1>1, <3>1, <3>2 DEF StillInv
  <2>3. ResumedInv'
    <3>1. CASE state' = "paused"
      <4>1. SampleSame /\ sinceChange' = sinceChange
            /\ state' = IF sinceChange > StallTime THEN "paused" ELSE state
        BY <1>0, <3>1, SampleTakes
      <4>2. CASE state = "paused"
        BY <1>0, <1>1, <1>3, <4>1, <4>2 DEF ResumedInv
      <4>3. CASE state # "paused"
        <5>1. sinceChange > StallTime
          BY <3>1, <4>1, <4>3
        <5>2. ~(calm > sinceChange + Latency)
          BY <1>0, <1>3, <4>1, <5>1, NeverStalled
        <5>3. calm =< sinceChange + Latency
          BY <1>0, <5>2, Typed, Constants
        <5>4. QED
          BY <1>1, <4>1, <5>3 DEF ResumedInv
      <4>4. QED
        BY <4>2, <4>3
    <3>2. QED
      BY <3>1 DEF ResumedInv
  <2>4. SeenInv'
    <3>1. calm > Frame + Settling => calm > sinceChange' + Latency
      BY <1>0, <1>1, <1>3, Typed, Constants DEF SeenInv
    <3>2. QED
      BY <1>1, <3>1 DEF SeenInv
  <2>5. QED
    BY <2>1, <2>2, <2>3, <2>4 DEF PlayInv
<1>4. QED
  BY <1>2, <1>3

LEMMA PlayStep == BaseInv /\ BaseInv' /\ PlayInv /\ [Next]_vars => PlayInv'
<1> SUFFICES ASSUME BaseInv, BaseInv', PlayInv, [Next]_vars PROVE PlayInv'
  OBVIOUS
<1>1. CASE Interfere
  <2>1. calm' = 0 /\ sinceChange' \in Nat /\ sinceSample' \in Nat /\ Latency \in Nat
    BY <1>1, InterfereTakes, Typed, Constants DEF BaseInv, clock
  <2>2. /\ ~(calm' > sinceChange' + Latency) /\ ~(calm' > sinceSample' + Latency)
        /\ ~(calm' > Frame + Settling) /\ calm' =< sinceChange' + Latency
    <3>1. \A n \in Nat : 0 =< n + Latency
      BY Constants
    <3>2. QED
      BY <2>1, <3>1, NoneIsMore, Constants
  <2>3. QED
    BY <2>2, Zenon DEF PlayInv, MovedInv, StillInv, ResumedInv, SeenInv
<1>2. CASE Tick
  BY <1>2, PlayTick
<1>3. CASE Ask \/ AskFails
  BY <1>3 DEF Ask, AskFails, PlayInv, MovedInv, StillInv, ResumedInv, SeenInv, external, clock
<1>4. CASE Sample
  BY <1>4, PlaySample
<1>5. CASE UNCHANGED vars
  BY <1>5 DEF PlayInv, MovedInv, StillInv, ResumedInv, SeenInv, vars, external, clock
<1>6. QED
  BY <1>1, <1>2, <1>3, <1>4, <1>5 DEF Next, Sample

LEMMA PlayHolds == BaseInv /\ PlayInv => PlayIsNoticed
<1> SUFFICES ASSUME BaseInv, PlayInv, player = "playing", calm > Frame + Settling
             PROVE  state = "playing"
  BY DEF PlayIsNoticed
<1>0. TypeOK
  BY DEF BaseInv
<1>1. calm > sinceSample + Latency /\ calm > sinceChange + Latency
  BY <1>0, Typed, Constants DEF PlayInv, SeenInv
<1>2. state # "paused"
  BY <1>0, <1>1, Typed, Constants DEF PlayInv, ResumedInv
<1>3. lastPosValid
  BY <1>1 DEF BaseInv, KnownInv
<1>4. QED
  BY <1>0, <1>2, <1>3 DEF TypeOK

LEMMA InitPlay == Init => PlayInv
<1> SUFFICES ASSUME Init PROVE PlayInv
  OBVIOUS
<1>1. player # "playing"
  BY DEF Init
<1>2. QED
  BY <1>1 DEF PlayInv, MovedInv, StillInv, ResumedInv, SeenInv

\* A film that plays is said to play once a frame and a poll or two are over,
\* however late the polls come and however often it was paused (clock.go:181).
THEOREM ClockNoticesThatItPlays == Spec => []PlayIsNoticed
<1>1. Init => BaseInv /\ PlayInv
  BY InitBase, InitPlay
<1>2. BaseInv /\ PlayInv /\ [Next]_vars => BaseInv' /\ PlayInv'
  BY BaseStep, PlayStep
<1>3. QED
  BY <1>1, <1>2, PlayHolds, PTL DEF Spec

-----------------------------------------------------------------------------
(* Frame edges *)

LEMMA InitEdges == Init => EdgesInv
<1> SUFFICES ASSUME Init PROVE EdgesInv
  OBVIOUS
<1>1. ~lastPosValid /\ asked = NoPoll /\ anchors = {}
  BY DEF Init
<1>2. QED
  BY <1>1 DEF EdgesInv, FrameInv, LateInv, EdgeInv, AnchorInv

\* Where the player is put, a frame begins.
LEMMA EdgesInterfere ==
    ASSUME BaseInv, EdgesInv, Interfere
    PROVE  EdgesInv'
<1>0. TypeOK /\ FrameInv /\ LateInv /\ EdgeInv /\ AnchorInv
  BY DEF BaseInv, EdgesInv
<1>1. /\ calm' = 0 /\ film' \in Nat
      /\ UNCHANGED <<asked, waited, lastPos, lastPosValid, sinceSample, sinceChange, anchors>>
  BY <1>0, InterfereTakes, Constants DEF clock
<1>2. /\ sinceSample \in Nat /\ sinceChange \in Nat /\ waited \in Nat /\ Latency \in Nat
      /\ lastPos \in Nat /\ Position \in Nat
  BY <1>0, Typed, Constants
<1>3. \/ film' = film /\ player # "empty"
      \/ player' = "empty"
      \/ Position' = film'
  BY <1>0, <1>1, InterfereTakes, FrameBegins DEF Position
<1>4. film' = film => Position' = Position
  BY DEF Position
<1>5. FrameInv' /\ LateInv'
  <2>1. CASE film' = film /\ player # "empty"
    <3>1. lastPosValid => Position = lastPos \/ film - Position =< sinceSample + Latency
      BY <1>0, <2>1 DEF FrameInv
    <3>2. asked # NoPoll /\ asked.ok => asked.pos = Position \/ film - Position =< waited
      BY <1>0, <2>1 DEF LateInv
    <3>3. FrameInv'
      BY <1>1, <1>4, <2>1, <3>1 DEF FrameInv
    <3>4. LateInv'
      BY <1>1, <1>4, <2>1, <3>2 DEF LateInv
    <3>5. QED
      BY <3>3, <3>4
  <2>2. CASE player' = "empty"
    BY <2>2, Zenon DEF FrameInv, LateInv
  <2>3. CASE Position' = film'
    <3>1. film' - Position' = 0
      <4>1. \A m \in Nat : \A n : n = m => m - n = 0
        OBVIOUS
      <4>2. QED
        BY <1>1, <2>3, <4>1, Zenon
    <3>2. 0 =< sinceSample' + Latency /\ 0 =< waited'
      BY <1>1, <1>2
    <3>3. QED
      BY <3>1, <3>2 DEF FrameInv, LateInv
  <2>4. QED
    BY <1>3, <2>1, <2>2, <2>3
<1>6. ~(calm' > waited') /\ ~(calm' > sinceChange' + Latency)
  BY <1>1, <1>2
<1>7. EdgeInv'
  BY <1>6 DEF EdgeInv
<1>8. AnchorInv'
  BY <1>0, <1>1, <1>6 DEF AnchorInv
<1>9. QED
  BY <1>5, <1>7, <1>8 DEF EdgesInv

LEMMA EdgesTick ==
    ASSUME BaseInv, BaseInv', EdgesInv, Tick
    PROVE  EdgesInv'
<1>0. TypeOK /\ TypeOK' /\ PollInv /\ FrameInv /\ LateInv /\ EdgeInv /\ AnchorInv
  BY DEF BaseInv, EdgesInv
<1>1. /\ sinceSample' = sinceSample + 1
      /\ sinceChange' = (IF sinceChange < Cap THEN sinceChange + 1 ELSE Cap)
      /\ asked # NoPoll => waited' = waited + 1
      /\ waited' \in Nat /\ waited' =< Latency
      /\ UNCHANGED <<asked, lastPos, lastPosValid>>
      /\ \/ /\ player = "playing" /\ player' = "playing" /\ film' = film + 1
            /\ calm' = (IF calm < Cap THEN calm + 1 ELSE Cap)
         \/ film' = film /\ player' # "playing" /\ (player' = "empty" <=> player = "empty")
  BY <1>0, TickAges, Constants DEF TypeOK
<1>2. /\ film \in Nat /\ sinceSample \in Nat /\ sinceChange \in Nat /\ sinceChange =< Cap
      /\ waited \in Nat /\ waited =< Latency /\ lastPos \in Nat /\ Position \in Nat
      /\ calm \in Nat /\ calm =< Cap /\ Position =< film
      /\ asked # NoPoll => asked.pos \in Nat
      /\ asked = NoPoll => ~asked.ok
  BY <1>0, Typed DEF Shows
<1>3. \/ film' = film /\ Position' = Position
      \/ film' = film + 1 /\ Position' = Position
      \/ film' = film + 1 /\ Position' = film'
  BY <1>1, <1>2, FrameNext DEF Position
<1>4. FrameInv'
  <2>1. SUFFICES ASSUME lastPosValid', player' # "empty"
                 PROVE  Position' = lastPos' \/ film' - Position' =< sinceSample' + Latency
    BY DEF FrameInv
  <2>2. lastPosValid /\ player # "empty"
    BY <1>1, <2>1
  <2>3. Position = lastPos \/ film - Position =< sinceSample + Latency
    BY <1>0, <2>2 DEF FrameInv
  <2>4. QED
    BY <1>1, <1>2, <1>3, <2>3, Constants
<1>5. LateInv'
  <2>1. SUFFICES ASSUME asked' # NoPoll, asked'.ok, player' # "empty"
                 PROVE  asked'.pos = Position' \/ film' - Position' =< waited'
    BY DEF LateInv
  <2>2. asked # NoPoll /\ asked.ok /\ player # "empty"
    BY <1>1, <2>1
  <2>3. asked.pos = Position \/ film - Position =< waited
    BY <1>0, <2>2 DEF LateInv
  <2>4. asked'.pos = asked.pos /\ waited' = waited + 1
    BY <1>1, <2>2
  <2>5. QED
    BY <1>2, <1>3, <2>3, <2>4
<1>6. EdgeInv'
  <2>1. SUFFICES ASSUME asked' # NoPoll, asked'.ok, lastPosValid', player' = "playing",
                        calm' > waited'
                 PROVE  asked'.pos = lastPos' \/ film' - asked'.pos =< sinceSample' + Latency
    BY DEF EdgeInv
  <2>2. /\ asked # NoPoll /\ asked.ok /\ lastPosValid /\ player = "playing"
        /\ film' = film + 1 /\ waited' = waited + 1
        /\ calm' = (IF calm < Cap THEN calm + 1 ELSE Cap)
        /\ asked'.pos = asked.pos /\ lastPos' = lastPos
    BY <1>1, <2>1
  <2>3. calm > waited
    BY <1>2, <2>1, <2>2, Constants
  <2>4. asked.pos = lastPos \/ film - asked.pos =< sinceSample + Latency
    BY <1>0, <2>2, <2>3 DEF EdgeInv
  <2>5. asked.pos \in Nat
    BY <1>2, <2>2
  <2>6. QED
    BY <1>1, <1>2, <2>2, <2>4, <2>5, Constants
<1>7. AnchorInv'
  <2>1. SUFFICES ASSUME NEW b \in anchors'
                 PROVE  /\ b.age = sinceChange'
                        /\ player' = "playing" /\ calm' > sinceChange' + Latency =>
                              /\ b.media + b.age =< film'
                              /\ film' - (b.media + b.age) =< b.window + Latency
    BY DEF AnchorInv
  <2>2. PICK a \in anchors : b = [a EXCEPT !.age = Older(@)]
    BY <2>1 DEF Tick
  <2>3. a \in [media: Nat, age: 0..Cap, window: 0..(Gap + Latency)]
    BY <1>0 DEF TypeOK
  <2>4. b.media = a.media /\ b.age = Older(a.age) /\ b.window = a.window
    BY <2>2, <2>3
  <2>5. a.age = sinceChange /\ a.media \in Nat /\ a.window \in Nat
    BY <1>0, <2>3, Constants DEF AnchorInv
  <2>6. b.age = sinceChange'
    BY <1>1, <1>2, <2>4, <2>5, Constants DEF Older
  <2>7. ASSUME player' = "playing", calm' > sinceChange' + Latency
        PROVE  /\ b.media + b.age =< film'
               /\ film' - (b.media + b.age) =< b.window + Latency
    <3>1. player = "playing" /\ film' = film + 1 /\ calm' = (IF calm < Cap THEN calm + 1 ELSE Cap)
      BY <1>1, <2>7
    <3>2. calm > sinceChange + Latency /\ sinceChange' = sinceChange + 1
      BY <1>1, <1>2, <2>7, <3>1, Constants
    <3>3. a.media + a.age =< film /\ film - (a.media + a.age) =< a.window + Latency
      BY <1>0, <3>1, <3>2 DEF AnchorInv
    <3>4. QED
      BY <1>2, <2>4, <2>5, <2>6, <3>1, <3>2, <3>3, Constants
  <2>8. QED
    BY <2>6, <2>7
<1>8. QED
  BY <1>4, <1>5, <1>6, <1>7 DEF EdgesInv

LEMMA EdgesAsk ==
    ASSUME BaseInv, EdgesInv, Ask \/ AskFails
    PROVE  EdgesInv'
<1>0. TypeOK /\ FrameInv /\ LateInv /\ EdgeInv /\ AnchorInv
  BY DEF BaseInv, EdgesInv
<1>1. UNCHANGED <<external, clock>> /\ waited' = 0 /\ Position' = Position
  BY DEF Ask, AskFails, Position, external
<1>2. FrameInv' /\ AnchorInv'
  BY <1>0, <1>1 DEF FrameInv, AnchorInv, external, clock
<1>3. CASE AskFails
  <2>1. asked' = NoPoll
    BY <1>3 DEF AskFails
  <2>2. QED
    BY <1>2, <2>1 DEF EdgesInv, LateInv, EdgeInv
<1>4. CASE Ask
  <2>1. asked'.ok => player # "empty" /\ asked'.pos = Position
    BY <1>0, <1>4, AskTakes
  <2>2. LateInv'
    BY <1>1, <2>1 DEF LateInv, external
  <2>3. EdgeInv'
    <3>1. asked'.ok /\ lastPosValid /\ player = "playing" =>
              asked'.pos = lastPos \/ film - asked'.pos =< sinceSample + Latency
      BY <1>0, <2>1 DEF FrameInv
    <3>2. QED
      BY <1>1, <3>1 DEF EdgeInv, external, clock
  <2>4. QED
    BY <1>2, <2>2, <2>3 DEF EdgesInv
<1>5. QED
  BY <1>3, <1>4

LEMMA EdgesSample ==
    ASSUME BaseInv, EdgesInv, Sample
    PROVE  EdgesInv'
<1>0. TypeOK /\ FrameInv /\ LateInv /\ EdgeInv /\ AnchorInv
  BY DEF BaseInv, EdgesInv
<1>1. /\ asked # NoPoll /\ asked' = NoPoll /\ sinceSample' = 0
      /\ UNCHANGED <<film, player, calm>> /\ Position' = Position
      /\ lastPosValid' <=> asked.ok
      /\ asked.ok => lastPos' = asked.pos
  BY <1>0, SampleTakes DEF Position
<1>2. LateInv' /\ EdgeInv'
  BY <1>1 DEF LateInv, EdgeInv
<1>3. FrameInv'
  <2>1. SUFFICES ASSUME lastPosValid', player' # "empty"
                 PROVE  Position' = lastPos' \/ film' - Position' =< sinceSample' + Latency
    BY DEF FrameInv
  <2>2. asked.ok /\ player # "empty" /\ lastPos' = asked.pos
    BY <1>1, <2>1
  <2>3. asked.pos = Position \/ film - Position =< waited
    BY <1>0, <1>1, <2>2 DEF LateInv
  <2>4. QED
    BY <1>0, <1>1, <2>2, <2>3, Typed, Constants
<1>4. AnchorInv'
  <2>1. CASE SampleEdge
    <3>1. /\ anchors' = {[media |-> asked.pos, age |-> 0, window |-> sinceSample]}
          /\ sinceChange' = 0 /\ asked.ok /\ lastPosValid /\ asked.pos # lastPos
      BY <2>1 DEF SampleEdge
    <3>2. ASSUME player = "playing", calm > Latency
          PROVE  asked.pos =< film /\ film - asked.pos =< sinceSample + Latency
      <4>1. lastPos' =< film - waited /\ calm > waited
        BY <3>2, PlayingSample
      <4>2. film - asked.pos =< sinceSample + Latency
        BY <1>0, <1>1, <3>1, <3>2, <4>1 DEF EdgeInv
      <4>3. QED
        BY <1>0, <1>1, <3>1, <4>1, <4>2, Typed
    <3>3. Latency \in Nat /\ 0 + Latency = Latency /\ asked.pos \in Nat /\ asked.pos + 0 = asked.pos
      BY <1>0, <1>1, Typed, Constants
    <3>4. SUFFICES ASSUME NEW a \in anchors'
                   PROVE  /\ a.age = sinceChange'
                          /\ player' = "playing" /\ calm' > sinceChange' + Latency =>
                                /\ a.media + a.age =< film'
                                /\ film' - (a.media + a.age) =< a.window + Latency
      BY DEF AnchorInv
    <3>5. a.media = asked.pos /\ a.age = 0 /\ a.window = sinceSample
      BY <3>1, <3>4
    <3>6. QED
      BY <1>1, <3>1, <3>2, <3>3, <3>5
  <2>2. CASE SampleNothing \/ SampleJump
    <3>1. anchors' = {}
      BY <2>2 DEF SampleNothing, SampleJump
    <3>2. QED
      BY <3>1 DEF AnchorInv
  <2>3. CASE SampleFirst
    <3>1. ~lastPosValid /\ anchors' = anchors
      BY <2>3 DEF SampleFirst
    <3>2. anchors' = {}
      BY <1>0, <3>1 DEF TypeOK
    <3>3. QED
      BY <3>2 DEF AnchorInv
  <2>4. CASE SampleSame
    <3>1. UNCHANGED <<anchors, sinceChange>>
      BY <2>4 DEF SampleSame
    <3>2. QED
      BY <1>0, <1>1, <3>1 DEF AnchorInv
  <2>5. QED
    BY <2>1, <2>2, <2>3, <2>4 DEF Sample
<1>5. QED
  BY <1>2, <1>3, <1>4 DEF EdgesInv

LEMMA EdgesStep == BaseInv /\ BaseInv' /\ EdgesInv /\ [Next]_vars => EdgesInv'
<1> SUFFICES ASSUME BaseInv, BaseInv', EdgesInv, [Next]_vars PROVE EdgesInv'
  OBVIOUS
<1>1. CASE Interfere
  BY <1>1, EdgesInterfere
<1>2. CASE Tick
  BY <1>2, EdgesTick
<1>3. CASE Ask \/ AskFails
  BY <1>3, EdgesAsk
<1>4. CASE Sample
  BY <1>4, EdgesSample
<1>5. CASE UNCHANGED vars
  BY <1>5 DEF EdgesInv, FrameInv, LateInv, EdgeInv, AnchorInv, Position, vars, external, clock
<1>6. QED
  BY <1>1, <1>2, <1>3, <1>4, <1>5 DEF Next, Sample

LEMMA EdgesHold == BaseInv /\ EdgesInv => PrecisionIsHonest
<1> SUFFICES ASSUME BaseInv, EdgesInv, IsReading, Undisturbed
             PROVE  film - Media \in 0..(Precision + Latency)
  BY DEF PrecisionIsHonest
<1>0. TypeOK
  BY DEF BaseInv
<1>1. sinceSample = 0 /\ lastPosValid /\ player = "playing" /\ calm > sinceChange + Latency
  BY DEF IsReading, Undisturbed
<1>2. CASE Extrapolates
  <2>1. Anchor \in anchors
    BY <1>2 DEF Extrapolates, Anchored, Anchor
  <2> DEFINE a == Anchor
  <2>2. a.media \in Nat /\ a.age \in Nat /\ a.window \in Nat
    BY <1>0, <2>1, Constants DEF TypeOK
  <2>3. a.media + a.age =< film /\ film - (a.media + a.age) =< a.window + Latency
    BY <1>1, <2>1 DEF EdgesInv, AnchorInv
  <2>4. Media = a.media + a.age
    BY <1>2 DEF Media
  <2>5. Precision = IF a.window < Poll THEN Poll ELSE a.window
    BY <1>2 DEF Precision
  <2> HIDE DEF a
  <2>6. Poll \in Nat /\ film \in Nat /\ Latency \in Nat
    BY <1>0, Typed, ConstantsAssumption
  <2>7. QED
    BY <2>2, <2>3, <2>4, <2>5, <2>6
<1>3. CASE ~Extrapolates
  <2>1. Media = lastPos /\ Precision = Frame
    BY <1>1, <1>3 DEF Media, Precision
  <2>2. calm > sinceSample + Latency
    BY <1>0, <1>1, Typed, Constants
  <2>3. lastPos =< film - sinceSample /\ film - sinceSample - Latency < lastPos + Frame
    BY <1>1, <2>2 DEF BaseInv, KnownInv
  <2>4. QED
    BY <1>0, <1>1, <2>1, <2>3, Typed, Constants
<1>4. QED
  BY <1>2, <1>3

\* While the film plays, a reading is never further from it than the precision it
\* gives and the latency of the poll, for every frame rate (clock.go:60).
THEOREM ReadingsAreAsPreciseAsTheySay == Spec => []PrecisionIsHonest
<1>1. Init => BaseInv /\ EdgesInv
  BY InitBase, InitEdges
<1>2. BaseInv /\ EdgesInv /\ [Next]_vars => BaseInv' /\ EdgesInv'
  BY BaseStep, EdgesStep
<1>3. QED
  BY <1>1, <1>2, EdgesHold, PTL DEF Spec
=============================================================================
