-------------------------- MODULE ConductorProofs --------------------------
(***************************************************************************)
(* What the conductor does for every score, latency, tolerance and way an  *)
(* instrument can fail.  One inductive invariant carries the first part:   *)
(* the type of the variables, the shape Load gives the schedule, the loop a *)
(* tick is in, and the two facts about spans.  A second one, on top of it,  *)
(* says where the cursor is.                                               *)
(*                                                                         *)
(* And of the sessions that run a conductor for a page: that one is not put *)
(* away for silence while somebody is there.                               *)
(***************************************************************************)
EXTENDS Conductor, Live, TLAPS

\* Every span in the schedule has a stop further on.
SpansHaveStops(s) ==
    \A j \in DOMAIN s :
        ~s[j].stop /\ IsSpan(s[j].cue)
          => \E m \in (j + 1)..Len(s) :
                s[m].stop /\ s[m].cue.instrument = s[j].cue.instrument

SortedByTime(s) == \A i, j \in DOMAIN s : i < j => s[i].at <= s[j].at

\* What pc says of the reading and of what runs.
PhaseInv ==
    /\ pc = "new" => sched = <<>> /\ running = {} /\ ~reading.playing
    /\ pc \in {"skipping", "rewinding", "firing"} => reading.playing
    /\ pc = "halting" => ~reading.playing
    /\ pc = "idle" /\ ~reading.playing => running = {}

SpanInv ==
    /\ TypeOK
    /\ SpansHaveStops(sched)
    /\ SortedByTime(sched)
    /\ PhaseInv
    /\ SpansAreTracked
    /\ SpansWillEnd

-----------------------------------------------------------------------------

\* The entries of a loadable score are well formed, and a span's stop comes
\* after its start because its hold is positive.
LEMMA EntriesAreEntries ==
    ASSUME NEW score \in Scores, Loadable(score)
    PROVE  \A e \in Entries(score) : e \in Entry /\ e.cue.instrument \in Instruments
<1> USE ConstantsAssumption
<1>1. ASSUME NEW k \in DOMAIN score
      PROVE  /\ score[k] \in Cue
             /\ score[k].instrument \in Instruments
             /\ Latency[score[k].instrument] \in Nat
             /\ k \in Nat
  <2>1. score \in Seq(Cue)
    OBVIOUS
  <2>2. score[k] \in Cue /\ k \in Nat
    BY <2>1
  <2>3. QED
    BY <2>2 DEF Loadable
<1>2. ASSUME NEW k \in DOMAIN score
      PROVE  /\ StartEntry(score, k) \in Entry
             /\ StartEntry(score, k).cue.instrument \in Instruments
  BY <1>1 DEF StartEntry, Entry, Cue
<1>3. ASSUME NEW k \in DOMAIN score
      PROVE  /\ StopEntry(score, k) \in Entry
             /\ StopEntry(score, k).cue.instrument \in Instruments
  BY <1>1, SMTT(30) DEF StopEntry, Entry, Cue
<1>4. QED
  BY <1>2, <1>3 DEF Entries

\* What Load leaves in the schedule.
LEMMA LoadedSchedule ==
    ASSUME NEW score \in Scores, Loadable(score),
           NEW n \in Nat, NEW s \in [1..n -> Entries(score)],
           IsSchedule(s, score)
    PROVE  /\ s \in Seq(Entry) /\ Len(s) = n /\ DOMAIN s = 1..n
           /\ \A j \in DOMAIN s : s[j].cue.instrument \in Instruments
           /\ SpansHaveStops(s)
           /\ SortedByTime(s)
<1> USE ConstantsAssumption
<1>1. \A j \in 1..n : s[j] \in Entry /\ s[j].cue.instrument \in Instruments
  BY EntriesAreEntries
<1>2. s \in Seq(Entry) /\ Len(s) = n /\ DOMAIN s = 1..n
  BY <1>1
<1>3. SortedByTime(s)
  <2> SUFFICES ASSUME NEW i \in 1..n, NEW j \in 1..n, i < j
               PROVE  s[i].at <= s[j].at
    BY <1>2 DEF SortedByTime
  <2>1. Precedes(s[i], s[j])
    BY <1>2 DEF IsSchedule
  <2>2. s[i].at \in Int /\ s[j].at \in Int
    BY <1>1 DEF Entry
  <2>3. QED
    BY <2>1, <2>2 DEF Precedes
<1>4. SpansHaveStops(s)
  <2> SUFFICES ASSUME NEW j \in 1..n, ~s[j].stop, IsSpan(s[j].cue)
               PROVE  \E m \in (j + 1)..n :
                        s[m].stop /\ s[m].cue.instrument = s[j].cue.instrument
    BY <1>2 DEF SpansHaveStops
  <2>1. s[j] \in Entries(score)
    OBVIOUS
  <2>2. PICK k \in DOMAIN score : s[j] = StartEntry(score, k)
    BY <2>1 DEF Entries, StopEntry
  <2>3. /\ score[k] \in Cue /\ score[k].instrument \in Instruments
        /\ Latency[score[k].instrument] \in Nat
    BY DEF Loadable
  <2>4. IsSpan(score[k])
    BY <2>2 DEF StartEntry
  <2>5. StopEntry(score, k) \in Entries(score)
    BY <2>4 DEF Entries
  <2>6. PICK m \in 1..n : s[m] = StopEntry(score, k)
    BY <2>5, <1>2 DEF IsSchedule
  <2>7. s[m].stop /\ s[m].cue.instrument = s[j].cue.instrument
    BY <2>6, <2>2 DEF StopEntry, StartEntry
  <2>8. s[j].at < s[m].at
    BY <2>6, <2>2, <2>3, <2>4 DEF StopEntry, StartEntry, IsSpan, Cue
  <2>9. j < m
    <3>1. s[m].at \in Int /\ s[j].at \in Int
      BY <1>1 DEF Entry
    <3>2. CASE m < j
      BY <3>1, <3>2, <1>2, <1>3, <2>8 DEF SortedByTime
    <3>3. CASE m = j
      BY <3>1, <3>3, <2>8
    <3>4. QED
      BY <3>2, <3>3
  <2>10. QED
    BY <2>7, <2>9
<1>5. QED
  BY <1>1, <1>2, <1>3, <1>4

-----------------------------------------------------------------------------

\* Whatever an entry does and however its call comes back, the sets stay sets
\* of instruments, an instrument in a span stays known, and if the spans had
\* their ends at or after the entry they have them after it.
LEMMA FireKeepsSpans ==
    ASSUME TypeOK, SpansHaveStops(sched), SpansAreTracked,
           NEW j \in 1..Len(sched), NEW o \in Outcome, Fire(j, o),
           \A i \in running \ doubt : \E m \in j..Len(sched) : EndsSpanOf(m, i)
    PROVE  /\ running' \subseteq Instruments
           /\ active' \subseteq Instruments /\ doubt' \subseteq Instruments
           /\ told' \in 0..Len(sched) /\ recorded' \subseteq DOMAIN sched
           /\ active' \ doubt' \subseteq running'
           /\ \A i \in running' \ doubt' :
                 \E m \in (j + 1)..Len(sched) : EndsSpanOf(m, i)
<1> DEFINE e == sched[j]
           i0 == sched[j].cue.instrument
<1>1. DOMAIN sched = 1..Len(sched) /\ Len(sched) \in Nat
  BY DEF TypeOK
<1>2. i0 \in Instruments /\ e \in Entry
  BY <1>1 DEF TypeOK
<1>3. told' \in 0..Len(sched) /\ recorded' \subseteq DOMAIN sched
  BY <1>1 DEF Fire, TypeOK
<1>4. ASSUME NEW i \in running \ doubt, ~(e.stop /\ i = i0)
      PROVE  \E m \in (j + 1)..Len(sched) : EndsSpanOf(m, i)
  <2>1. PICK m \in j..Len(sched) : EndsSpanOf(m, i)
    OBVIOUS
  <2>2. m # j
    BY <2>1, <1>4 DEF EndsSpanOf
  <2>3. m \in (j + 1)..Len(sched)
    BY <1>1, <2>2
  <2>4. QED
    BY <2>1, <2>3
<1>5. CASE UNCHANGED <<running, hardware>> /\ ~e.stop
  BY <1>5, <1>3, <1>4 DEF hardware, TypeOK, SpansAreTracked
<1>6. CASE /\ Tell(i0, FALSE, o)
           /\ running' = IF o = "ok" THEN running \ {i0} ELSE running
  <2>1. /\ running' \subseteq Instruments /\ active' \subseteq Instruments
        /\ doubt' \subseteq Instruments
    BY <1>2, <1>6 DEF Tell, TypeOK
  <2>2. active' \ doubt' \subseteq running'
    BY <1>6 DEF Tell, SpansAreTracked
  <2>3. \A i \in running' \ doubt' : i \in running \ doubt /\ i # i0
    BY <1>6 DEF Tell
  <2>4. QED
    BY <1>3, <1>4, <2>1, <2>2, <2>3
<1>7. CASE /\ ~e.stop /\ IsSpan(e.cue)
           /\ Tell(i0, TRUE, o)
           /\ running' = IF o = "ok" THEN running \cup {i0} ELSE running
  <2>1. /\ running' \subseteq Instruments /\ active' \subseteq Instruments
        /\ doubt' \subseteq Instruments
    BY <1>2, <1>7 DEF Tell, TypeOK
  <2>2. active' \ doubt' \subseteq running'
    BY <1>7 DEF Tell, SpansAreTracked
  <2>3. \E m \in (j + 1)..Len(sched) : EndsSpanOf(m, i0)
    BY <1>1, <1>7 DEF SpansHaveStops, EndsSpanOf
  <2>4. \A i \in running' \ doubt' : i = i0 \/ i \in running \ doubt
    BY <1>7 DEF Tell
  <2>5. QED
    BY <1>3, <1>4, <1>7, <2>1, <2>2, <2>3, <2>4
<1>8. QED
  BY <1>5, <1>6, <1>7 DEF Fire, Imprecise

\* The same for a stop sent outside the schedule: it takes its instrument out
\* of `running' whatever comes back.
LEMMA StopKeepsSpans ==
    ASSUME TypeOK, SpansAreTracked, NEW i0 \in Instruments, NEW o \in Outcome,
           StopOne(i0, o)
    PROVE  /\ running' \subseteq running
           /\ active' \subseteq Instruments /\ doubt' \subseteq Instruments
           /\ active' \ doubt' \subseteq running'
           /\ running' \ doubt' \subseteq running \ doubt
  BY DEF StopOne, Tell, TypeOK, SpansAreTracked

-----------------------------------------------------------------------------

\* A reading has the type of the variable that holds it.
LEMMA ReadingType ==
    \A r \in Reading : r \in [playing: BOOLEAN, media: Nat, precision: Nat]
<1> SUFFICES ASSUME NEW r \in Reading
             PROVE  r \in [playing: BOOLEAN, media: Nat, precision: Nat]
  OBVIOUS
<1>1. r \in [playing: BOOLEAN, media: Media \cup {0}, precision: Precisions \cup {0}]
  BY DEF Reading
<1>2. Media \cup {0} \subseteq Nat /\ Precisions \cup {0} \subseteq Nat
  BY ConstantsAssumption
<1>3. QED
  BY <1>1, <1>2

LEMMA InitSpan == Init => SpanInv
<1> SUFFICES ASSUME Init PROVE SpanInv
  OBVIOUS
<1>1. TypeOK
  <2>1. sched = <<>> /\ sched \in Seq(Entry) /\ Len(sched) = 0 /\ DOMAIN sched = {}
    BY DEF Init
  <2>2. reading \in [playing: BOOLEAN, media: Nat, precision: Nat]
    BY DEF Init
  <2>3. haveLast \in BOOLEAN /\ straight \in BOOLEAN
    BY Zenon DEF Init
  <2>4. lastMedia \in Nat \cup {NoMedia} /\ came \in Nat \cup {NoMedia}
    BY DEF Init
  <2>5. /\ next = 1 /\ cursor = 1 /\ want = 1 /\ told = 0
        /\ 1 \in 1..(Len(sched) + 1) /\ 0 \in 0..Len(sched)
    BY <2>1 DEF Init
  <2>6. QED
    BY <2>1, <2>2, <2>3, <2>4, <2>5 DEF Init, TypeOK
<1>2. SpansHaveStops(sched) /\ SortedByTime(sched)
  BY DEF Init, SpansHaveStops, SortedByTime
<1>3. PhaseInv /\ SpansAreTracked /\ SpansWillEnd
  BY DEF Init, PhaseInv, SpansAreTracked, SpansWillEnd
<1>4. QED
  BY <1>1, <1>2, <1>3 DEF SpanInv

LEMMA NextSpan == SpanInv /\ [Next]_vars => SpanInv'
<1> SUFFICES ASSUME SpanInv, [Next]_vars PROVE SpanInv'
  OBVIOUS
<1> USE ConstantsAssumption
<1> USE DEF conductor, locals, hardware
<1>0. /\ TypeOK /\ SpansHaveStops(sched) /\ SortedByTime(sched) /\ PhaseInv
      /\ SpansAreTracked /\ SpansWillEnd
      /\ DOMAIN sched = 1..Len(sched) /\ Len(sched) \in Nat
  BY DEF SpanInv, TypeOK
<1>1. ASSUME NEW score \in Scores, Load(score)
      PROVE  SpanInv'
  <2>0. PICK n \in 0..(2 * Len(score)) : \E s \in [1..n -> Entries(score)] :
            IsSchedule(s, score) /\ sched' = s
    BY <1>1 DEF Load
  <2>1. PICK s \in [1..n -> Entries(score)] : IsSchedule(s, score) /\ sched' = s
    BY <2>0
  <2>2. n \in Nat
    OBVIOUS
  <2>3. /\ sched' \in Seq(Entry) /\ DOMAIN sched' = 1..Len(sched')
        /\ Len(sched') \in Nat
        /\ \A j \in DOMAIN sched' : sched'[j].cue.instrument \in Instruments
        /\ SpansHaveStops(sched')
        /\ SortedByTime(sched')
    <3>1. Loadable(score)
      BY <1>1 DEF Load
    <3>2. QED
      BY <2>1, <2>2, <3>1, LoadedSchedule
  <2>4. pc = "new" /\ sched = <<>> /\ running = {} /\ ~reading.playing
    BY <1>0, <1>1 DEF Load, PhaseInv
  <2>5. told' = 0 /\ recorded' = {} /\ want' = 1
    BY <1>0, <1>1, <2>4 DEF Load, TypeOK
  <2>6. TypeOK'
    <3>1. 1 \in 1..(Len(sched') + 1) /\ 0 \in 0..Len(sched')
      BY <2>3
    <3>2. next' = 1 /\ running' = {} /\ haveLast' = FALSE /\ pc' = "idle"
      BY <1>1 DEF Load
    <3>3. UNCHANGED <<lastMedia, locals, hardware>>
      BY <1>1 DEF Load
    <3>4. QED
      BY <1>0, <2>3, <2>5, <3>1, <3>2, <3>3 DEF TypeOK
  <2>7. PhaseInv' /\ SpansAreTracked' /\ SpansWillEnd'
    BY <1>0, <1>1, <2>4 DEF Load, PhaseInv, SpansAreTracked, SpansWillEnd
  <2>8. QED
    BY <2>3, <2>6, <2>7 DEF SpanInv
<1>2. ASSUME NEW r \in Reading, TickHalted(r)
      PROVE  SpanInv'
  <2>1. r \in [playing: BOOLEAN, media: Nat, precision: Nat]
    BY ReadingType
  <2>2. TypeOK'
    <3>1. straight' \in BOOLEAN
      BY <1>2, Zenon DEF TickHalted
    <3>2. QED
      BY <1>0, <1>2, <2>1, <3>1 DEF TickHalted, TypeOK
  <2>3. PhaseInv' /\ SpansAreTracked'
    BY <1>0, <1>2 DEF TickHalted, PhaseInv, SpansAreTracked
  <2>4. SpansWillEnd'
    BY <1>0, <1>2 DEF TickHalted, SpansWillEnd, Ahead, EndsSpanOf
  <2>5. QED
    BY <1>0, <1>2, <2>2, <2>3, <2>4 DEF TickHalted, SpanInv
<1>3. ASSUME NEW r \in Reading, TickSeeked(r)
      PROVE  SpanInv'
  <2>1. r \in [playing: BOOLEAN, media: Nat, precision: Nat]
    BY ReadingType
  <2>2. TypeOK'
    BY <1>0, <1>3, <2>1 DEF TickSeeked, TypeOK
  <2>3. PhaseInv' /\ SpansAreTracked'
    BY <1>0, <1>3 DEF TickSeeked, PhaseInv, SpansAreTracked
  <2>4. SpansWillEnd'
    BY <1>0, <1>3 DEF TickSeeked, SpansWillEnd, Ahead, EndsSpanOf
  <2>5. QED
    BY <1>0, <1>3, <2>2, <2>3, <2>4 DEF TickSeeked, SpanInv
<1>4. ASSUME NEW r \in Reading, TickPlaying(r)
      PROVE  SpanInv'
  <2>1. r \in [playing: BOOLEAN, media: Nat, precision: Nat]
    BY ReadingType
  <2>2. TypeOK'
    BY <1>0, <1>4, <2>1 DEF TickPlaying, TypeOK
  <2>3. PhaseInv' /\ SpansAreTracked'
    BY <1>0, <1>4 DEF TickPlaying, PhaseInv, SpansAreTracked
  <2>4. SpansWillEnd'
    BY <1>0, <1>4 DEF TickPlaying, SpansWillEnd, Ahead, EndsSpanOf
  <2>5. QED
    BY <1>0, <1>4, <2>2, <2>3, <2>4 DEF TickPlaying, SpanInv
<1>5. ASSUME NEW i0 \in Instruments, NEW o \in Outcome, StopOne(i0, o)
      PROVE  SpanInv'
  <2>1. /\ running' \subseteq running
        /\ active' \subseteq Instruments /\ doubt' \subseteq Instruments
        /\ active' \ doubt' \subseteq running'
        /\ running' \ doubt' \subseteq running \ doubt
    BY <1>0, <1>5, StopKeepsSpans
  <2>2. TypeOK'
    BY <1>0, <1>5, <2>1 DEF StopOne, TypeOK
  <2>3. PhaseInv' /\ SpansAreTracked'
    BY <1>0, <1>5, <2>1 DEF StopOne, PhaseInv, SpansAreTracked
  <2>4. SpansWillEnd'
    BY <1>0, <1>5, <2>1 DEF StopOne, SpansWillEnd, Ahead, EndsSpanOf
  <2>5. QED
    BY <1>0, <1>5, <2>2, <2>3, <2>4 DEF StopOne, SpanInv
<1>6. ASSUME NEW o \in Outcome, StepOver(o)
      PROVE  SpanInv'
  <2>1. cursor \in 1..Len(sched) /\ pc = "skipping" /\ pc' = "skipping"
        /\ cursor' = cursor + 1 /\ sched' = sched /\ next' = next
    BY <1>0, <1>6 DEF StepOver, TypeOK
  <2>2. \A i \in running \ doubt : \E m \in cursor..Len(sched) : EndsSpanOf(m, i)
    BY <1>0, <2>1 DEF SpansWillEnd, Ahead
  <2>3. /\ running' \subseteq Instruments
        /\ active' \subseteq Instruments /\ doubt' \subseteq Instruments
        /\ told' \in 0..Len(sched) /\ recorded' \subseteq DOMAIN sched
        /\ active' \ doubt' \subseteq running'
        /\ \A i \in running' \ doubt' :
              \E m \in (cursor + 1)..Len(sched) : EndsSpanOf(m, i)
    <3>1. CASE Fire(cursor, o)
      BY <1>0, <2>1, <2>2, <3>1, FireKeepsSpans
    <3>2. CASE /\ ~(sched[cursor].stop /\ sched[cursor].cue.instrument \in running)
               /\ recorded' = recorded \cup {cursor}
               /\ UNCHANGED <<running, told, hardware>>
      <4>1. ASSUME NEW i \in running' \ doubt'
            PROVE  \E m \in (cursor + 1)..Len(sched) : EndsSpanOf(m, i)
        <5>1. PICK m \in cursor..Len(sched) : EndsSpanOf(m, i)
          BY <2>2, <3>2
        <5>2. m # cursor
          BY <3>2, <5>1 DEF EndsSpanOf
        <5>3. m \in (cursor + 1)..Len(sched)
          BY <1>0, <2>1, <5>2
        <5>4. QED
          BY <5>1, <5>3
      <4>2. QED
        BY <1>0, <2>1, <3>2, <4>1 DEF TypeOK, SpansAreTracked
    <3>3. QED
      BY <1>6, <3>1, <3>2 DEF StepOver
  <2>4. TypeOK'
    BY <1>0, <1>6, <2>1, <2>3 DEF StepOver, TypeOK
  <2>5. PhaseInv' /\ SpansAreTracked'
    BY <1>0, <1>6, <2>1, <2>3 DEF StepOver, PhaseInv, SpansAreTracked
  <2>6. SpansWillEnd'
    BY <2>1, <2>3 DEF SpansWillEnd, Ahead, EndsSpanOf
  <2>7. QED
    BY <1>0, <2>1, <2>4, <2>5, <2>6 DEF SpanInv
<1>7. ASSUME NEW o \in Outcome, FireNext(o)
      PROVE  SpanInv'
  <2>1. next \in 1..Len(sched) /\ pc = "firing" /\ pc' = "firing"
        /\ next' = next + 1 /\ sched' = sched
    BY <1>0, <1>7 DEF FireNext, Due, TypeOK
  <2>2. \A i \in running \ doubt : \E m \in next..Len(sched) : EndsSpanOf(m, i)
    BY <1>0, <2>1 DEF SpansWillEnd, Ahead
  <2>3. /\ running' \subseteq Instruments
        /\ active' \subseteq Instruments /\ doubt' \subseteq Instruments
        /\ told' \in 0..Len(sched) /\ recorded' \subseteq DOMAIN sched
        /\ active' \ doubt' \subseteq running'
        /\ \A i \in running' \ doubt' :
              \E m \in (next + 1)..Len(sched) : EndsSpanOf(m, i)
    <3>1. Fire(next, o)
      BY <1>7 DEF FireNext
    <3>2. QED
      BY <1>0, <2>1, <2>2, <3>1, FireKeepsSpans
  <2>4. TypeOK'
    BY <1>0, <1>7, <2>1, <2>3 DEF FireNext, TypeOK
  <2>5. PhaseInv' /\ SpansAreTracked'
    BY <1>0, <1>7, <2>1, <2>3 DEF FireNext, PhaseInv, SpansAreTracked
  <2>6. SpansWillEnd'
    BY <2>1, <2>3 DEF SpansWillEnd, Ahead, EndsSpanOf
  <2>7. QED
    BY <1>0, <2>1, <2>4, <2>5, <2>6 DEF SpanInv
<1>8. CASE Halted
  <2>1. TypeOK' /\ PhaseInv' /\ SpansAreTracked'
    BY <1>0, <1>8 DEF Halted, TypeOK, PhaseInv, SpansAreTracked
  <2>2. SpansWillEnd'
    BY <1>8 DEF Halted, SpansWillEnd
  <2>3. QED
    BY <1>0, <1>8, <2>1, <2>2 DEF Halted, SpanInv
<1>9. CASE Resynced
  <2>1. next' = want /\ sched' = sched /\ running' = running /\ doubt' = doubt
        /\ pc = "skipping" /\ pc' \in {"rewinding", "firing"} /\ cursor >= want
        /\ cursor \in Nat /\ want \in 1..(Len(sched) + 1)
    BY <1>0, <1>9 DEF Resynced, TypeOK
  <2>2. TypeOK'
    <3>1. reading.media \in Nat /\ 1 \in 1..(Len(sched) + 1)
      BY <1>0 DEF TypeOK
    <3>2. lastMedia' \in Nat \cup {NoMedia} /\ haveLast' \in BOOLEAN
      BY <1>0, <1>9, <3>1 DEF Resynced, TypeOK
    <3>3. /\ next' = want /\ cursor' = 1 /\ want' = 1
          /\ UNCHANGED <<sched, running, reading, came, straight, told, recorded,
                         hardware>>
      BY <1>9 DEF Resynced
    <3>4. QED
      BY <1>0, <2>1, <3>1, <3>2, <3>3 DEF TypeOK
  <2>3. PhaseInv' /\ SpansAreTracked'
    BY <1>0, <1>9 DEF Resynced, PhaseInv, SpansAreTracked
  <2>4. SpansWillEnd'
    BY <1>0, <2>1 DEF SpansWillEnd, Ahead, EndsSpanOf
  <2>5. QED
    BY <1>0, <2>1, <2>2, <2>3, <2>4 DEF SpanInv
<1>10. CASE Rewound
  <2>1. TypeOK' /\ PhaseInv' /\ SpansAreTracked'
    BY <1>0, <1>10 DEF Rewound, TypeOK, PhaseInv, SpansAreTracked
  <2>2. SpansWillEnd'
    BY <1>10 DEF Rewound, SpansWillEnd
  <2>3. QED
    BY <1>0, <1>10, <2>1, <2>2 DEF Rewound, SpanInv
<1>11. CASE Ticked
  <2>1. TypeOK' /\ PhaseInv' /\ SpansAreTracked'
    BY <1>0, <1>11 DEF Ticked, TypeOK, PhaseInv, SpansAreTracked
  <2>2. SpansWillEnd'
    BY <1>0, <1>11 DEF Ticked, SpansWillEnd, Ahead, EndsSpanOf
  <2>3. QED
    BY <1>0, <1>11, <2>1, <2>2 DEF Ticked, SpanInv
<1>12. CASE UNCHANGED vars
  BY <1>0, <1>12 DEF vars, SpanInv, TypeOK, PhaseInv, SpansAreTracked,
                     SpansWillEnd, Ahead, EndsSpanOf
<1>13. QED
  BY <1>1, <1>2, <1>3, <1>4, <1>5, <1>6, <1>7, <1>8, <1>9, <1>10, <1>11, <1>12
     DEF Next

\* The inductive invariant holds in every reachable state.
THEOREM SpanInvariant == Spec => []SpanInv
  BY InitSpan, NextSpan, PTL DEF Spec

\* Every variable keeps its type, whatever the score and the readings are.
THEOREM TypeCorrect == Spec => []TypeOK
<1>1. SpanInv => TypeOK
  BY DEF SpanInv
<1>2. QED
  BY <1>1, SpanInvariant, PTL

\* The conductor never loses track of an instrument it put in a span, except
\* through a call that failed (conductor.go:89).
THEOREM SpansAlwaysTracked == Spec => []SpansAreTracked
<1>1. SpanInv => SpansAreTracked
  BY DEF SpanInv
<1>2. QED
  BY <1>1, SpanInvariant, PTL

\* No sequence of seeks, pauses and jitter leaves a running instrument with
\* nothing in the schedule to end it (conductor.go:291).
THEOREM SpansAlwaysEnd == Spec => []SpansWillEnd
<1>1. SpanInv => SpansWillEnd
  BY DEF SpanInv
<1>2. QED
  BY <1>1, SpanInvariant, PTL

\* A film that is not playing has nothing running (conductor.go:193).
THEOREM HaltStopsEverything == Spec => []NothingRunsHalted
<1>1. SpanInv => NothingRunsHalted
  BY DEF SpanInv, PhaseInv, SpansAreTracked, NothingRunsHalted
<1>2. QED
  BY <1>1, SpanInvariant, PTL

-----------------------------------------------------------------------------
(* Where the cursor is. After a tick it agrees with the reading, nothing it     *)
(* has passed is without a record, no start is late but by a jump too small to  *)
(* be a seek, and spans end for a reason. The invariant says, for each loop of  *)
(* Tick, what has been established so far.                                     *)

\* The reading of the tick is a seek from where the last one was.
Jumped ==
    \/ came - reading.media > BackwardTolerance
    \/ reading.media - came > SeekTolerance

AheadOf(media) == \A j \in next..Len(sched) : sched[j].at > media
BehindOrAt(media) == \A j \in 1..(next - 1) : sched[j].at <= media

\* Between ticks, while the film plays.
RestingInv ==
    /\ pc = "new" => ~haveLast
    /\ haveLast => lastMedia \in Nat
    /\ pc = "idle" /\ haveLast => AheadOf(lastMedia)
    /\ pc = "idle" /\ reading.playing => haveLast /\ lastMedia = reading.media
    /\ pc = "idle" /\ reading.playing /\ straight /\ Jumped
         => BehindOrAt(reading.media)

\* While a seek is dealt with.
SeekingInv ==
    /\ pc \in {"skipping", "rewinding"} =>
          straight /\ haveLast /\ came = lastMedia /\ Jumped
    /\ pc = "skipping" => IsFirstAfter(want, reading.media)
    /\ pc = "rewinding" =>
          /\ came - reading.media > BackwardTolerance
          /\ AheadOf(reading.media) /\ BehindOrAt(reading.media)

\* While due entries are dispatched.
FiringInv ==
    /\ pc = "firing" => haveLast /\ lastMedia = reading.media
    /\ pc = "firing" /\ straight /\ Jumped
         => AheadOf(reading.media) /\ BehindOrAt(reading.media)
    /\ pc = "firing" /\ straight /\ ~Jumped => came \in Nat /\ AheadOf(came)

RecordInv ==
    /\ 1..(next - 1) \subseteq recorded
    /\ pc = "skipping" => 1..(cursor - 1) \subseteq recorded

CursorInv == RestingInv /\ SeekingInv /\ FiringInv /\ StartsAreTimely /\ RecordInv

-----------------------------------------------------------------------------

LEMMA InitCursor == Init => CursorInv
  BY DEF Init, CursorInv, RestingInv, SeekingInv, FiringInv, StartsAreTimely,
         RecordInv, AheadOf, BehindOrAt

\* The facts about types that every step below rests on.
LEMMA CursorTypes ==
    ASSUME TypeOK
    PROVE  /\ Len(sched) \in Nat /\ DOMAIN sched = 1..Len(sched)
           /\ \A j \in 1..Len(sched) : sched[j] \in Entry /\ sched[j].at \in Int
           /\ next \in 1..(Len(sched) + 1) /\ cursor \in Nat \ {0}
           /\ want \in 1..(Len(sched) + 1)
           /\ reading.media \in Nat
           /\ lastMedia \in Int /\ came \in Int
<1>1. Len(sched) \in Nat /\ DOMAIN sched = 1..Len(sched)
  BY DEF TypeOK
<1>2. \A j \in 1..Len(sched) : sched[j] \in Entry /\ sched[j].at \in Int
  <2>1. \A j \in 1..Len(sched) : sched[j] \in Entry
    BY <1>1 DEF TypeOK
  <2>2. \A e \in Entry : e.at \in Int
    BY DEF Entry
  <2>3. QED
    BY <2>1, <2>2
<1>3. lastMedia \in Int /\ came \in Int
  BY DEF TypeOK, NoMedia
<1>4. reading.media \in Nat
  BY DEF TypeOK
<1>5. QED
  BY <1>1, <1>2, <1>3, <1>4 DEF TypeOK

LEMMA Tolerances == SeekTolerance \in Nat /\ BackwardTolerance \in Nat
  BY ConstantsAssumption

\* Firing an entry only adds to the record, and tells of that entry if of any.
LEMMA FireRecords ==
    ASSUME NEW j, NEW o, Fire(j, o)
    PROVE  /\ recorded' = recorded \cup {j}
           /\ told' = told \/ told' = j
           /\ \A i \in running \ running' :
                 /\ sched[j].cue.instrument = i
                 /\ sched[j].stop \/ sched[j].cue.ends
  BY DEF Fire

LEMMA NextCursor == SpanInv /\ CursorInv /\ [Next]_vars => CursorInv'
<1> SUFFICES ASSUME SpanInv, CursorInv, [Next]_vars PROVE CursorInv'
  OBVIOUS
<1> USE Tolerances
<1> USE DEF conductor, locals, hardware
<1>0. /\ TypeOK /\ SortedByTime(sched) /\ PhaseInv
      /\ RestingInv /\ SeekingInv /\ FiringInv /\ StartsAreTimely /\ RecordInv
  BY DEF SpanInv, CursorInv
<1>t. /\ Len(sched) \in Nat /\ DOMAIN sched = 1..Len(sched)
      /\ \A j \in 1..Len(sched) : sched[j] \in Entry /\ sched[j].at \in Int
      /\ next \in 1..(Len(sched) + 1) /\ cursor \in Nat \ {0}
      /\ want \in 1..(Len(sched) + 1)
      /\ reading.media \in Nat
      /\ lastMedia \in Int /\ came \in Int
  BY <1>0, CursorTypes
<1>1. ASSUME NEW score \in Scores, Load(score)
      PROVE  CursorInv'
  <2>1. /\ pc = "new" /\ pc' = "idle" /\ next' = 1 /\ ~haveLast'
        /\ UNCHANGED <<lastMedia, locals, told, recorded, hardware>>
    BY <1>1 DEF Load
  <2>2. ~reading.playing /\ told = 0
    BY <1>0, <2>1 DEF PhaseInv, TypeOK
  <2>3. QED
    BY <1>0, <2>1, <2>2 DEF CursorInv, RestingInv, SeekingInv, FiringInv,
       StartsAreTimely, RecordInv
<1>2. ASSUME NEW r \in Reading, TickHalted(r)
      PROVE  CursorInv'
  BY <1>0, <1>2 DEF TickHalted, CursorInv, RestingInv, SeekingInv, FiringInv,
     StartsAreTimely, RecordInv
<1>3. ASSUME NEW r \in Reading, TickSeeked(r)
      PROVE  CursorInv'
  <2>1. r.media \in Nat
    BY ReadingType
  <2>2. Jumped'
    BY <1>3 DEF TickSeeked, Seeked, Jumped
  <2>3. haveLast /\ haveLast' /\ straight' /\ came' = lastMedia' /\ lastMedia' \in Nat
    BY <1>0, <1>3 DEF TickSeeked, Seeked, RestingInv
  <2>4. IsFirstAfter(want, reading.media)'
    BY <1>3 DEF TickSeeked, IsFirstAfter
  <2>5. RecordInv'
    BY <1>0, <1>3 DEF TickSeeked, RecordInv
  <2>6. QED
    BY <1>3, <2>2, <2>3, <2>4, <2>5 DEF TickSeeked, CursorInv, RestingInv,
       SeekingInv, FiringInv, StartsAreTimely
<1>4. ASSUME NEW r \in Reading, TickPlaying(r)
      PROVE  CursorInv'
  <2>1. r.media \in Nat
    BY ReadingType
  <2>2. straight' => ~Jumped' /\ came' \in Nat /\ AheadOf(came)'
    BY <1>0, <1>4 DEF TickPlaying, Seeked, Jumped, RestingInv, AheadOf
  <2>3. haveLast' /\ lastMedia' = r.media /\ reading' = r /\ pc' = "firing" /\ told' = 0
    BY <1>4 DEF TickPlaying
  <2>4. RecordInv'
    BY <1>0, <1>4 DEF TickPlaying, RecordInv
  <2>5. QED
    BY <2>1, <2>2, <2>3, <2>4 DEF CursorInv, RestingInv, SeekingInv, FiringInv,
       StartsAreTimely
<1>5. ASSUME NEW i \in Instruments, NEW o \in Outcome, StopOne(i, o)
      PROVE  CursorInv'
  BY <1>0, <1>5 DEF StopOne, CursorInv, RestingInv, SeekingInv, FiringInv,
     StartsAreTimely, RecordInv, Jumped, AheadOf, BehindOrAt, IsStart, Lateness
<1>6. ASSUME NEW o \in Outcome, StepOver(o)
      PROVE  CursorInv'
  <2>1. /\ pc = "skipping" /\ cursor < want /\ cursor' = cursor + 1
        /\ UNCHANGED <<pc, sched, next, lastMedia, haveLast, reading, want, came,
                       straight>>
    BY <1>6 DEF StepOver
  <2>2. recorded' = recorded \cup {cursor}
    BY <1>6, FireRecords DEF StepOver
  <2>3. told' = told \/ (told' = cursor /\ sched[cursor].stop)
    BY <1>6, FireRecords DEF StepOver
  <2>4. RestingInv' /\ SeekingInv' /\ FiringInv'
    BY <1>0, <2>1 DEF RestingInv, SeekingInv, FiringInv, Jumped, AheadOf,
       BehindOrAt, IsFirstAfter
  <2>5. StartsAreTimely'
    BY <1>0, <2>1, <2>3 DEF StartsAreTimely, IsStart, Lateness
  <2>6. RecordInv'
    BY <1>0, <1>t, <2>1, <2>2 DEF RecordInv
  <2>7. QED
    BY <2>4, <2>5, <2>6 DEF CursorInv
<1>7. ASSUME NEW o \in Outcome, FireNext(o)
      PROVE  CursorInv'
  <2>1. /\ pc = "firing" /\ next <= Len(sched) /\ sched[next].at <= reading.media
        /\ next' = next + 1 /\ Fire(next, o)
        /\ UNCHANGED <<pc, sched, lastMedia, haveLast, locals>>
    BY <1>7 DEF FireNext, Due
  <2>2. recorded' = recorded \cup {next} /\ (told' = told \/ told' = next)
    BY <2>1, FireRecords
  <2>3. straight => ~Jumped /\ came \in Nat /\ AheadOf(came)
    BY <1>0, <1>t, <2>1 DEF FiringInv, AheadOf
  <2>4. RestingInv' /\ SeekingInv' /\ FiringInv'
    BY <1>0, <1>t, <2>1, <2>3 DEF RestingInv, SeekingInv, FiringInv, Jumped, AheadOf
  <2>5. straight => reading.media - sched[next].at <= SeekTolerance
    BY <1>t, <2>1, <2>3, SMTT(30) DEF Jumped, AheadOf
  <2>6. StartsAreTimely'
    BY <1>0, <2>1, <2>2, <2>5 DEF StartsAreTimely, IsStart, Lateness
  <2>7. RecordInv'
    BY <1>0, <1>t, <2>1, <2>2 DEF RecordInv
  <2>8. QED
    BY <2>4, <2>6, <2>7 DEF CursorInv
<1>8. CASE Halted
  BY <1>0, <1>8 DEF Halted, PhaseInv, CursorInv, RestingInv, SeekingInv, FiringInv,
     StartsAreTimely, RecordInv, IsStart, Lateness
<1>9. CASE Resynced
  <2>1. /\ pc = "skipping" /\ cursor >= want /\ next' = want
        /\ UNCHANGED <<sched, running, reading, came, straight, told, recorded,
                       hardware>>
    BY <1>9 DEF Resynced
  <2>2. straight /\ haveLast /\ came = lastMedia /\ Jumped /\ lastMedia \in Nat
    BY <1>0, <2>1 DEF SeekingInv, RestingInv
  <2>3. AheadOf(reading.media)' /\ BehindOrAt(reading.media)'
    BY <1>0, <1>t, <2>1 DEF SeekingInv, IsFirstAfter, AheadOf, BehindOrAt
  <2>4. RecordInv'
    BY <1>0, <1>t, <1>9, <2>1 DEF Resynced, RecordInv
  <2>5. StartsAreTimely'
    BY <1>0, <2>1 DEF StartsAreTimely, IsStart, Lateness
  <2>6. CASE /\ lastMedia - reading.media > BackwardTolerance
             /\ pc' = "rewinding" /\ UNCHANGED <<lastMedia, haveLast>>
    BY <2>1, <2>2, <2>3, <2>4, <2>5, <2>6 DEF CursorInv, RestingInv, SeekingInv,
       FiringInv, Jumped
  <2>7. CASE /\ pc' = "firing" /\ lastMedia' = reading.media /\ haveLast'
    BY <1>t, <2>1, <2>2, <2>3, <2>4, <2>5, <2>7 DEF CursorInv, RestingInv, SeekingInv,
       FiringInv, Jumped
  <2>8. QED
    BY <1>9, <2>6, <2>7 DEF Resynced
<1>10. CASE Rewound
  <2>1. /\ pc = "rewinding" /\ pc' = "firing" /\ lastMedia' = reading.media
        /\ haveLast' /\ UNCHANGED <<sched, next, locals, told, recorded>>
    BY <1>10 DEF Rewound
  <2>2. Jumped /\ AheadOf(reading.media) /\ BehindOrAt(reading.media)
    BY <1>0, <2>1 DEF SeekingInv
  <2>3. FiringInv'
    BY <2>1, <2>2 DEF FiringInv, Jumped, AheadOf, BehindOrAt
  <2>4. QED
    BY <1>0, <1>t, <2>1, <2>3 DEF CursorInv, RestingInv, SeekingInv, StartsAreTimely,
       RecordInv, IsStart, Lateness
<1>11. CASE Ticked
  <2>1. /\ pc = "firing" /\ pc' = "idle" /\ ~Due
        /\ UNCHANGED <<conductor, locals, told, recorded, hardware>>
    BY <1>11 DEF Ticked
  <2>2. AheadOf(reading.media)
    <3>1. SUFFICES ASSUME NEW j \in next..Len(sched)
                   PROVE  sched[j].at > reading.media
      BY DEF AheadOf
    <3>2. sched[next].at > reading.media /\ next \in 1..Len(sched)
      BY <1>t, <2>1 DEF Due
    <3>3. sched[next].at <= sched[j].at
      BY <1>0, <1>t, <3>2 DEF SortedByTime
    <3>4. QED
      BY <1>t, <3>2, <3>3
  <2>3. haveLast /\ lastMedia = reading.media
    BY <1>0, <2>1 DEF FiringInv
  <2>4. straight /\ Jumped => BehindOrAt(reading.media)
    BY <1>0, <2>1 DEF FiringInv
  <2>5. RestingInv'
    BY <1>0, <1>t, <2>1, <2>2, <2>3, <2>4 DEF RestingInv, AheadOf, BehindOrAt, Jumped
  <2>6. QED
    BY <1>0, <2>1, <2>5 DEF CursorInv, SeekingInv, FiringInv, StartsAreTimely,
       RecordInv, IsStart, Lateness
<1>12. CASE UNCHANGED vars
  BY <1>0, <1>12 DEF vars, CursorInv, RestingInv, SeekingInv, FiringInv,
     StartsAreTimely, RecordInv, Jumped, AheadOf, BehindOrAt, IsFirstAfter,
     IsStart, Lateness
<1>13. QED
  BY <1>1, <1>2, <1>3, <1>4, <1>5, <1>6, <1>7, <1>8, <1>9, <1>10, <1>11, <1>12
     DEF Next

\* The two invariants hold in every reachable state.
THEOREM CursorInvariant == Spec => [](SpanInv /\ CursorInv)
<1>1. Init => CursorInv
  BY InitCursor
<1>2. SpanInv /\ CursorInv /\ [Next]_vars => CursorInv'
  BY NextCursor
<1>3. QED
  BY <1>1, <1>2, SpanInvariant, PTL DEF Spec

-----------------------------------------------------------------------------

\* After every tick the cursor is where the reading says it must be, seek or
\* no seek (conductor.go:215).
THEOREM CursorAlwaysMatches == Spec => []CursorMatches
<1>1. SpanInv /\ CursorInv => CursorMatches
  BY DEF CursorInv, RestingInv, CursorMatches, AheadOf, BehindOrAt, Jumped
<1>2. QED
  BY <1>1, CursorInvariant, PTL

\* While ticks follow each other no score and no sequence of readings makes a
\* start late by more than the tolerance for seeks (conductor.go:204).
THEOREM StartsAreAlwaysTimely == Spec => []StartsAreTimely
<1>1. SpanInv /\ CursorInv => StartsAreTimely
  BY DEF CursorInv
<1>2. QED
  BY <1>1, CursorInvariant, PTL

\* Whatever the cursor has passed was dispatched or has a recorded reason for
\* not having been (conductor.go:54).
THEOREM NothingIsDropped == Spec => []NothingDropped
<1>1. SpanInv /\ CursorInv => NothingDropped
  BY DEF CursorInv, RecordInv, NothingDropped
<1>2. QED
  BY <1>1, CursorInvariant, PTL

\* No seek forwards, jitter or tick of another instrument ends a span: only a
\* stop of the film, a rewind or an entry whose time has come (conductor.go:226).
THEOREM SpansEndForAReason == Spec => OnlyDueEntriesEndSpans
<1> DEFINE Reason(i) ==
      \/ ~reading.playing
      \/ straight /\ came - reading.media > BackwardTolerance
      \/ \E j \in DOMAIN sched :
            /\ sched[j].cue.instrument = i /\ sched[j].at <= reading.media
            /\ sched[j].stop \/ sched[j].cue.ends
<1>1. ASSUME SpanInv, CursorInv, [Next]_vars
      PROVE  [\A i \in running \ running' : Reason(i)]_vars
  <2> USE DEF conductor, locals
  <2>1. /\ TypeOK /\ PhaseInv /\ SeekingInv
        /\ DOMAIN sched = 1..Len(sched) /\ Len(sched) \in Nat
        /\ next \in 1..(Len(sched) + 1) /\ cursor \in Nat \ {0}
        /\ want \in 1..(Len(sched) + 1) /\ reading.media \in Nat
        /\ \A j \in 1..Len(sched) : sched[j].at \in Int
    BY <1>1, CursorTypes DEF SpanInv, CursorInv
  <2>2. ASSUME NEW j \in 1..Len(sched), NEW o, Fire(j, o),
               sched[j].at <= reading.media
        PROVE  \A i \in running \ running' : Reason(i)
    BY <2>1, <2>2, FireRecords
  <2>3. ASSUME NEW i \in Instruments, NEW o \in Outcome, StopOne(i, o)
        PROVE  \A k \in running \ running' : Reason(k)
    BY <2>1, <2>3 DEF StopOne, PhaseInv, SeekingInv
  <2>4. ASSUME NEW o \in Outcome, StepOver(o)
        PROVE  \A i \in running \ running' : Reason(i)
    <3>1. cursor \in 1..Len(sched) /\ sched[cursor].at <= reading.media
      BY <2>1, <2>4 DEF StepOver, SeekingInv, IsFirstAfter
    <3>2. QED
      BY <2>2, <2>4, <3>1 DEF StepOver
  <2>5. ASSUME NEW o \in Outcome, FireNext(o)
        PROVE  \A i \in running \ running' : Reason(i)
    BY <2>1, <2>2, <2>5 DEF FireNext, Due
  <2>6. ASSUME NEW score \in Scores, Load(score)
        PROVE  running = {}
    BY <2>1, <2>6 DEF Load, PhaseInv
  <2>7. ASSUME NEW r \in Reading, TickHalted(r) \/ TickSeeked(r) \/ TickPlaying(r)
        PROVE  running' = running
    BY <2>7 DEF TickHalted, TickSeeked, TickPlaying
  <2>8. Halted \/ Resynced \/ Rewound \/ Ticked \/ UNCHANGED vars
          => running' = running
    BY DEF Halted, Resynced, Rewound, Ticked, vars
  <2>9. QED
    BY <1>1, <2>3, <2>4, <2>5, <2>6, <2>7, <2>8 DEF Next
<1>2. QED
  BY <1>1, CursorInvariant, PTL DEF Spec, OnlyDueEntriesEndSpans

-----------------------------------------------------------------------------
(* The sessions that run a conductor for a page *)

\* What each variable of the sessions and pages holds.
Sessions == [phase : Phases, age : Nat, rig : Rigs]
Tabs == [at : {"awake", "asleep", "closed"}, armed : BOOLEAN, playing : BOOLEAN,
         spoke : BOOLEAN, steady : 0..2]
Calls == [page : Pages, kind : {"arm", "disarm", "rig", "report", "poll"}, n : Nat, rig : Rigs,
          says : BOOLEAN, step : {"sent", "waiting", "answered"}, of : 0..MaxSessions]

LiveTypes ==
    /\ session \in [Ids -> Sessions] /\ live \in 0..MaxSessions /\ rig \in Rigs
    /\ page \in [Pages -> Tabs] /\ net \subseteq Calls /\ asks \in Nat /\ naps \in Nat

\* The session that reports go to has been silent for so long.
Heard(n) == live # 0 /\ Running(live) => session[live].age <= n

\* A page that has spoken since the last tick has its report on the way, or was heard;
\* one whose switch has said live for a tick was heard in that tick.
SpokenInv ==
    /\ \A p \in Pages : page[p].spoke =>
          Heard(1) \/ \E r \in net : r.page = p /\ r.kind = "report" /\ r.step = "sent"
    /\ \A p \in Pages : page[p].steady > 0 => Awake(p) /\ page[p].armed /\ Heard(2)

LiveInv == LiveTypes /\ SpokenInv

\* The bounds are numbers, and the rig chosen at first is one of them.
LEMMA LiveConstants == MaxSessions \in Nat /\ Chosen \in Rigs /\ Quiet \in Nat /\ MaxAsks \in Nat /\ MaxNaps \in Nat
  BY LiveAssumption

LEMMA LiveInitHolds == LiveInit => LiveInv
<1> SUFFICES ASSUME LiveInit PROVE LiveInv
  OBVIOUS
<1>1. None \in Sessions
  BY LiveConstants DEF None, Sessions, Phases
<1>2. LiveTypes
  BY <1>1, LiveConstants DEF LiveTypes, LiveInit, Tabs
<1>3. SpokenInv
  BY DEF SpokenInv, LiveInit
<1>4. QED
  BY <1>2, <1>3 DEF LiveInv

LEMMA LiveIs ==
    ASSUME LiveInv PROVE LiveTypes /\ SpokenInv
  BY DEF LiveInv

\* A request changes as it is served, or is answered.
LEMMA StepTypes ==
    ASSUME LiveTypes, NEW r \in net, NEW new \in Calls, Step(r, new)
    PROVE  net' \subseteq Calls
  BY DEF LiveTypes, Step

LEMMA AnswerTypes ==
    ASSUME LiveTypes, NEW r \in net, NEW b \in BOOLEAN, Answer(r, b)
    PROVE  net' \subseteq Calls
<1>1. [r EXCEPT !.step = "answered", !.says = b, !.of = 0, !.rig = Chosen, !.n = 0] \in Calls
  <2>1. r \in Calls /\ 0 \in 0..MaxSessions /\ 0 \in Nat
    BY LiveConstants DEF LiveTypes
  <2>2. Chosen \in Rigs
    BY LiveConstants
  <2>3. QED
    BY <2>1, <2>2, Zenon DEF Calls
<1>2. QED
  BY <1>1 DEF LiveTypes, Answer, Step

\* The reports under way are the same but for the request that is served.
StillThere(r) == \A s \in net : s # r => s \in net'

LEMMA CancelTypes ==
    ASSUME LiveTypes, NEW i \in Ids
    PROVE  /\ Cancel(i) \in [Ids -> Sessions]
           /\ Cancel(i)[i].phase = "stopping"
           /\ \A j \in Ids \ {i} : Cancel(i)[j] = session[j]
<1>1. [None EXCEPT !.phase = "stopping"] \in Sessions
  BY LiveConstants DEF None, Sessions, Phases
<1>2. [None EXCEPT !.phase = "stopping"].phase = "stopping"
  BY DEF None
<1>3. QED
  BY <1>1, <1>2 DEF LiveTypes, Cancel

\* Where nobody speaks or is seen otherwise, and the session is heard or is another.
LEMMA SameVoices ==
    ASSUME LiveTypes, SpokenInv, LiveTypes', page' = page, NEW r, StillThere(r),
           r.kind = "report" /\ r.step = "sent" => Heard(1)',
           \A n \in {1, 2} : Heard(n) => Heard(n)'
    PROVE  SpokenInv'
<1>1. ASSUME NEW p \in Pages, page'[p].spoke
      PROVE  Heard(1)' \/ \E s \in net' : s.page = p /\ s.kind = "report" /\ s.step = "sent"
  BY <1>1 DEF SpokenInv, StillThere
<1>2. ASSUME NEW p \in Pages, page'[p].steady > 0 PROVE Awake(p)' /\ page'[p].armed /\ Heard(2)'
  BY <1>2 DEF SpokenInv, Awake
<1>3. QED
  BY <1>1, <1>2 DEF SpokenInv

LEMMA PutAwayHolds ==
    ASSUME LiveInv, NEW i \in Ids, PutAway(i) \/ GoQuiet(i) PROVE LiveInv'
<1>1. LiveTypes /\ SpokenInv /\ live \in 0..MaxSessions /\ MaxSessions \in Nat
  BY LiveConstants DEF LiveInv, LiveTypes
<1>2. session' \in [Ids -> Sessions] /\ \A j \in Ids : Running(j)' => session'[j] = session[j]
  <2>1. CASE PutAway(i)
    <3>1. [session[i] EXCEPT !.phase = "ended"] \in Sessions
      BY <1>1 DEF LiveTypes, Sessions, Phases
    <3>2. session' = [session EXCEPT ![i] = [session[i] EXCEPT !.phase = "ended"]]
      BY <2>1 DEF PutAway
    <3>3. QED
      BY <1>1, <3>1, <3>2 DEF Running, LiveTypes, Sessions
  <2>2. CASE GoQuiet(i)
    BY <1>1, <2>2, CancelTypes DEF GoQuiet, Running
  <2>3. QED
    BY <2>1, <2>2
<1>3. UNCHANGED <<live, rig, page, net, counters>>
  BY DEF PutAway, GoQuiet
<1>4. LiveTypes'
  BY <1>1, <1>2, <1>3 DEF LiveTypes, counters
<1>5. \A n \in {1, 2} : Heard(n) => Heard(n)'
  <2>1. live # 0 => live \in Ids
    BY <1>1 DEF Ids
  <2>2. Running(live)' /\ live # 0 => Running(live) /\ session'[live] = session[live]
    BY <1>2, <1>3, <2>1 DEF Running
  <2>3. QED
    BY <1>3, <2>2 DEF Heard
<1>6. SpokenInv'
  <2>1. StillThere([kind |-> "poll"])
    BY <1>3 DEF StillThere
  <2>2. QED
    BY <1>1, <1>3, <1>4, <1>5, <2>1, SameVoices
<1>7. QED
  BY <1>4, <1>6 DEF LiveInv

LEMMA TakeDownTypes ==
    ASSUME LiveTypes, NEW r \in net, NEW new \in Calls, TakeDown(r, new)
    PROVE  session' \in [Ids -> Sessions] /\ live' = 0 /\ net' \subseteq Calls /\ StillThere(r)
<1>1. [new EXCEPT !.step = "waiting", !.of = live] \in Calls
  BY DEF LiveTypes, Calls
<1>2. net' \subseteq Calls /\ StillThere(r)
  BY <1>1, StepTypes DEF TakeDown, Step, StillThere
<1>3. session' \in [Ids -> Sessions]
  <2>1. CASE live = 0 \/ ~Running(live)
    BY <2>1 DEF TakeDown, LiveTypes
  <2>2. CASE ~(live = 0 \/ ~Running(live))
    <3>1. live \in Ids
      BY <2>2, LiveConstants DEF LiveTypes, Ids
    <3>2. QED
      BY <2>2, <3>1, CancelTypes DEF TakeDown
  <2>3. QED
    BY <2>1, <2>2
<1>4. QED
  BY <1>2, <1>3 DEF TakeDown

LEMMA RequestServed ==
    ASSUME LiveInv, NEW r \in net, r.kind # "report", UNCHANGED <<rig, page, counters>>, LiveTypes', StillThere(r),
           \A n \in {1, 2} : Heard(n) => Heard(n)'
    PROVE  LiveInv'
  BY SameVoices, LiveIs DEF LiveInv

LEMMA Begun ==
    ASSUME LiveInv, NEW r \in net, r.kind # "report", NEW new \in Calls, TakeDown(r, new),
           UNCHANGED <<rig, page, counters>>
    PROVE  LiveInv'
<1>1. LiveTypes
  BY LiveIs
<1>2. session' \in [Ids -> Sessions] /\ live' = 0 /\ net' \subseteq Calls /\ StillThere(r)
  BY <1>1, TakeDownTypes
<1>3. LiveTypes'
  BY <1>1, <1>2, LiveConstants DEF LiveTypes, counters
<1>4. \A n \in {1, 2} : Heard(n)'
  BY <1>2 DEF Heard
<1>5. QED
  BY <1>2, <1>3, <1>4, RequestServed

LEMMA Answered ==
    ASSUME LiveInv, NEW r \in net, NEW b \in BOOLEAN, Answer(r, b)
    PROVE  net' \subseteq Calls /\ StillThere(r)
  BY AnswerTypes, LiveIs DEF Answer, Step, StillThere

LEMMA OnIs == On \in BOOLEAN
  BY DEF On

LEMMA FinishArmHolds ==
    ASSUME LiveInv, NEW r \in net, FinishArm(r) PROVE LiveInv'
<1>1. LiveTypes /\ r \in Calls /\ r.kind = "arm" /\ r.rig \in Rigs
  BY LiveIs DEF FinishArm, LiveTypes, Calls
<1>2. CASE \E i \in Ids :
            /\ session[i].phase = "none" /\ \A j \in 1..(i - 1) : session[j].phase # "none"
            /\ session' = [session EXCEPT ![i] = [phase |-> "running", age |-> Stale, rig |-> r.rig]]
            /\ live' = i /\ Answer(r, TRUE)
  <2>1. PICK i \in Ids :
            /\ session' = [session EXCEPT ![i] = [phase |-> "running", age |-> Stale, rig |-> r.rig]]
            /\ live' = i /\ Answer(r, TRUE)
    BY <1>2
  <2>2. net' \subseteq Calls /\ StillThere(r)
    BY <2>1, Answered
  <2>3. [phase |-> "running", age |-> Stale, rig |-> r.rig] \in Sessions
    BY <1>1 DEF Sessions, Phases, Stale
  <2>4. LiveTypes'
    BY <1>1, <2>1, <2>2, <2>3, LiveConstants DEF LiveTypes, FinishArm, counters, Ids
  <2>5. session'[live'].age = 1
    BY <1>1, <2>1 DEF LiveTypes, Stale
  <2>6. \A n \in {1, 2} : Heard(n)'
    BY <2>5 DEF Heard
  <2>7. QED
    BY <1>1, <2>2, <2>4, <2>6, RequestServed DEF FinishArm
<1>3. CASE UNCHANGED <<session, live>> /\ Answer(r, On)
  <2>1. net' \subseteq Calls /\ StillThere(r)
    BY <1>3, Answered, OnIs
  <2>2. LiveTypes'
    BY <1>1, <1>3, <2>1 DEF LiveTypes, FinishArm, counters
  <2>3. \A n \in {1, 2} : Heard(n) => Heard(n)'
    BY <1>3 DEF Heard, Running
  <2>4. QED
    BY <1>1, <2>1, <2>2, <2>3, RequestServed DEF FinishArm
<1>4. QED
  BY <1>2, <1>3 DEF FinishArm

LEMMA HandleReportHolds ==
    ASSUME LiveInv, NEW r \in net, HandleReport(r) PROVE LiveInv'
<1>1. LiveTypes /\ SpokenInv
  BY LiveIs
<1>2. net' \subseteq Calls /\ StillThere(r)
  BY Answered, OnIs DEF HandleReport
<1>3. session' \in [Ids -> Sessions] /\ Heard(1)' /\ Heard(2)'
  <2>1. CASE live # 0 /\ Running(live)
    <3>1. live \in Ids
      BY <1>1, <2>1, LiveConstants DEF LiveTypes, Ids
    <3>2. [session[live] EXCEPT !.age = 0] \in Sessions
      BY <1>1, <3>1 DEF LiveTypes, Sessions
    <3>3. session' = [session EXCEPT ![live] = [session[live] EXCEPT !.age = 0]]
      BY <2>1 DEF HandleReport
    <3>4. session'[live].age = 0 /\ live' = live
      BY <1>1, <3>1, <3>3 DEF LiveTypes, Sessions, HandleReport
    <3>5. session' \in [Ids -> Sessions]
      BY <1>1, <3>2, <3>3 DEF LiveTypes
    <3>6. Heard(1)' /\ Heard(2)'
      BY <3>4 DEF Heard
    <3>7. QED
      BY <3>5, <3>6
  <2>2. CASE ~(live # 0 /\ Running(live))
    BY <1>1, <2>2 DEF HandleReport, LiveTypes, Heard, Running
  <2>3. QED
    BY <2>1, <2>2
<1>4. LiveTypes'
  BY <1>1, <1>2, <1>3 DEF LiveTypes, HandleReport, counters
<1>5. SpokenInv'
  BY <1>1, <1>2, <1>3, <1>4, SameVoices DEF HandleReport
<1>6. QED
  BY <1>4, <1>5 DEF LiveInv

\* An answer of the other routes.
LEMMA JustAnswered ==
    ASSUME LiveInv, NEW r \in net, r.kind # "report", Answer(r, On), UNCHANGED <<session, live, page, counters>>,
           rig' \in Rigs
    PROVE  LiveInv'
<1>1. LiveTypes /\ SpokenInv
  BY LiveIs
<1>2. net' \subseteq Calls /\ StillThere(r)
  BY Answered, OnIs
<1>3. LiveTypes'
  BY <1>1, <1>2 DEF LiveTypes, counters
<1>4. \A n \in {1, 2} : Heard(n) => Heard(n)'
  BY DEF Heard, Running
<1>5. QED
  BY <1>1, <1>2, <1>3, <1>4, SameVoices DEF LiveInv

LEMMA StartRigHolds ==
    ASSUME LiveInv, NEW r \in net, StartRig(r) PROVE LiveInv'
<1>1. LiveTypes /\ r \in Calls /\ r.kind = "rig"
  BY LiveIs DEF StartRig, LiveTypes
<1>2. CASE r.rig # rig
  BY <1>1, <1>2, Begun DEF StartRig
<1>3. CASE r.rig = rig
  <2>1. [r EXCEPT !.step = "waiting"] \in Calls
    BY <1>1 DEF Calls
  <2>2. Step(r, [r EXCEPT !.step = "waiting"]) /\ UNCHANGED <<session, live, rig, page, counters>>
    BY <1>3 DEF StartRig
  <2>3. net' \subseteq Calls /\ StillThere(r)
    BY <1>1, <2>1, <2>2, StepTypes DEF Step, StillThere
  <2>4. LiveTypes'
    BY <1>1, <2>2, <2>3 DEF LiveTypes, counters
  <2>5. \A n \in {1, 2} : Heard(n) => Heard(n)'
    BY <2>2 DEF Heard, Running
  <2>6. QED
    BY <1>1, <2>2, <2>3, <2>4, <2>5, RequestServed
<1>4. QED
  BY <1>2, <1>3

LEMMA ServeHolds ==
    ASSUME LiveInv, Serve PROVE LiveInv'
<1>1. LiveTypes /\ net \subseteq Calls /\ rig \in Rigs
  BY LiveIs DEF LiveTypes
<1>2. ASSUME NEW r \in net, StartArm(r) PROVE LiveInv'
  <2>1. [r EXCEPT !.rig = rig] \in Calls
    BY <1>1 DEF Calls
  <2>2. QED
    BY <1>2, <2>1, Begun DEF StartArm
<1>3. ASSUME NEW r \in net, StartDisarm(r) PROVE LiveInv'
  BY <1>1, <1>3, Begun DEF StartDisarm
<1>4. ASSUME NEW r \in net, FinishDisarm(r) PROVE LiveInv'
  BY <1>1, <1>4, JustAnswered DEF FinishDisarm
<1>5. ASSUME NEW r \in net, FinishRig(r) PROVE LiveInv'
  <2>1. r.rig \in Rigs
    BY <1>1 DEF Calls
  <2>2. QED
    BY <1>1, <1>5, <2>1, JustAnswered DEF FinishRig
<1>6. ASSUME NEW r \in net, HandlePoll(r) PROVE LiveInv'
  BY <1>1, <1>6, JustAnswered DEF HandlePoll
<1>7. QED
  BY <1>2, <1>3, <1>4, <1>5, <1>6, FinishArmHolds, StartRigHolds, HandleReportHolds DEF Serve

LEMMA AskHolds ==
    ASSUME LiveInv, NEW p \in Pages, NEW kind \in {"arm", "disarm", "rig"}, NEW to \in Rigs, Ask(p, kind, to)
    PROVE  LiveInv'
<1>1. LiveTypes /\ SpokenInv
  BY LiveIs
<1>2. Request(p, kind, asks, to) \in Calls
  BY <1>1, LiveConstants DEF LiveTypes, Request, Calls
<1>3. net' \subseteq Calls /\ StillThere([kind |-> "poll"])
  BY <1>1, <1>2 DEF Ask, LiveTypes, StillThere
<1>4. LiveTypes'
  BY <1>1, <1>3 DEF LiveTypes, Ask
<1>5. \A n \in {1, 2} : Heard(n) => Heard(n)'
  BY DEF Ask, Heard, Running
<1>6. SpokenInv'
  BY <1>1, <1>3, <1>4, <1>5, SameVoices DEF Ask
<1>7. QED
  BY <1>4, <1>6 DEF LiveInv

\* A report goes out, and is there to be served.
LEMMA ReportTypes ==
    ASSUME LiveTypes, NEW p \in Pages, Report(p)
    PROVE  /\ net' \subseteq Calls /\ net \subseteq net'
           /\ \E r \in net' : r.page = p /\ r.kind = "report" /\ r.step = "sent"
<1>1. Request(p, "report", 0, rig) \in Calls
  BY LiveConstants DEF LiveTypes, Request, Calls
<1>2. /\ Request(p, "report", 0, rig).page = p /\ Request(p, "report", 0, rig).kind = "report"
      /\ Request(p, "report", 0, rig).step = "sent"
  BY DEF Request
<1>3. net' = net \cup {Request(p, "report", 0, rig)}
  BY DEF Report
<1> QED
  BY <1>1, <1>2, <1>3 DEF LiveTypes

\* What one page does when it speaks, or begins or ends to play.
LEMMA VoiceHolds ==
    ASSUME LiveInv, NEW p \in Pages, UNCHANGED <<session, live, rig>>, asks' \in Nat, naps' \in Nat,
           NEW new \in Tabs, page' = [page EXCEPT ![p] = new],
           net' \subseteq Calls, \A r \in net : r.kind = "report" /\ r.step = "sent" => r \in net',
           new.spoke => page[p].spoke
                        \/ \E r \in net' : r.page = p /\ r.kind = "report" /\ r.step = "sent",
           new.steady > 0 => page[p].steady > 0 /\ new.at = "awake" /\ new.armed
    PROVE  LiveInv'
<1>1. LiveTypes /\ SpokenInv
  BY LiveIs
<1>2. LiveTypes' /\ page'[p] = new /\ \A q \in Pages \ {p} : page'[q] = page[q]
  BY <1>1 DEF LiveTypes
<1>3. \A n \in {1, 2} : Heard(n)' <=> Heard(n)
  BY DEF Heard, Running
<1>4. ASSUME NEW q \in Pages, page'[q].spoke
      PROVE  Heard(1)' \/ \E r \in net' : r.page = q /\ r.kind = "report" /\ r.step = "sent"
  <2>1. page[q].spoke \/ \E r \in net' : r.page = q /\ r.kind = "report" /\ r.step = "sent"
    BY <1>2, <1>4
  <2>2. CASE page[q].spoke
    BY <1>1, <1>3, <2>2 DEF SpokenInv
  <2>3. QED
    BY <2>1, <2>2
<1>5. ASSUME NEW q \in Pages, page'[q].steady > 0 PROVE Awake(q)' /\ page'[q].armed /\ Heard(2)'
  <2>1. page[q].steady > 0 /\ (q = p => new.at = "awake" /\ new.armed)
    BY <1>2, <1>5
  <2>2. Awake(q) /\ page[q].armed /\ Heard(2)
    BY <1>1, <2>1 DEF SpokenInv
  <2>3. QED
    BY <1>2, <1>3, <2>1, <2>2 DEF Awake
<1>6. QED
  BY <1>2, <1>4, <1>5 DEF SpokenInv, LiveInv

\* The fields of a page, and what may become of them.
LEMMA PageFields ==
    ASSUME LiveTypes, NEW p \in Pages
    PROVE  /\ page[p] \in Tabs /\ page[p].at \in {"awake", "asleep", "closed"}
           /\ page[p].armed \in BOOLEAN /\ page[p].playing \in BOOLEAN /\ page[p].spoke \in BOOLEAN
           /\ page[p].steady \in 0..2 /\ page \in [Pages -> Tabs]
  BY DEF LiveTypes, Tabs

LEMMA PlayOrPauseHolds ==
    ASSUME LiveInv, NEW p \in Pages, PlayOrPause(p) PROVE LiveInv'
<1> DEFINE new == [page[p] EXCEPT !.playing = ~@, !.spoke = page[p].armed]
<1>1. LiveTypes /\ SpokenInv /\ page[p] \in Tabs /\ page \in [Pages -> Tabs]
  BY LiveIs, PageFields
<1>2. new \in Tabs /\ new.spoke = page[p].armed /\ new.steady = page[p].steady
      /\ new.at = page[p].at /\ new.armed = page[p].armed
  <2>1. page[p].armed \in BOOLEAN /\ (~page[p].playing) \in BOOLEAN
    BY <1>1 DEF Tabs
  <2>2. QED
    BY <1>1, <2>1, Zenon DEF Tabs
<1>3. page' = [page EXCEPT ![p] = new]
  BY <1>1 DEF PlayOrPause
<1> HIDE DEF new
<1>4. page[p].steady > 0 => page[p].at = "awake" /\ page[p].armed
  BY <1>1 DEF SpokenInv, Awake
<1>5. /\ net' \subseteq Calls /\ net \subseteq net'
      /\ page[p].armed => \E r \in net' : r.page = p /\ r.kind = "report" /\ r.step = "sent"
  <2>1. CASE Report(p)
    BY <1>1, <2>1, ReportTypes
  <2>2. CASE ~page[p].armed /\ UNCHANGED net
    BY <1>1, <2>2 DEF LiveTypes
  <2>3. QED
    BY <2>1, <2>2 DEF PlayOrPause
<1>6. asks' \in Nat /\ naps' \in Nat /\ UNCHANGED <<session, live, rig>>
  BY <1>1 DEF PlayOrPause, LiveTypes
<1>7. QED
  BY <1>2, <1>3, <1>4, <1>5, <1>6, VoiceHolds

LEMMA SpeakHolds ==
    ASSUME LiveInv, NEW p \in Pages, Speak(p) PROVE LiveInv'
<1> DEFINE new == [page[p] EXCEPT !.spoke = TRUE]
<1>1. LiveTypes /\ SpokenInv /\ page[p] \in Tabs /\ page \in [Pages -> Tabs]
  BY LiveIs, PageFields
<1>2. new \in Tabs /\ new.steady = page[p].steady /\ new.at = page[p].at /\ new.armed = page[p].armed
  BY <1>1, Zenon DEF Tabs
<1>3. page' = [page EXCEPT ![p] = new]
  BY <1>1 DEF Speak
<1> HIDE DEF new
<1>4. page[p].steady > 0 => page[p].at = "awake" /\ page[p].armed
  BY <1>1 DEF SpokenInv, Awake
<1>5. /\ net' \subseteq Calls /\ net \subseteq net'
      /\ \E r \in net' : r.page = p /\ r.kind = "report" /\ r.step = "sent"
  BY <1>1, ReportTypes DEF Speak
<1>6. asks' \in Nat /\ naps' \in Nat /\ UNCHANGED <<session, live, rig>>
  BY <1>1 DEF Speak, LiveTypes, counters
<1>7. QED
  BY <1>2, <1>3, <1>4, <1>5, <1>6, VoiceHolds

LEMMA PollHolds ==
    ASSUME LiveInv, NEW p \in Pages, Poll(p) PROVE LiveInv'
<1>1. LiveTypes /\ SpokenInv
  BY LiveIs
<1>2. Request(p, "poll", 0, rig) \in Calls
  BY <1>1, LiveConstants DEF LiveTypes, Request, Calls
<1>3. net' \subseteq Calls /\ StillThere([kind |-> "poll"])
  BY <1>1, <1>2 DEF Poll, LiveTypes, StillThere
<1>4. LiveTypes'
  BY <1>1, <1>3 DEF LiveTypes, Poll, counters
<1>5. \A n \in {1, 2} : Heard(n) => Heard(n)'
  BY DEF Poll, Heard, Running
<1>6. SpokenInv'
  BY <1>1, <1>3, <1>4, <1>5, SameVoices DEF Poll
<1>7. QED
  BY <1>4, <1>6 DEF LiveInv

\* A tab is closed, with a word or without.
LEMMA LeaveHolds ==
    ASSUME LiveInv, NEW p \in Pages, Hide(p) \/ Kill(p) PROVE LiveInv'
<1> DEFINE new == [at |-> "closed", armed |-> FALSE, playing |-> FALSE, spoke |-> FALSE, steady |-> 0]
           left == {r \in net : r.page # p \/ r.step # "answered"}
<1>1. LiveTypes /\ page \in [Pages -> Tabs] /\ net \subseteq Calls /\ asks \in Nat /\ naps \in Nat /\ rig \in Rigs
  BY LiveIs DEF LiveTypes
<1>2. new \in Tabs /\ ~new.spoke /\ ~(new.steady > 0)
  BY DEF Tabs
<1>3. Request(p, "disarm", asks, rig) \in Calls
  BY <1>1, LiveConstants DEF Request, Calls
<1>4. net' \subseteq Calls /\ left \subseteq net'
  BY <1>1, <1>3 DEF Hide, Kill
<1>5. \A r \in net : r.kind = "report" /\ r.step = "sent" => r \in net'
  BY <1>4
<1>6. /\ page' = [page EXCEPT ![p] = new] /\ asks' \in Nat /\ naps' \in Nat
      /\ UNCHANGED <<session, live, rig>>
  BY <1>1 DEF Hide, Kill
<1> HIDE DEF new, left
<1>7. QED
  BY <1>2, <1>4, <1>5, <1>6, VoiceHolds

\* Opened again, the lid closed, the lid opened: nothing is said.
LEMMA PauseHolds ==
    ASSUME LiveInv, NEW p \in Pages, Reopen(p) \/ Sleep(p) \/ Wake(p) PROVE LiveInv'
<1>1. LiveTypes /\ SpokenInv /\ page[p] \in Tabs /\ page \in [Pages -> Tabs] /\ net \subseteq Calls
      /\ asks \in Nat /\ naps \in Nat
  BY LiveIs, PageFields DEF LiveTypes
<1>2. page[p].steady > 0 => page[p].at = "awake" /\ page[p].armed
  BY <1>1 DEF SpokenInv, Awake
<1>3. PICK new \in Tabs :
          /\ page' = [page EXCEPT ![p] = new]
          /\ new.spoke => page[p].spoke
          /\ new.steady > 0 => page[p].steady > 0 /\ new.at = "awake" /\ new.armed
  <2>1. CASE Reopen(p) \/ Wake(p)
    <3> DEFINE new == [page[p] EXCEPT !.at = "awake"]
    <3>1. new \in Tabs /\ new.spoke = page[p].spoke /\ new.steady = page[p].steady
          /\ new.at = "awake" /\ new.armed = page[p].armed
      BY <1>1, Zenon DEF Tabs
    <3>2. page' = [page EXCEPT ![p] = new]
      BY <1>1, <2>1 DEF Reopen, Wake
    <3> HIDE DEF new
    <3>3. QED
      BY <1>2, <3>1, <3>2
  <2>2. CASE Sleep(p)
    <3> DEFINE new == [page[p] EXCEPT !.at = "asleep", !.spoke = FALSE, !.steady = 0]
    <3>1. new \in Tabs /\ ~new.spoke /\ new.steady = 0
      <4>1. 0 \in 0..2
        OBVIOUS
      <4>2. QED
        BY <1>1, <4>1, Zenon DEF Tabs
    <3>2. page' = [page EXCEPT ![p] = new]
      BY <1>1, <2>2 DEF Sleep
    <3> HIDE DEF new
    <3>3. ~(new.steady > 0)
      BY <3>1
    <3>4. QED
      BY <3>1, <3>2, <3>3, Zenon
  <2>3. QED
    BY <2>1, <2>2
<1>4. asks' \in Nat /\ naps' \in Nat /\ UNCHANGED <<session, live, rig, net>>
  BY <1>1 DEF Reopen, Sleep, Wake, counters
<1>5. QED
  BY <1>1, <1>3, <1>4, VoiceHolds

LEMMA ReceiveHolds ==
    ASSUME LiveInv, NEW r \in net, Receive(r) PROVE LiveInv'
<1>1. LiveTypes /\ SpokenInv /\ r \in Calls /\ r.page \in Pages /\ r.says \in BOOLEAN
      /\ r.kind \in {"arm", "disarm", "rig", "report", "poll"} /\ net \subseteq Calls
      /\ asks \in Nat /\ naps \in Nat
  BY LiveIs DEF LiveTypes, Calls
<1>2. page[r.page] \in Tabs /\ page \in [Pages -> Tabs] /\ page[r.page].armed \in BOOLEAN
      /\ page[r.page].steady \in 0..2
  BY <1>1, PageFields
<1>3. page[r.page].steady > 0 => page[r.page].at = "awake" /\ page[r.page].armed
  BY <1>1 DEF SpokenInv, Awake
<1>4. net' = net \ {r} /\ r.step = "answered" /\ UNCHANGED <<session, live, rig, counters>>
  BY DEF Receive
<1>5. PICK new \in Tabs :
          /\ page' = [page EXCEPT ![r.page] = new]
          /\ new.spoke = page[r.page].spoke
          /\ new.steady > 0 => page[r.page].steady > 0 /\ new.at = "awake" /\ new.armed
  <2>1. CASE ~Open(r.page)
    <3>1. page' = [page EXCEPT ![r.page] = page[r.page]]
      BY <1>2, <2>1 DEF Receive
    <3>2. QED
      BY <1>2, <1>3, <3>1
  <2>2. CASE Open(r.page)
    <3> DEFINE says == CASE r.kind \in {"arm", "disarm", "poll"} -> r.says
                         [] r.kind = "report" -> page[r.page].armed /\ r.says
                         [] r.kind = "rig" -> page[r.page].armed
               new == [page[r.page] EXCEPT !.armed = says, !.steady = IF says THEN @ ELSE 0]
    <3>1. says \in BOOLEAN
      BY <1>1, <1>2
    <3>2. page' = [page EXCEPT ![r.page].armed = says, ![r.page].steady = IF says THEN @ ELSE 0]
      BY <2>2 DEF Receive
    <3> HIDE DEF says
    <3>3. (IF says THEN page[r.page].steady ELSE 0) \in 0..2
      BY <1>2
    <3>4. new \in Tabs /\ new.spoke = page[r.page].spoke /\ new.at = page[r.page].at
          /\ new.armed = says /\ new.steady = IF says THEN page[r.page].steady ELSE 0
      BY <1>2, <3>1, <3>3, Zenon DEF Tabs
    <3>5. page' = [page EXCEPT ![r.page] = new]
      BY <1>2, <3>2
    <3> HIDE DEF new
    <3>6. new.steady > 0 => says /\ page[r.page].steady > 0
      BY <3>4
    <3>7. says => new.armed
      BY <3>4, Zenon
    <3>8. new.steady > 0 => page[r.page].steady > 0 /\ new.at = "awake" /\ new.armed
      BY <1>3, <3>4, <3>6, <3>7, Zenon
    <3>9. QED
      BY <3>4, <3>5, <3>8, Zenon
  <2>3. QED
    BY <2>1, <2>2
<1>6. net' \subseteq Calls /\ \A s \in net : s.kind = "report" /\ s.step = "sent" => s \in net'
  BY <1>1, <1>4
<1>7. asks' \in Nat /\ naps' \in Nat /\ UNCHANGED <<session, live, rig>>
  BY <1>1, <1>4 DEF counters
<1>8. QED
  BY <1>1, <1>5, <1>6, <1>7, VoiceHolds

LEMMA LoseHolds ==
    ASSUME LiveInv, NEW r \in net, Lose(r) PROVE LiveInv'
<1>1. LiveTypes /\ SpokenInv
  BY LiveIs
<1>2. net' = net \ {r} /\ r.kind # "report" /\ UNCHANGED <<session, live, rig, page, asks>> /\ naps' = naps + 1
  BY DEF Lose
<1>3. LiveTypes' /\ StillThere(r)
  BY <1>1, <1>2 DEF LiveTypes, StillThere
<1>4. \A n \in {1, 2} : Heard(n) => Heard(n)'
  BY <1>2 DEF Heard, Running
<1>5. QED
  BY <1>1, <1>2, <1>3, <1>4, SameVoices DEF LiveInv

\* A second passes only when every page that ought to has spoken and been answered, so
\* the session has just been heard.
LEMMA TickHolds ==
    ASSUME LiveInv, Tick PROVE LiveInv'
<1>1. LiveTypes /\ SpokenInv /\ MaxSessions \in Nat
  BY LiveIs, LiveConstants
<1>2. session' = [i \in Ids |-> IF Running(i) THEN [session[i] EXCEPT !.age = @ + 1] ELSE session[i]]
  BY DEF Tick
<1>3. \A i \in Ids : /\ session'[i] \in Sessions /\ session'[i].phase = session[i].phase
                     /\ session[i].age \in Nat /\ session'[i].age <= session[i].age + 1
  <2> SUFFICES ASSUME NEW i \in Ids
               PROVE  /\ session'[i] \in Sessions /\ session'[i].phase = session[i].phase
                      /\ session[i].age \in Nat /\ session'[i].age <= session[i].age + 1
    OBVIOUS
  <2>1. session[i] \in Sessions /\ session[i].age \in Nat
    BY <1>1 DEF LiveTypes, Sessions
  <2>2. session'[i] = IF Running(i) THEN [session[i] EXCEPT !.age = @ + 1] ELSE session[i]
    BY <1>2
  <2>3. QED
    BY <2>1, <2>2 DEF Sessions
<1>4. Heard(1) => Heard(2)'
  <2>1. live' = live
    BY DEF Tick
  <2>2. live # 0 => live \in Ids
    BY <1>1 DEF LiveTypes, Ids
  <2>3. ASSUME Heard(1), live' # 0, Running(live)' PROVE session'[live'].age <= 2
    <3>1. live \in Ids /\ live # 0
      BY <2>1, <2>2, <2>3
    <3>2. Running(live)
      BY <1>3, <2>1, <2>3, <3>1 DEF Running
    <3>3. session[live].age <= 1
      BY <2>3, <3>1, <3>2 DEF Heard
    <3>4. session[live].age \in Nat /\ session'[live] \in Sessions /\ session'[live].age <= session[live].age + 1
      BY <1>3, <3>1
    <3>5. session'[live].age \in Nat
      BY <3>4 DEF Sessions
    <3>6. QED
      BY <2>1, <3>3, <3>4, <3>5
  <2>4. QED
    BY <2>3 DEF Heard
<1>5. \A p \in Pages : /\ page'[p] = [page[p] EXCEPT !.spoke = FALSE,
                              !.steady = IF Awake(p) /\ page[p].armed /\ @ < 2 THEN @ + 1 ELSE @]
                       /\ page'[p] \in Tabs /\ page'[p].at = page[p].at /\ page'[p].armed = page[p].armed
                       /\ ~page'[p].spoke
                       /\ page'[p].steady > 0 => page[p].at = "awake" /\ page[p].armed
  <2> SUFFICES ASSUME NEW p \in Pages
               PROVE  /\ page'[p] = [page[p] EXCEPT !.spoke = FALSE,
                              !.steady = IF Awake(p) /\ page[p].armed /\ @ < 2 THEN @ + 1 ELSE @]
                      /\ page'[p] \in Tabs /\ page'[p].at = page[p].at /\ page'[p].armed = page[p].armed
                      /\ ~page'[p].spoke
                      /\ page'[p].steady > 0 => page[p].at = "awake" /\ page[p].armed
    OBVIOUS
  <2> DEFINE n == IF Awake(p) /\ page[p].armed /\ page[p].steady < 2 THEN page[p].steady + 1 ELSE page[p].steady
             new == [page[p] EXCEPT !.spoke = FALSE, !.steady = n]
  <2>1. page[p] \in Tabs /\ page[p].steady \in 0..2
    BY <1>1, PageFields
  <2>2. n \in 0..2
    BY <2>1
  <2>3. n > 0 => page[p].at = "awake" /\ page[p].armed
    BY <1>1, <2>1 DEF SpokenInv, Awake
  <2>4. page'[p] = new
    BY DEF Tick
  <2> HIDE DEF n
  <2>5. new \in Tabs /\ new.at = page[p].at /\ new.armed = page[p].armed /\ ~new.spoke /\ new.steady = n
    BY <2>1, <2>2, Zenon DEF Tabs
  <2>6. new = [page[p] EXCEPT !.spoke = FALSE,
                      !.steady = IF Awake(p) /\ page[p].armed /\ @ < 2 THEN @ + 1 ELSE @]
    BY DEF n
  <2> HIDE DEF new
  <2>7. QED
    BY <2>3, <2>4, <2>5, <2>6
<1>6. LiveTypes'
  <2>1. session' \in [Ids -> Sessions]
    BY <1>2, <1>3
  <2>2. page' \in [Pages -> Tabs]
    <3>1. page' = [p \in Pages |-> page'[p]]
      BY DEF Tick
    <3>2. QED
      BY <1>5, <3>1
  <2>3. QED
    BY <1>1, <2>1, <2>2 DEF Tick, LiveTypes, counters
<1>7. ASSUME NEW p \in Pages, page'[p].steady > 0 PROVE Awake(p)' /\ page'[p].armed /\ Heard(2)'
  <2>1. page[p].at = "awake" /\ page[p].armed
    BY <1>5, <1>7
  <2>2. page[p].spoke /\ ~Waiting(p, "report")
    BY <2>1 DEF Tick, Prompt, Speaks, Awake
  <2>3. Heard(1)
    BY <1>1, <2>2 DEF SpokenInv, Waiting
  <2>4. QED
    BY <1>4, <1>5, <2>1, <2>3 DEF Awake
<1>8. SpokenInv'
  BY <1>5, <1>7 DEF SpokenInv
<1>9. QED
  BY <1>6, <1>8 DEF LiveInv

LEMMA LiveNextHolds == LiveInv /\ [LiveNext]_liveVars => LiveInv'
<1> SUFFICES ASSUME LiveInv, [LiveNext]_liveVars PROVE LiveInv'
  OBVIOUS
<1>0. Chosen \in Rigs /\ rig \in Rigs
  BY LiveConstants, LiveIs DEF LiveTypes
<1>1. ASSUME NEW i \in Ids, PutAway(i) \/ GoQuiet(i) PROVE LiveInv'
  BY <1>1, PutAwayHolds
<1>2. CASE Serve
  BY <1>2, ServeHolds
<1>3. ASSUME NEW p \in Pages, Working(p) PROVE LiveInv'
  <2>1. CASE Switch(p)
    <3>1. (IF page[p].armed THEN "disarm" ELSE "arm") \in {"arm", "disarm", "rig"}
      OBVIOUS
    <3>2. QED
      BY <1>0, <2>1, <3>1, AskHolds DEF Switch
  <2>2. ASSUME NEW to \in Rigs, ChooseRig(p, to) PROVE LiveInv'
    BY <2>2, AskHolds DEF ChooseRig
  <2>3. QED
    BY <1>3, <2>1, <2>2, PlayOrPauseHolds DEF Working
<1>4. ASSUME NEW p \in Pages, Elsewhere(p) PROVE LiveInv'
  BY <1>4, LeaveHolds, PauseHolds DEF Elsewhere
<1>5. ASSUME NEW p \in Pages, Speak(p) \/ Poll(p) PROVE LiveInv'
  BY <1>5, SpeakHolds, PollHolds
<1>6. ASSUME NEW r \in net, Receive(r) \/ Lose(r) PROVE LiveInv'
  BY <1>6, ReceiveHolds, LoseHolds
<1>7. CASE Tick
  BY <1>7, TickHolds
<1>8. CASE UNCHANGED liveVars
  <2>1. UNCHANGED <<session, live, rig, page, net, asks, naps>>
    BY <1>8 DEF liveVars, counters
  <2>2. LiveTypes' /\ StillThere([kind |-> "poll"]) /\ \A n \in {1, 2} : Heard(n) => Heard(n)'
    BY <2>1, LiveIs DEF LiveTypes, StillThere, Heard, Running
  <2>3. QED
    BY <2>1, <2>2, LiveIs, SameVoices DEF LiveInv
<1>9. QED
  BY <1>1, <1>2, <1>3, <1>4, <1>5, <1>6, <1>7, <1>8 DEF LiveNext

\* The session that reports go to is put to an end without being replaced only when it
\* has been silent, and then no page has spoken for it.
LEMMA OnlySilence ==
    ASSUME Quiet # 1, LiveInv, [LiveNext]_liveVars, NEW i \in Ids, Running(i), session'[i].phase = "stopping",
           i = live, live' = live, NEW p \in Pages
    PROVE  page[p].steady < 2
<1>1. LiveTypes /\ SpokenInv /\ live # 0 /\ session[i].phase = "running"
      /\ session'[i] # session[i]
  BY LiveIs DEF Running, Ids
<1>2. CASE GoQuiet(i)
  <2>1. Quiet \in Nat /\ session[i].age \in Nat /\ session[i].age >= 1 + Quiet /\ Quiet # 0
    BY <1>1, <1>2, LiveAssumption DEF GoQuiet, Silent, Gone, Stale, LiveTypes, Sessions
  <2>2. ~Heard(2)
    BY <1>1, <2>1 DEF Heard
  <2>3. QED
    BY <1>1, <2>2, PageFields DEF SpokenInv
<1>3. ASSUME NEW j \in Ids, PutAway(j) \/ GoQuiet(j) PROVE GoQuiet(i)
  <2>1. CASE j = i /\ PutAway(j)
    BY <1>1, <2>1 DEF PutAway
  <2>2. CASE j # i
    <3>1. session'[i] = session[i]
      BY <1>1, <1>3, <2>2, CancelTypes DEF PutAway, GoQuiet, LiveTypes
    <3>2. QED
      BY <1>1, <3>1
  <2>3. QED
    BY <1>3, <2>1, <2>2
<1>4. ASSUME NEW r \in net, NEW new, TakeDown(r, new) PROVE FALSE
  BY <1>1, <1>4 DEF TakeDown
<1>5. ASSUME Serve PROVE FALSE
  <2>1. PICK r \in net : \/ StartArm(r) \/ FinishArm(r) \/ StartDisarm(r) \/ FinishDisarm(r)
                         \/ StartRig(r) \/ FinishRig(r) \/ HandleReport(r) \/ HandlePoll(r)
    BY <1>5 DEF Serve
  <2>2. ~StartArm(r) /\ ~StartDisarm(r) /\ ~(StartRig(r) /\ TakeDown(r, r))
    BY <1>4 DEF StartArm, StartDisarm
  <2>3. FinishArm(r) => session'[i] = session[i] \/ session'[i].phase = "running"
    BY <1>1 DEF FinishArm, LiveTypes
  <2>4. HandleReport(r) => session'[i].phase = session[i].phase
    <3>1. session[live] \in Sessions
      BY <1>1 DEF LiveTypes
    <3>2. QED
      BY <1>1, <3>1 DEF HandleReport, LiveTypes, Sessions
  <2>5. session' # session
    BY <1>1
  <2>6. QED
    BY <1>1, <2>1, <2>2, <2>3, <2>4, <2>5 DEF FinishDisarm, StartRig, FinishRig, HandlePoll
<1>6. ASSUME Tick PROVE FALSE
  <2>1. session[i] \in Sessions /\ session'[i] = [session[i] EXCEPT !.age = @ + 1]
    BY <1>1, <1>6 DEF Tick, LiveTypes
  <2>2. QED
    BY <1>1, <2>1 DEF Sessions
<1>7. ASSUME NEW q \in Pages, Working(q) \/ Elsewhere(q) \/ Speak(q) \/ Poll(q) PROVE FALSE
  BY <1>1, <1>7 DEF Working, Elsewhere, Switch, ChooseRig, Ask, PlayOrPause, Hide, Kill, Reopen, Sleep, Wake,
                    Speak, Poll
<1>8. ASSUME NEW r \in net, Receive(r) \/ Lose(r) PROVE FALSE
  BY <1>1, <1>8 DEF Receive, Lose
<1>9. CASE UNCHANGED liveVars
  BY <1>1, <1>9 DEF liveVars
<1>10. QED
  BY <1>2, <1>3, <1>5, <1>6, <1>7, <1>8, <1>9 DEF LiveNext

\* For any number of pages, rigs and sessions: the room is not put away for silence
\* while a page that is live has been awake for a second, playing or paused, whatever
\* overlaps (internal/studio/live.go run, web/src/ui/useLive.ts report). A server no more
\* patient than a tick would put away a session that had just begun, for a page that
\* had spoken a moment before it did; Quiet is five.
THEOREM RoomIsKept == ASSUME Quiet # 1 PROVE LiveSpec => KeptWhileSpoken
<1>1. LiveInv /\ [LiveNext]_liveVars =>
        [\A i \in Ids : Running(i) /\ session'[i].phase = "stopping" /\ i = live /\ live' = live
            => \A p \in Pages : page[p].steady < 2]_liveVars
  BY OnlySilence
<1>2. QED
  BY <1>1, LiveInitHolds, LiveNextHolds, PTL DEF LiveSpec, KeptWhileSpoken
=============================================================================
