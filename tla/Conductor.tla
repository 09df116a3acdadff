------------------------------ MODULE Conductor ------------------------------
(***************************************************************************)
(* internal/conductor/conductor.go: the schedule of cues and the cursor    *)
(* that walks it as readings of the media clock come in.                   *)
(*                                                                         *)
(* Tick calls an instrument once per cue, each call can take as long as an *)
(* acknowledgement does, and other goroutines run in between.  So a tick   *)
(* is the sequence of its calls: `pc' says which loop of Tick is running,  *)
(* and every step makes at most one call to an instrument.  A reading is   *)
(* any reading: a slow tick, jitter, a pause and a seek differ only in the *)
(* media time they carry.                                                  *)
(***************************************************************************)
EXTENDS Integers, Sequences, FiniteSets

CONSTANTS
    Names,              \* names a score can address
    Instruments,        \* the ones registered with the conductor
    Latency,            \* Manifest.Latency of each
    MaxContinuous,      \* Manifest.MaxContinuous of each, 0 for no limit
    Scores,             \* the scores Load may be given, sequences of cues
    Media,              \* media times a reading can carry
    Precisions,         \* clock precisions a reading can carry
    SeekTolerance,      \* seekTolerance
    BackwardTolerance,  \* backwardTolerance
    Failures            \* how an instrument may fail: see Outcome

(***************************************************************************)
(* A cue.  `ends' is instrument.IsStop of its action; a hold of 0 is a     *)
(* momentary cue, a required precision of 0 is no requirement.             *)
(***************************************************************************)
Cue == [at: Nat, instrument: Names, ends: BOOLEAN, hold: Nat, required: Nat]

ASSUME ConstantsAssumption ==
    /\ Instruments \subseteq Names
    /\ Latency \in [Instruments -> Nat]
    /\ MaxContinuous \in [Instruments -> Nat]
    /\ Scores \subseteq Seq(Cue)
    /\ Media \subseteq Nat
    /\ Precisions \subseteq Nat
    /\ SeekTolerance \in Nat
    /\ BackwardTolerance \in Nat
    /\ Failures \subseteq {"refused", "unacked"}

(***************************************************************************)
(* How a call to an instrument comes back: done, failed with nothing done  *)
(* ("refused"), or done and reported as failed because the answer was lost *)
(* ("unacked", which the driver of a networked instrument cannot exclude). *)
(***************************************************************************)
Outcome == {"ok"} \cup Failures

\* What the conductor reads of the clock.  Tick compares the state with
\* StatePlaying alone, and passes the media time of any other reading on.
Reading ==
    {r \in [playing: BOOLEAN, media: Media \cup {0}, precision: Precisions \cup {0}] :
        IF r.playing THEN r.media \in Media /\ r.precision \in Precisions
                     ELSE r.media = 0 /\ r.precision = 0}

\* No media time: lastMedia before the first tick that found the film playing.
\* The code holds a zero there, which haveLast keeps it from reading.
NoMedia == -1

VARIABLES
    pc,         \* "new", "idle", or the loop of Tick that is running
    sched,      \* the schedule
    next,       \* index of the first entry not dealt with yet
    lastMedia,
    haveLast,
    running,    \* instruments inside a span, as the conductor believes
    reading,    \* the reading of the tick
    cursor,     \* resync's loop variable
    want,       \* where resync's loop ends and the cursor has to be
    came,       \* history: lastMedia when the tick began
    straight,   \* history: haveLast when the tick began
    told,       \* history: the entry dispatched last in this tick, or 0
    recorded,   \* entries dispatched, or put in `skips' with a reason
    active,     \* the instruments' own state: the ones in a span
    doubt       \* history: instruments whose last start or stop failed

conductor == <<sched, next, lastMedia, haveLast, running>>
locals == <<reading, cursor, want, came, straight>>
hardware == <<active, doubt>>
vars == <<pc, sched, next, lastMedia, haveLast, running, reading, cursor,
          want, came, straight, told, recorded, active, doubt>>

-----------------------------------------------------------------------------
(* The schedule *)

IsSpan(cue) == cue.hold > 0 /\ ~cue.ends

\* Load refuses a cue for an instrument it does not know, and a start without
\* an end, or with one that is too late, on an instrument with a limit.
Loadable(score) ==
    \A k \in DOMAIN score :
        /\ score[k].instrument \in Instruments
        /\ MaxContinuous[score[k].instrument] > 0 /\ ~score[k].ends
             => score[k].hold \in 1..MaxContinuous[score[k].instrument]

StartEntry(score, k) ==
    [at |-> score[k].at - Latency[score[k].instrument],
     stop |-> FALSE, from |-> k, cue |-> score[k]]

StopEntry(score, k) ==
    [at |-> score[k].at + score[k].hold - Latency[score[k].instrument],
     stop |-> TRUE, from |-> k,
     cue |-> [at |-> score[k].at + score[k].hold,
              instrument |-> score[k].instrument,
              ends |-> TRUE, hold |-> 0, required |-> 0]]

Entries(score) ==
    {StartEntry(score, k) : k \in DOMAIN score}
      \cup {StopEntry(score, k) : k \in {j \in DOMAIN score : IsSpan(score[j])}}

\* The order of the stable sort: by time, stops after starts, then as written.
Precedes(e, f) ==
    \/ e.at < f.at
    \/ e.at = f.at /\ ~e.stop /\ f.stop
    \/ e.at = f.at /\ e.stop = f.stop /\ e.from < f.from

IsSchedule(s, score) ==
    /\ \A e \in Entries(score) : \E j \in DOMAIN s : s[j] = e
    /\ \A i, j \in DOMAIN s : i < j => Precedes(s[i], s[j])

Entry == [at: Int, stop: BOOLEAN, from: Nat, cue: Cue]

\* What sort.Search answers in resync: the first entry later than `media'.
IsFirstAfter(w, media) ==
    \A j \in 1..Len(sched) : sched[j].at > media <=> j >= w

-----------------------------------------------------------------------------
(* Calls to instruments *)

\* An instrument is told to begin or end a span, and answers with `outcome'.
Tell(i, begin, outcome) ==
    /\ active' = CASE outcome = "refused" -> active
                   [] outcome # "refused" /\ begin -> active \cup {i}
                   [] OTHER -> active \ {i}
    /\ doubt' = IF outcome = "ok" THEN doubt \ {i} ELSE doubt \cup {i}

Imprecise(e) ==
    ~e.stop /\ e.cue.required > 0 /\ reading.precision > e.cue.required

\* fire: skip for imprecision, or dispatch and keep `running' up to date.
Fire(j, outcome) ==
    LET e == sched[j]
        i == e.cue.instrument
    IN  /\ recorded' = recorded \cup {j}
        /\ told' = IF Imprecise(e) THEN told ELSE j
        /\ \/ /\ Imprecise(e)
              /\ outcome = "ok"
              /\ UNCHANGED <<running, hardware>>
           \/ /\ ~Imprecise(e) /\ (e.stop \/ e.cue.ends)
              /\ Tell(i, FALSE, outcome)
              /\ running' = IF outcome = "ok" THEN running \ {i} ELSE running
           \/ /\ ~Imprecise(e) /\ ~e.stop /\ IsSpan(e.cue)
              /\ Tell(i, TRUE, outcome)
              /\ running' = IF outcome = "ok" THEN running \cup {i} ELSE running
           \/ /\ ~Imprecise(e) /\ ~e.stop /\ ~e.cue.ends /\ e.cue.hold = 0
              /\ UNCHANGED <<running, hardware>>

-----------------------------------------------------------------------------
(* Actions *)

Init ==
    /\ pc = "new" /\ sched = <<>> /\ next = 1
    /\ lastMedia = NoMedia /\ haveLast = FALSE /\ running = {}
    /\ reading = [playing |-> FALSE, media |-> 0, precision |-> 0]
    /\ cursor = 1 /\ want = 1 /\ came = NoMedia /\ straight = FALSE
    /\ told = 0 /\ recorded = {} /\ active = {} /\ doubt = {}

Load(score) ==
    /\ pc = "new"
    /\ Loadable(score)
    /\ \E n \in 0..(2 * Len(score)) : \E s \in [1..n -> Entries(score)] :
          IsSchedule(s, score) /\ sched' = s
    /\ next' = 1 /\ haveLast' = FALSE /\ running' = {}
    /\ pc' = "idle"
    /\ UNCHANGED <<lastMedia, locals, told, recorded, hardware>>

\* Mutation: only a step backwards is a seek.
OnlyBackwardSeeked(media) == haveLast /\ lastMedia - media > BackwardTolerance

Seeked(media) ==
    haveLast /\ (\/ lastMedia - media > BackwardTolerance
                 \/ media - lastMedia > SeekTolerance)

\* The start of a tick whose reading is r.
TickHalted(r) ==
    /\ pc = "idle" /\ ~r.playing
    /\ reading' = r
    /\ came' = lastMedia /\ straight' = FALSE
    /\ told' = 0
    /\ pc' = "halting"
    /\ UNCHANGED <<conductor, cursor, want, recorded, hardware>>

TickSeeked(r) ==
    /\ pc = "idle" /\ r.playing /\ Seeked(r.media)
    /\ reading' = r
    /\ came' = lastMedia /\ straight' = TRUE
    /\ told' = 0
    /\ cursor' = next
    /\ want' \in {w \in 1..(Len(sched) + 1) : IsFirstAfter(w, r.media)}
    /\ pc' = "skipping"
    /\ UNCHANGED <<conductor, recorded, hardware>>

TickPlaying(r) ==
    /\ pc = "idle" /\ r.playing /\ ~Seeked(r.media)
    /\ reading' = r
    /\ came' = lastMedia /\ straight' = haveLast
    /\ told' = 0
    /\ lastMedia' = r.media /\ haveLast' = TRUE
    /\ pc' = "firing"
    /\ UNCHANGED <<sched, next, running, cursor, want, recorded, hardware>>

\* stopEverything tells every running instrument to stop, and forgets it
\* whatever it answers.
StopOne(i, outcome) ==
    /\ pc \in {"halting", "rewinding"}
    /\ i \in running
    /\ Tell(i, FALSE, outcome)
    /\ running' = running \ {i}
    /\ UNCHANGED <<pc, sched, next, lastMedia, haveLast, locals, told,
                   recorded>>

\* Mutation: a halt does not wait for the instruments to be told.
HaltedAtOnce ==
    /\ pc = "halting"
    /\ haveLast' = FALSE
    /\ pc' = "idle"
    /\ UNCHANGED <<sched, next, lastMedia, running, locals, told, recorded,
                   hardware>>

Halted ==
    /\ pc = "halting" /\ running = {}
    /\ haveLast' = FALSE
    /\ pc' = "idle"
    /\ UNCHANGED <<sched, next, lastMedia, running, locals, told, recorded,
                   hardware>>

\* Mutation: a seek skips the stops of running instruments too.
StepOverStops(outcome) ==
    /\ pc = "skipping" /\ cursor < want /\ outcome = "ok"
    /\ cursor' = cursor + 1
    /\ recorded' = recorded \cup {cursor}
    /\ UNCHANGED <<pc, conductor, reading, want, came, straight, told, hardware>>

\* Mutation: what a seek skips is not recorded.
StepOverSilently(outcome) ==
    /\ pc = "skipping" /\ cursor < want
    /\ cursor' = cursor + 1
    /\ \/ /\ sched[cursor].stop /\ sched[cursor].cue.instrument \in running
          /\ Fire(cursor, outcome)
       \/ /\ ~(sched[cursor].stop /\ sched[cursor].cue.instrument \in running)
          /\ outcome = "ok"
          /\ UNCHANGED <<running, told, recorded, hardware>>
    /\ UNCHANGED <<pc, sched, next, lastMedia, haveLast, reading, want, came,
                   straight>>

\* resync's loop over the entries between the cursor and where it must be.
StepOver(outcome) ==
    /\ pc = "skipping" /\ cursor < want
    /\ cursor' = cursor + 1
    /\ \/ /\ sched[cursor].stop /\ sched[cursor].cue.instrument \in running
          /\ Fire(cursor, outcome)
       \/ /\ ~(sched[cursor].stop /\ sched[cursor].cue.instrument \in running)
          /\ outcome = "ok"
          /\ recorded' = recorded \cup {cursor}
          /\ UNCHANGED <<running, told, hardware>>
    /\ UNCHANGED <<pc, sched, next, lastMedia, haveLast, reading, want, came,
                   straight>>

Resynced ==
    /\ pc = "skipping" /\ cursor >= want
    /\ next' = want /\ cursor' = 1 /\ want' = 1
    /\ \/ /\ lastMedia - reading.media > BackwardTolerance
          /\ pc' = "rewinding"
          /\ UNCHANGED <<lastMedia, haveLast>>
       \/ /\ ~(lastMedia - reading.media > BackwardTolerance)
          /\ pc' = "firing"
          /\ lastMedia' = reading.media /\ haveLast' = TRUE
    /\ UNCHANGED <<sched, running, reading, came, straight, told, recorded,
                   hardware>>

Rewound ==
    /\ pc = "rewinding" /\ running = {}
    /\ pc' = "firing"
    /\ lastMedia' = reading.media /\ haveLast' = TRUE
    /\ UNCHANGED <<sched, next, running, locals, told, recorded, hardware>>

\* Mutation: an entry is due only when its moment is past.
DueLater == next <= Len(sched) /\ sched[next].at < reading.media

Due == next <= Len(sched) /\ sched[next].at <= reading.media

\* Tick's loop over the entries whose moment has arrived.
FireNext(outcome) ==
    /\ pc = "firing" /\ Due
    /\ next' = next + 1
    /\ Fire(next, outcome)
    /\ UNCHANGED <<pc, sched, lastMedia, haveLast, locals>>

Ticked ==
    /\ pc = "firing" /\ ~Due
    /\ pc' = "idle"
    /\ UNCHANGED <<conductor, locals, told, recorded, hardware>>

Next ==
    \/ \E score \in Scores : Load(score)
    \/ \E r \in Reading : TickHalted(r) \/ TickSeeked(r) \/ TickPlaying(r)
    \/ \E i \in Instruments, o \in Outcome : StopOne(i, o)
    \/ \E o \in Outcome : StepOver(o) \/ FireNext(o)
    \/ Halted \/ Resynced \/ Rewound \/ Ticked

Spec == Init /\ [][Next]_vars

-----------------------------------------------------------------------------
(* Properties *)

\* The type of every variable.
TypeOK ==
    /\ pc \in {"new", "idle", "halting", "skipping", "rewinding", "firing"}
    /\ sched \in Seq(Entry)
    /\ \A j \in DOMAIN sched : sched[j].cue.instrument \in Instruments
    /\ next \in 1..(Len(sched) + 1)
    /\ lastMedia \in Nat \cup {NoMedia} /\ haveLast \in BOOLEAN
    /\ reading \in [playing: BOOLEAN, media: Nat, precision: Nat]
    /\ cursor \in Nat \ {0} /\ want \in 1..(Len(sched) + 1)
    /\ came \in Nat \cup {NoMedia} /\ straight \in BOOLEAN
    /\ told \in 0..Len(sched) /\ recorded \subseteq DOMAIN sched
    /\ running \subseteq Instruments
    /\ active \subseteq Instruments /\ doubt \subseteq Instruments

\* An instrument in a span is one the conductor believes is running, unless
\* the last call that began or ended one failed: `running' tracks the hardware
\* through every interleaving of spans, seeks and pauses (conductor.go:89).
SpansAreTracked == active \ doubt \subseteq running

\* What is left of the schedule, while a resync walks it and otherwise.
Ahead == (IF pc = "skipping" THEN cursor ELSE next)..Len(sched)

EndsSpanOf(j, i) == sched[j].stop /\ sched[j].cue.instrument = i

\* A running instrument has a stop ahead of the cursor: no seek, jitter or
\* overlap of spans leaves one "running with nothing left in the schedule to
\* end it" (conductor.go:295).
SpansWillEnd ==
    \A i \in running \ doubt : \E j \in Ahead : EndsSpanOf(j, i)

\* Between ticks, a film that is not playing has nothing running, and no
\* instrument in a span but those whose last call failed (conductor.go:193).
NothingRunsHalted ==
    pc = "idle" /\ ~reading.playing => running = {} /\ active \subseteq doubt

\* After a tick nothing due is left behind the reading, and after a tick that
\* saw a seek everything ahead of the reading is armed again.
CursorMatches ==
    pc = "idle" /\ reading.playing =>
        /\ \A j \in next..Len(sched) : sched[j].at > reading.media
        /\ straight
           /\ (\/ came - reading.media > BackwardTolerance
               \/ reading.media - came > SeekTolerance)
             => \A j \in 1..(next - 1) : sched[j].at <= reading.media

IsStart(j) == ~sched[j].stop /\ ~sched[j].cue.ends

Lateness(j) == reading.media - sched[j].at

\* While ticks follow each other, a cue is never begun later than a jump that
\* does not count as a seek can make it: no burst (conductor.go:204).
StartsAreTimely ==
    told # 0 /\ straight => (IsStart(told) => Lateness(told) <= SeekTolerance)

\* Every entry the cursor has passed was dispatched or recorded as skipped:
\* "nothing is dropped without a record" (conductor.go:54).
NothingDropped ==
    pc # "skipping" => 1..(next - 1) \subseteq recorded

\* A span ends only because its film stopped, was rewound by more than jitter,
\* or an entry that ends it was reached (conductor.go:226).
OnlyDueEntriesEndSpans ==
    [][\A i \in running \ running' :
         \/ ~reading.playing
         \/ straight /\ came - reading.media > BackwardTolerance
         \/ \E j \in DOMAIN sched :
               /\ sched[j].cue.instrument = i /\ sched[j].at <= reading.media
               /\ sched[j].stop \/ sched[j].cue.ends]_vars

=============================================================================
