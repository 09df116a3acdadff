----------------------------- MODULE Supervisor -----------------------------
(***************************************************************************)
(* internal/safety: the supervisor, the guards it wraps instruments in,    *)
(* and the goroutines that meet there: the show loop, which dispatches     *)
(* cues, heartbeats and ends the show, and the watchdog.  Each step is one *)
(* critical section (Supervisor.mu or guard.mu) or one call to an          *)
(* instrument, which both locks are released for.                          *)
(*                                                                         *)
(* Ages stand for the differences of instants the code takes, and stop     *)
(* growing where nothing tells them apart any more.                        *)
(***************************************************************************)
EXTENDS Integers, FiniteSets

CONSTANTS
    Guarded,      \* instruments the supervisor guards
    Timeout,      \* Supervisor.timeout
    Limit,        \* Manifest.MaxContinuous of each, 0 for no limit
    DutyLimited,  \* the instruments that declare a duty cycle
    Quiet,        \* play runs with -quiet: cues go through the guards
    CanFail,      \* a call to an instrument may fail, with nothing done
    None          \* no instrument

ASSUME ConstantsAssumption ==
    /\ Timeout \in Nat
    /\ Limit \in [Guarded -> Nat]
    /\ DutyLimited \subseteq Guarded
    /\ Quiet \in BOOLEAN /\ CanFail \in BOOLEAN
    /\ None \notin Guarded

Thread == {"show", "watch"}

\* What a cue does, and what isActive in guard.go takes it for: `neutral' ends
\* an effect for the conductor and the hardware, and counts as active there.
Action == {"start", "stop", "neutral"}
\* Mutation: only a cue without parameters counts as active.
CountsWithoutParams(a) == a = "neutral"

CountsAsActive(a) == a # "stop"

VARIABLES
    beat,      \* time since lastBeat, or -1 while it is zero
    stopped,   \* the latch
    isActive,  \* guards that count their instrument as active
    run,       \* time since guard.active
    used,      \* guards with something in their duty window
    pc,        \* where each goroutine is
    cue,       \* the cue the show loop is dispatching
    todo,      \* guards that forceSafe is still to be called for
    half,      \* the guard whose forceSafe has marked and not sent yet
    on,        \* instruments doing something
    failed,    \* history: instruments whose last order to end failed
    raced      \* history: instruments begun by a cue that passed the latch first

guards == <<isActive, run, used>>
hardware == <<on, failed, raced>>
vars == <<beat, stopped, guards, pc, cue, todo, half, hardware>>

-----------------------------------------------------------------------------
(* Calls to instruments *)

\* An instrument is sent `a'.  A failed call does nothing.
Send(g, a, ok) ==
    /\ ok \/ CanFail
    /\ on' = IF ~ok THEN on ELSE IF a = "start" THEN on \cup {g} ELSE on \ {g}
    /\ failed' = IF ok THEN failed \ {g}
                 ELSE IF a = "start" THEN failed ELSE failed \cup {g}
    /\ raced' = IF ~ok THEN raced
                ELSE IF a = "start" /\ stopped THEN raced \cup {g} ELSE raced \ {g}

-----------------------------------------------------------------------------

NoCue == [guard |-> None, action |-> "stop"]

Init ==
    /\ beat = -1 /\ stopped = FALSE
    /\ isActive = {} /\ run = [g \in Guarded |-> 0] /\ used = {}
    /\ pc = [t \in Thread |-> "idle"]
    /\ cue = NoCue
    /\ todo = [t \in Thread |-> {}] /\ half = [t \in Thread |-> None]
    /\ on = {} /\ failed = {} /\ raced = {}

\* guard.Dispatch reads the latch; without -quiet the cue goes past the guard.
Dispatch(g, a) ==
    /\ pc["show"] = "idle"
    /\ Quiet => ~stopped
    /\ cue' = [guard |-> g, action |-> a]
    /\ pc' = [pc EXCEPT !["show"] = IF Quiet THEN "checked" ELSE "sending"]
    /\ UNCHANGED <<beat, stopped, guards, todo, half, hardware>>

\* checkLimits: too long active, or too much of the duty window used.
OverContinuous(g) == g \in isActive /\ Limit[g] > 0 /\ run[g] > Limit[g]
MayBeOverDuty(g) == g \in DutyLimited /\ g \in used \cup isActive

LimitReached ==
    /\ pc["show"] = "checked" /\ CountsAsActive(cue.action)
    /\ OverContinuous(cue.guard) \/ MayBeOverDuty(cue.guard)
    /\ pc' = [pc EXCEPT !["show"] = "forcing"]
    /\ todo' = [todo EXCEPT !["show"] = {cue.guard}]
    /\ UNCHANGED <<beat, stopped, guards, cue, half, hardware>>

WithinLimits ==
    /\ pc["show"] = "checked"
    /\ CountsAsActive(cue.action) => ~OverContinuous(cue.guard)
    /\ pc' = [pc EXCEPT !["show"] = "marking"]
    /\ UNCHANGED <<beat, stopped, guards, cue, todo, half, hardware>>

\* mark
Mark ==
    LET g == cue.guard
    IN  /\ pc["show"] = "marking"
        /\ IF CountsAsActive(cue.action)
           THEN /\ isActive' = isActive \cup {g}
                /\ run' = IF g \in isActive THEN run ELSE [run EXCEPT ![g] = 0]
                /\ used' = used
           ELSE /\ isActive' = isActive \ {g}
                /\ used' = IF g \in isActive THEN used \cup {g} ELSE used
                /\ run' = run
        /\ pc' = [pc EXCEPT !["show"] = "sending"]
        /\ UNCHANGED <<beat, stopped, cue, todo, half, hardware>>

\* g.inner.Dispatch
Deliver(ok) ==
    /\ pc["show"] = "sending"
    /\ Send(cue.guard, cue.action, ok)
    /\ pc' = [pc EXCEPT !["show"] = "idle"]
    /\ cue' = NoCue
    /\ UNCHANGED <<beat, stopped, guards, todo, half>>

\* OnReading, at the end of a turn of the show loop.
Heartbeat ==
    /\ pc["show"] = "idle"
    /\ beat' = 0
    /\ UNCHANGED <<stopped, guards, pc, cue, todo, half, hardware>>

\* AllStop: latch, then forceSafe of every guard.
BeginAllStop(t) ==
    /\ stopped' = TRUE
    /\ todo' = [todo EXCEPT ![t] = Guarded]
    /\ pc' = [pc EXCEPT ![t] = IF t = "show" THEN "ending" ELSE "forcing"]
    /\ UNCHANGED <<beat, guards, cue, half, hardware>>

ShowEnds == pc["show"] = "idle" /\ BeginAllStop("show")

\* The watchdog's Check.  It decides under the lock and stops after it.
Overdue == beat > Timeout

CheckFirst ==
    /\ pc["watch"] = "idle" /\ beat = -1
    /\ beat' = 0
    /\ UNCHANGED <<stopped, guards, pc, cue, todo, half, hardware>>

\* Mutation: the show loop runs the check between its turns.
CheckFromShowLoop ==
    /\ pc["show"] = "idle"
    /\ pc["watch"] = "idle" /\ Overdue /\ ~stopped
    /\ pc' = [pc EXCEPT !["watch"] = "tripping"]
    /\ UNCHANGED <<beat, stopped, guards, cue, todo, half, hardware>>

CheckOverdue ==
    /\ pc["watch"] = "idle" /\ Overdue /\ ~stopped
    /\ pc' = [pc EXCEPT !["watch"] = "tripping"]
    /\ UNCHANGED <<beat, stopped, guards, cue, todo, half, hardware>>

\* Mutation: the watchdog latches and leaves it at that.
LatchOnly ==
    /\ pc["watch"] = "tripping"
    /\ stopped' = TRUE
    /\ pc' = [pc EXCEPT !["watch"] = "idle"]
    /\ UNCHANGED <<beat, guards, cue, todo, half, hardware>>

Trip == pc["watch"] = "tripping" /\ BeginAllStop("watch")

\* forceSafe, its critical section and then its call.
ForceMark(t, g) ==
    /\ g \in todo[t] /\ half[t] = None
    /\ todo' = [todo EXCEPT ![t] = @ \ {g}]
    /\ half' = [half EXCEPT ![t] = g]
    /\ isActive' = isActive \ {g}
    /\ used' = IF g \in isActive THEN used \cup {g} ELSE used
    /\ UNCHANGED <<beat, stopped, run, pc, cue, hardware>>

ForceSend(t, ok) ==
    /\ half[t] # None
    /\ Send(half[t], "stop", ok)
    /\ half' = [half EXCEPT ![t] = None]
    /\ UNCHANGED <<beat, stopped, guards, pc, cue, todo>>

Forced(t) ==
    /\ pc[t] \in {"forcing", "ending"} /\ todo[t] = {} /\ half[t] = None
    /\ pc' = [pc EXCEPT ![t] = IF pc[t] = "ending" THEN "ended" ELSE "idle"]
    /\ cue' = IF t = "show" THEN NoCue ELSE cue
    /\ UNCHANGED <<beat, stopped, guards, todo, half, hardware>>

AtRest(t) == todo[t] = {} /\ half[t] = None

\* Reset, exported and called between shows, when nothing is under way.
Reset ==
    /\ stopped /\ pc["show"] \in {"idle", "ended"} /\ pc["watch"] = "idle"
    /\ stopped' = FALSE /\ beat' = 0
    /\ isActive' = {} /\ used' = {}
    /\ pc' = [pc EXCEPT !["show"] = "idle"]
    /\ UNCHANGED <<run, cue, todo, half, hardware>>

\* Time passes, wherever the goroutines are.
Older(age, cap) == IF age >= 0 /\ age <= cap THEN age + 1 ELSE age

Age ==
    /\ beat' = Older(beat, Timeout)
    /\ run' = [g \in Guarded |->
                  IF g \in isActive THEN Older(run[g], Limit[g]) ELSE run[g]]
    /\ UNCHANGED <<stopped, isActive, used, pc, cue, todo, half, hardware>>

Next ==
    \/ \E g \in Guarded, a \in Action : Dispatch(g, a)
    \/ LimitReached \/ WithinLimits \/ Mark
    \/ \E ok \in BOOLEAN : Deliver(ok)
    \/ Heartbeat \/ ShowEnds
    \/ CheckFirst \/ CheckOverdue \/ Trip
    \/ \E t \in Thread, g \in Guarded : ForceMark(t, g)
    \/ \E t \in Thread, ok \in BOOLEAN : ForceSend(t, ok)
    \/ \E t \in Thread : Forced(t)
    \/ Reset \/ Age

\* Time goes on and the watchdog's goroutine runs; a forceSafe under way is a
\* bounded call and goes on.  Nothing else is asked of the show loop: it may
\* wedge between any two steps of its own.
Fairness ==
    /\ WF_vars(Age)
    /\ WF_vars(CheckFirst) /\ WF_vars(CheckOverdue) /\ WF_vars(Trip)
    /\ \A t \in Thread :
          /\ \A g \in Guarded : WF_vars(ForceMark(t, g))
          /\ WF_vars(\E ok \in BOOLEAN : ForceSend(t, ok))
          /\ WF_vars(Forced(t))

Spec == Init /\ [][Next]_vars /\ Fairness

-----------------------------------------------------------------------------
(* Properties *)

\* The type of every variable, and that a goroutine has instruments to force
\* only while it is forcing.
TypeOK ==
    /\ beat \in Int /\ beat >= -1 /\ stopped \in BOOLEAN
    /\ isActive \subseteq Guarded /\ used \subseteq Guarded
    /\ run \in [Guarded -> Nat]
    /\ pc \in [Thread -> {"idle", "checked", "marking", "sending", "forcing",
                          "tripping", "ending", "ended"}]
    /\ cue \in [guard: Guarded \cup {None}, action: Action]
    /\ todo \in [Thread -> SUBSET Guarded]
    /\ half \in [Thread -> Guarded \cup {None}]
    /\ \A t \in Thread : ~AtRest(t) => pc[t] \in {"forcing", "ending"}
    /\ on \subseteq Guarded /\ failed \subseteq Guarded /\ raced \subseteq Guarded

Latched == stopped /\ \A t \in Thread : AtRest(t)

\* When an all-stop is over nothing does anything, but what its call failed for
\* and what a cue that had already read the latch began (safety.go:115).
LatchedRigIsSafe == Latched => on \subseteq failed \cup raced

\* Between cues, what the hardware does is what the guards count as active, so
\* the limits they keep are about something (guard.go:11).
GuardsKnowWhatRuns ==
    pc["show"] = "idle" /\ (\A t \in Thread : AtRest(t))
      => on \subseteq isActive \cup failed \cup raced

\* A show that stops heartbeating ends with the rig safe: the one failure the
\* watchdog exists to catch (safety.go:167).
WedgedShowIsMadeSafe ==
    Overdue ~> \/ ~Overdue
               \/ on \subseteq failed \cup raced

=============================================================================
