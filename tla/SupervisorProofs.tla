-------------------------- MODULE SupervisorProofs --------------------------
(***************************************************************************)
(* What the safety supervisor guarantees for every set of instruments,     *)
(* every limit and timeout, however the show loop and the watchdog meet.    *)
(*                                                                         *)
(* Neither property is inductive.  An instrument that is on in a stopped    *)
(* rig has a goroutine that is still to force it, until that call is done;  *)
(* one that is on and not counted as active has such a goroutine or a cue   *)
(* on its way.                                                              *)
(***************************************************************************)
EXTENDS Supervisor, TLAPS

\* A goroutine has still to drive g to its safe state.
Pending(g) == \E t \in Thread : g \in todo[t] \/ half[t] = g

\* What the watchdog can be doing, and what a cue under way is for.
PhaseInv ==
    /\ pc["watch"] \in {"idle", "tripping", "forcing"}
    /\ pc["watch"] = "forcing" => stopped
    /\ pc["show"] \in {"checked", "marking", "sending"} => cue.guard \in Guarded

\* In a stopped rig what is on is still to be forced, or excused.
LatchInv == stopped => \A g \in on : g \in failed \/ g \in raced \/ Pending(g)

\* A cue that begins something was marked, unless the rig was stopped since.
MarkInv ==
    Quiet /\ pc["show"] = "sending" /\ cue.action = "start"
      => cue.guard \in isActive \/ stopped

\* What is on is counted as active, still to be forced, excused, or what the
\* cue on its way is about.
CountInv ==
    Quiet => \A g \in on :
        \/ g \in isActive \/ g \in failed \/ g \in raced \/ Pending(g)
        \/ pc["show"] = "sending" /\ cue.guard = g

SafetyInv == TypeOK /\ PhaseInv /\ LatchInv /\ MarkInv /\ CountInv

-----------------------------------------------------------------------------

LEMMA InitSafety == Init => SafetyInv
<1> SUFFICES ASSUME Init PROVE SafetyInv
  OBVIOUS
<1>1. TypeOK
  <2>1. pc \in [Thread -> {"idle", "checked", "marking", "sending", "forcing",
                           "tripping", "ending", "ended"}]
    BY DEF Init
  <2>2. /\ todo \in [Thread -> SUBSET Guarded]
        /\ half \in [Thread -> Guarded \cup {None}]
        /\ \A t \in Thread : AtRest(t)
    BY DEF Init, AtRest
  <2>3. cue \in [guard: Guarded \cup {None}, action: Action]
    BY DEF Init, NoCue, Action
  <2>4. run \in [Guarded -> Nat]
    BY DEF Init
  <2>5. stopped \in BOOLEAN
    BY Zenon DEF Init
  <2>6. QED
    BY <2>1, <2>2, <2>3, <2>4, <2>5 DEF Init, TypeOK
<1>2. PhaseInv
  BY DEF Init, PhaseInv, Thread
<1>3. LatchInv /\ MarkInv /\ CountInv
  BY DEF Init, LatchInv, MarkInv, CountInv, Thread
<1>4. QED
  BY <1>1, <1>2, <1>3 DEF SafetyInv

\* A call to an instrument keeps the sets sets of instruments, and what it
\* leaves on without an excuse it began in a rig that was not stopped.
LEMMA SendKeeps ==
    ASSUME TypeOK, NEW g \in Guarded, NEW a \in Action, NEW ok \in BOOLEAN,
           Send(g, a, ok)
    PROVE  /\ on' \subseteq Guarded /\ failed' \subseteq Guarded
           /\ raced' \subseteq Guarded
           /\ \A h \in on' : h # g =>
                 /\ h \in on
                 /\ h \in failed => h \in failed'
                 /\ h \in raced => h \in raced'
           /\ g \in on' /\ a # "start" => g \in failed'
           /\ g \in on' /\ a = "start" /\ stopped =>
                 \/ g \in raced'
                 \/ /\ g \in on
                    /\ g \in failed => g \in failed'
                    /\ g \in raced => g \in raced'
           /\ g \in on' /\ a = "start" /\ ~ok => g \in on
  BY DEF Send, TypeOK

\* Actions that leave the latch, the guards' marks, the goroutines' tasks and
\* the instruments alone keep the invariants about them.
LEMMA QuietSteps ==
    ASSUME SafetyInv,
           UNCHANGED <<stopped, isActive, todo, half, hardware>>,
           pc["show"] = "sending" => pc'["show"] = "sending" /\ cue' = cue,
           pc'["show"] = "sending" => pc["show"] = "sending" \/ ~Quiet
    PROVE  LatchInv' /\ MarkInv' /\ CountInv'
<1>1. \A g : Pending(g)' <=> Pending(g)
  BY DEF Pending
<1>2. LatchInv'
  BY <1>1 DEF SafetyInv, LatchInv, hardware
<1>3. MarkInv'
  BY DEF SafetyInv, MarkInv
<1>4. CountInv'
  BY <1>1 DEF SafetyInv, CountInv, hardware
<1>5. QED
  BY <1>2, <1>3, <1>4

LEMMA NextSafety == SafetyInv /\ [Next]_vars => SafetyInv'
<1> SUFFICES ASSUME SafetyInv, [Next]_vars PROVE SafetyInv'
  OBVIOUS
<1> USE ConstantsAssumption
<1> USE DEF guards, hardware
<1>0. /\ TypeOK /\ PhaseInv /\ LatchInv /\ MarkInv /\ CountInv
      /\ "show" \in Thread /\ "watch" \in Thread
      /\ \A t \in Thread : t = "show" \/ t = "watch"
  BY DEF SafetyInv, Thread
<1>1. ASSUME NEW g \in Guarded, NEW a \in Action, Dispatch(g, a)
      PROVE  SafetyInv'
  <2>1. cue' \in [guard: Guarded \cup {None}, action: Action]
    BY <1>1 DEF Dispatch
  <2>3. AtRest("show") /\ UNCHANGED <<todo, half>>
    BY <1>0, <1>1 DEF Dispatch, TypeOK
  <2>4. TypeOK'
    BY <1>0, <1>1, <2>1, <2>3 DEF Dispatch, TypeOK, AtRest
  <2>5. PhaseInv'
    BY <1>0, <1>1 DEF Dispatch, PhaseInv, TypeOK
  <2>6. LatchInv' /\ MarkInv' /\ CountInv'
    BY <1>0, <1>1, QuietSteps DEF Dispatch, TypeOK
  <2>7. QED
    BY <2>4, <2>5, <2>6 DEF SafetyInv
<1>2. CASE LimitReached
  <2>1. cue.guard \in Guarded /\ AtRest("show") /\ pc["show"] = "checked"
    BY <1>0, <1>2 DEF LimitReached, PhaseInv, TypeOK
  <2>2. TypeOK'
    BY <1>0, <1>2, <2>1 DEF LimitReached, TypeOK, AtRest
  <2>3. PhaseInv'
    BY <1>0, <1>2 DEF LimitReached, PhaseInv, TypeOK
  <2>4. \A g : Pending(g) => Pending(g)'
    BY <1>0, <1>2, <2>1 DEF LimitReached, Pending, AtRest, TypeOK
  <2>5. LatchInv' /\ MarkInv' /\ CountInv'
    BY <1>0, <1>2, <2>4 DEF LimitReached, LatchInv, MarkInv, CountInv, TypeOK
  <2>6. QED
    BY <2>2, <2>3, <2>5 DEF SafetyInv
<1>3. CASE WithinLimits
  <2>1. TypeOK'
    BY <1>0, <1>3 DEF WithinLimits, TypeOK, AtRest
  <2>2. PhaseInv'
    BY <1>0, <1>3 DEF WithinLimits, PhaseInv, TypeOK
  <2>3. LatchInv' /\ MarkInv' /\ CountInv'
    BY <1>0, <1>3, QuietSteps DEF WithinLimits, TypeOK
  <2>4. QED
    BY <2>1, <2>2, <2>3 DEF SafetyInv
<1>4. CASE Mark
  <2>1. cue.guard \in Guarded /\ AtRest("show") /\ pc["show"] = "marking"
    BY <1>0, <1>4 DEF Mark, PhaseInv, TypeOK
  <2>2. /\ isActive' \subseteq Guarded /\ used' \subseteq Guarded
        /\ run' \in [Guarded -> Nat]
    BY <1>0, <1>4, <2>1 DEF Mark, TypeOK
  <2>3. TypeOK'
    BY <1>0, <1>4, <2>1, <2>2 DEF Mark, TypeOK, AtRest
  <2>4. PhaseInv'
    BY <1>0, <1>4 DEF Mark, PhaseInv, TypeOK
  <2>5. \A g : Pending(g)' <=> Pending(g)
    BY <1>4 DEF Mark, Pending
  <2>6. pc'["show"] = "sending" /\ cue' = cue
    BY <1>0, <1>4 DEF Mark, TypeOK
  <2>7. \A g \in isActive : g = cue.guard \/ g \in isActive'
    BY <1>4 DEF Mark
  <2>8. LatchInv' /\ CountInv'
    BY <1>0, <1>4, <2>1, <2>5, <2>6, <2>7 DEF Mark, LatchInv, CountInv
  <2>9. MarkInv'
    BY <1>4, <2>6 DEF Mark, MarkInv, CountsAsActive
  <2>10. QED
    BY <2>3, <2>4, <2>8, <2>9 DEF SafetyInv
<1>5. ASSUME NEW ok \in BOOLEAN, Deliver(ok)
      PROVE  SafetyInv'
  <2> DEFINE g == cue.guard
             a == cue.action
  <2>1. g \in Guarded /\ a \in Action /\ Send(g, a, ok) /\ AtRest("show")
    BY <1>0, <1>5 DEF Deliver, PhaseInv, TypeOK
  <2>2. /\ on' \subseteq Guarded /\ failed' \subseteq Guarded
        /\ raced' \subseteq Guarded
        /\ \A h \in on' : h # g =>
              /\ h \in on
              /\ h \in failed => h \in failed'
              /\ h \in raced => h \in raced'
        /\ g \in on' /\ a # "start" => g \in failed'
        /\ g \in on' /\ a = "start" /\ stopped =>
              \/ g \in raced'
              \/ /\ g \in on
                 /\ g \in failed => g \in failed'
                 /\ g \in raced => g \in raced'
    BY <1>0, <2>1, SendKeeps
  <2>3. /\ pc["show"] = "sending" /\ pc' = [pc EXCEPT !["show"] = "idle"]
        /\ cue' = NoCue
        /\ UNCHANGED <<beat, stopped, isActive, run, used, todo, half>>
    BY <1>5 DEF Deliver
  <2>4. NoCue \in [guard: Guarded \cup {None}, action: Action]
    BY DEF NoCue, Action
  <2>5. TypeOK'
    BY <1>0, <2>1, <2>2, <2>3, <2>4 DEF TypeOK, AtRest
  <2>6. PhaseInv'
    BY <1>0, <2>3 DEF PhaseInv, TypeOK
  <2>7. \A h : Pending(h)' <=> Pending(h)
    BY <2>3 DEF Pending
  <2>8. LatchInv'
    BY <1>0, <2>2, <2>3, <2>7 DEF LatchInv
  <2>9. MarkInv'
    BY <1>0, <2>3 DEF MarkInv, TypeOK
  <2>10. CountInv'
    BY <1>0, <2>2, <2>3, <2>7, <2>8 DEF CountInv, LatchInv, MarkInv
  <2>11. QED
    BY <2>5, <2>6, <2>8, <2>9, <2>10 DEF SafetyInv
<1>6. CASE Heartbeat
  BY <1>0, <1>6, QuietSteps DEF Heartbeat, SafetyInv, TypeOK, PhaseInv, AtRest
<1>7. ASSUME NEW t \in Thread, BeginAllStop(t),
             \/ t = "show" /\ pc[t] = "idle"
             \/ t = "watch" /\ pc[t] = "tripping"
      PROVE  SafetyInv'
  <2>1. AtRest(t)
    BY <1>0, <1>7 DEF TypeOK
  <2>2. TypeOK'
    BY <1>0, <1>7, <2>1 DEF BeginAllStop, TypeOK, AtRest
  <2>3. PhaseInv'
    BY <1>0, <1>7 DEF BeginAllStop, PhaseInv, TypeOK
  <2>4. \A g \in on' : Pending(g)'
    BY <1>0, <1>7 DEF BeginAllStop, Pending, TypeOK
  <2>5. LatchInv' /\ MarkInv' /\ CountInv'
    BY <1>7, <2>4 DEF BeginAllStop, LatchInv, MarkInv, CountInv
  <2>6. QED
    BY <2>2, <2>3, <2>5 DEF SafetyInv
<1>8. CASE CheckFirst
  BY <1>0, <1>8, QuietSteps DEF CheckFirst, SafetyInv, TypeOK, PhaseInv, AtRest
<1>9. CASE CheckOverdue
  <2>1. TypeOK'
    BY <1>0, <1>9 DEF CheckOverdue, TypeOK, AtRest
  <2>2. PhaseInv'
    BY <1>0, <1>9 DEF CheckOverdue, PhaseInv, TypeOK
  <2>3. LatchInv' /\ MarkInv' /\ CountInv'
    BY <1>0, <1>9, QuietSteps DEF CheckOverdue, TypeOK
  <2>4. QED
    BY <2>1, <2>2, <2>3 DEF SafetyInv
<1>10. ASSUME NEW t \in Thread, NEW g \in Guarded, ForceMark(t, g)
       PROVE  SafetyInv'
  <2>1. pc[t] \in {"forcing", "ending"}
    BY <1>0, <1>10 DEF ForceMark, TypeOK, AtRest
  <2>2. isActive' \subseteq Guarded /\ used' \subseteq Guarded
    BY <1>0, <1>10 DEF ForceMark, TypeOK
  <2>3. TypeOK'
    BY <1>0, <1>10, <2>1, <2>2 DEF ForceMark, TypeOK, AtRest
  <2>4. PhaseInv'
    BY <1>0, <1>10 DEF ForceMark, PhaseInv
  <2>5. \A h \in Guarded : Pending(h) => Pending(h)'
    BY <1>0, <1>10 DEF ForceMark, Pending, TypeOK
  <2>6. Pending(g)'
    BY <1>0, <1>10 DEF ForceMark, Pending, TypeOK
  <2>7. LatchInv'
    BY <1>0, <1>10, <2>5 DEF ForceMark, LatchInv, TypeOK
  <2>8. pc["show"] = "sending" => stopped
    BY <1>0, <2>1 DEF PhaseInv
  <2>9. MarkInv'
    BY <1>0, <1>10, <2>8 DEF ForceMark, MarkInv
  <2>10. CountInv'
    BY <1>0, <1>10, <2>5, <2>6 DEF ForceMark, CountInv, TypeOK
  <2>11. QED
    BY <2>3, <2>4, <2>7, <2>9, <2>10 DEF SafetyInv
<1>11. ASSUME NEW t \in Thread, NEW ok \in BOOLEAN, ForceSend(t, ok)
       PROVE  SafetyInv'
  <2> DEFINE g == half[t]
  <2>1. /\ g \in Guarded /\ Send(g, "stop", ok) /\ half' = [half EXCEPT ![t] = None]
        /\ UNCHANGED <<beat, stopped, isActive, run, used, pc, cue, todo>>
    BY <1>0, <1>11 DEF ForceSend, TypeOK
  <2>2. /\ on' \subseteq Guarded /\ failed' \subseteq Guarded
        /\ raced' \subseteq Guarded
        /\ \A h \in on' : h # g =>
              /\ h \in on
              /\ h \in failed => h \in failed'
              /\ h \in raced => h \in raced'
        /\ g \in on' => g \in failed'
    <3>1. "stop" \in Action /\ "stop" # "start"
      BY DEF Action
    <3>2. QED
      BY <1>0, <2>1, <3>1, SendKeeps
  <2>3. TypeOK'
    BY <1>0, <2>1, <2>2 DEF TypeOK, AtRest
  <2>4. PhaseInv'
    BY <1>0, <2>1 DEF PhaseInv
  <2>5. \A h : h # g /\ Pending(h) => Pending(h)'
    BY <1>0, <2>1 DEF Pending, TypeOK
  <2>6. LatchInv'
    BY <1>0, <2>1, <2>2, <2>5 DEF LatchInv
  <2>7. MarkInv'
    BY <1>0, <2>1 DEF MarkInv
  <2>8. CountInv'
    BY <1>0, <2>1, <2>2, <2>5 DEF CountInv
  <2>9. QED
    BY <2>3, <2>4, <2>6, <2>7, <2>8 DEF SafetyInv
<1>12. ASSUME NEW t \in Thread, Forced(t)
       PROVE  SafetyInv'
  <2>1. /\ pc[t] \in {"forcing", "ending"} /\ AtRest(t)
        /\ pc' = [pc EXCEPT ![t] = IF pc[t] = "ending" THEN "ended" ELSE "idle"]
        /\ UNCHANGED <<beat, stopped, isActive, run, used, todo, half, on, failed, raced>>
    BY <1>12 DEF Forced, AtRest
  <2>2. cue' = cue \/ (t = "show" /\ cue' = NoCue)
    BY <1>12 DEF Forced
  <2>3. cue' \in [guard: Guarded \cup {None}, action: Action]
    BY <1>0, <2>2 DEF NoCue, Action, TypeOK
  <2>5. TypeOK'
    BY <1>0, <2>1, <2>3 DEF TypeOK, AtRest
  <2>6. PhaseInv'
    BY <1>0, <2>1, <2>2 DEF PhaseInv, TypeOK
  <2>7. LatchInv' /\ MarkInv' /\ CountInv'
    BY <1>0, <2>1, <2>2, QuietSteps DEF TypeOK
  <2>8. QED
    BY <2>5, <2>6, <2>7 DEF SafetyInv
<1>13. CASE Reset
  <2>1. /\ stopped /\ ~stopped' /\ beat' = 0 /\ isActive' = {} /\ used' = {}
        /\ pc["show"] \in {"idle", "ended"} /\ pc["watch"] = "idle"
        /\ pc' = [pc EXCEPT !["show"] = "idle"]
        /\ UNCHANGED <<run, cue, todo, half, hardware>>
    BY <1>13 DEF Reset
  <2>2. \A t \in Thread : AtRest(t)
    BY <1>0, <2>1 DEF TypeOK
  <2>3. stopped' \in BOOLEAN
    BY <1>13, Zenon DEF Reset
  <2>4. TypeOK'
    BY <1>0, <2>1, <2>2, <2>3 DEF TypeOK, AtRest
  <2>5. PhaseInv'
    BY <1>0, <2>1 DEF PhaseInv, TypeOK
  <2>6. \A g \in on : ~Pending(g)
    BY <1>0, <2>2 DEF Pending, AtRest, TypeOK
  <2>7. CountInv'
    BY <1>0, <2>1, <2>6 DEF CountInv, LatchInv
  <2>8. LatchInv' /\ MarkInv'
    BY <1>0, <2>1 DEF LatchInv, MarkInv, TypeOK
  <2>9. QED
    BY <2>4, <2>5, <2>7, <2>8 DEF SafetyInv
<1>14. CASE Age
  <2>1. beat' \in Int /\ beat' >= -1
    BY <1>0, <1>14 DEF Age, Older, TypeOK
  <2>2. run' \in [Guarded -> Nat]
    <3>1. \A g \in Guarded : run[g] \in Nat /\ Older(run[g], Limit[g]) \in Nat
      BY <1>0 DEF Older, TypeOK
    <3>2. QED
      BY <1>14, <3>1 DEF Age
  <2>3. TypeOK'
    BY <1>0, <1>14, <2>1, <2>2 DEF Age, TypeOK, AtRest
  <2>4. PhaseInv'
    BY <1>0, <1>14 DEF Age, PhaseInv
  <2>5. LatchInv' /\ MarkInv' /\ CountInv'
    BY <1>14, QuietSteps DEF Age
  <2>6. QED
    BY <2>3, <2>4, <2>5 DEF SafetyInv
<1>15. CASE UNCHANGED vars
  <2>1. LatchInv' /\ MarkInv' /\ CountInv'
    BY <1>15, QuietSteps DEF vars
  <2>2. QED
    BY <1>0, <1>15, <2>1 DEF vars, SafetyInv, TypeOK, PhaseInv, AtRest
<1>16. QED
  BY <1>0, <1>1, <1>2, <1>3, <1>4, <1>5, <1>6, <1>7, <1>8, <1>9, <1>10, <1>11, <1>12,
     <1>13, <1>14, <1>15 DEF Next, ShowEnds, Trip

\* The inductive invariant holds in every reachable state.
THEOREM SafetyInvariant == Spec => []SafetyInv
  BY InitSafety, NextSafety, PTL DEF Spec

\* Every variable keeps its type, and goroutines have instruments to force only
\* while they force.
THEOREM TypesHold == Spec => []TypeOK
<1>1. SafetyInv => TypeOK
  BY DEF SafetyInv
<1>2. QED
  BY <1>1, SafetyInvariant, PTL

\* Once an all-stop is over, only what refused to stop and what a cue already
\* past the latch began is on, for every interleaving (safety.go:115).
THEOREM AllStopStopsAll == Spec => []LatchedRigIsSafe
<1>1. SafetyInv => LatchedRigIsSafe
  BY ConstantsAssumption
     DEF SafetyInv, TypeOK, LatchInv, LatchedRigIsSafe, Latched, AtRest, Pending
<1>2. QED
  BY <1>1, SafetyInvariant, PTL

\* When cues go through the guards, between cues the limits are kept about
\* everything that runs (guard.go:11).
THEOREM GuardsAlwaysKnow == Spec => [](Quiet => GuardsKnowWhatRuns)
<1>1. SafetyInv => (Quiet => GuardsKnowWhatRuns)
  BY ConstantsAssumption
     DEF SafetyInv, TypeOK, CountInv, GuardsKnowWhatRuns, AtRest, Pending
<1>2. QED
  BY <1>1, SafetyInvariant, PTL
=============================================================================
