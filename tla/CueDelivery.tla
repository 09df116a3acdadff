---------------------------- MODULE CueDelivery ----------------------------
(***************************************************************************)
(* What Remote.Dispatch promises its callers, with the network, the        *)
(* retries and the replay counters left out.  Every control message has a  *)
(* number.  A cue is applied at most once, in the order of the numbers, and *)
(* only a cue that was applied is acknowledged.  Nothing is promised of a   *)
(* cue that is given up on: it may have been applied, it may yet be.        *)
(***************************************************************************)
EXTENDS Naturals, Bags

CONSTANT Caller    \* goroutines that dispatch

VARIABLES
    issued,    \* how many numbers have been given out
    open,      \* the cue each caller waits for, 0 for none
    answer,    \* what the last call of each caller returned
    applied,   \* the cues the node has applied, a bag: each as often as it was
    last       \* the highest number the node has seen since it started

vars == <<issued, open, answer, applied, last>>

Init ==
    /\ issued = 0 /\ last = 0 /\ applied = EmptyBag
    /\ open = [t \in Caller |-> 0]
    /\ answer = [t \in Caller |-> "none"]

\* A heartbeat or another message that nobody waits for.
Issue == issued' = issued + 1 /\ UNCHANGED <<open, answer, applied, last>>

Begin(t) ==
    /\ open[t] = 0
    /\ issued' = issued + 1
    /\ open' = [open EXCEPT ![t] = issued + 1]
    /\ answer' = [answer EXCEPT ![t] = "none"]
    /\ UNCHANGED <<applied, last>>

Apply(c) ==
    /\ last < c /\ c <= issued
    /\ applied' = applied (+) SetToBag({c})
    /\ last' = c
    /\ UNCHANGED <<issued, open, answer>>

\* The node takes another message, from this client or from another one.
Pass == last' > last /\ UNCHANGED <<issued, open, answer, applied>>

\* The node starts again and has seen nothing.
Restart == last' = 0 /\ UNCHANGED <<issued, open, answer, applied>>

Return(t, result) ==
    /\ open[t] # 0
    /\ result = "acked" => BagIn(open[t], applied)
    /\ open' = [open EXCEPT ![t] = 0]
    /\ answer' = [answer EXCEPT ![t] = result]
    /\ UNCHANGED <<issued, applied, last>>

Next ==
    \/ Issue \/ Pass \/ Restart
    \/ \E t \in Caller : Begin(t) \/ Return(t, "acked") \/ Return(t, "skipped")
    \/ \E c \in 1..issued : Apply(c)

Spec == Init /\ [][Next]_vars
=============================================================================
