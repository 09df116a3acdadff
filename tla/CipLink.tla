------------------------------ MODULE CipLink ------------------------------
(***************************************************************************)
(* internal/cip: one board and the client that drives it over UDP.  A cue  *)
(* is numbered, sent, and sent again until it is acknowledged or given up   *)
(* on; the board refuses numbers it has seen, applies cues to its devices,  *)
(* ends spans by its own timers and makes itself safe when heartbeats stop. *)
(* Datagrams are lost, duplicated, delayed and reordered.                   *)
(*                                                                         *)
(* What a device is set to is abstracted to whether it is at its safe       *)
(* state.  Time is counted in ticks that stop mattering past the timeout.   *)
(***************************************************************************)
EXTENDS Integers, FiniteSets, Bags

CONSTANTS
    Device,      \* names cues are dispatched to
    Caller,      \* goroutines that dispatch
    Auth,        \* a secret is configured: control messages carry counters
    Prompt,      \* the network is never slower than the client's patience
    Retries,     \* DefaultRetries
    Timeout,     \* the board's heartbeat timeout
    Holds,       \* the holds cues carry, 0 for none
    Curved,      \* devices that curves drive
    Wirings,     \* device sets another client may configure the board with
    MaxNumber,   \* bound: control messages
    MaxLoss,     \* bound: datagrams lost
    MaxDup,      \* bound: datagrams delivered twice
    MaxBoots     \* bound: restarts of the board

ASSUME ConstantsAssumption ==
    /\ Auth \in BOOLEAN /\ Prompt \in BOOLEAN
    /\ Retries \in Nat \ {0} /\ Timeout \in Nat
    /\ Holds \subseteq Nat /\ 0 \in Holds
    /\ Curved \subseteq Device /\ Wirings \subseteq SUBSET Device
    /\ MaxNumber \in Nat /\ MaxLoss \in Nat /\ MaxDup \in Nat /\ MaxBoots \in Nat

VARIABLES
    number,    \* control messages numbered so far: Client.seq and counter
    call,      \* each caller's Dispatch: where it is, its cue, its attempts
    up,        \* datagrams on their way to the board, each with its copy
    down,      \* acknowledgements on their way back
    lost, dups, boots,
    attached,  \* the devices the board has
    on,        \* the devices that are not safe
    left,      \* ticks left of each device's hold, -1 for none
    heard,     \* lastBeat is not zero
    silence,   \* ticks since the last heartbeat, or since the board started
    highest,   \* replayGuard.highest
    applied    \* history: how often the board has applied each cue, a bag

link == <<up, down, lost, dups>>
board == <<boots, attached, on, left, heard, silence, highest, applied>>
vars == <<number, call, link, board>>

-----------------------------------------------------------------------------
(* Messages.  seq tells cues apart; n is what the replay guard looks at. *)

Number(k) == IF Auth THEN k ELSE 0

Cue == [kind: {"cue"}, seq: 1..MaxNumber, n: 0..MaxNumber,
        device: Device, action: {"start", "stop"}, hold: Holds]
Control == [kind: {"heartbeat", "safe"}, n: 0..MaxNumber]
Curve == [kind: {"curve"}, device: Device]

NoCue == [kind |-> "none", seq |-> 0]

\* What a client that starts later counts from: it is seeded from the clock.
LaterClient == MaxNumber + 1

-----------------------------------------------------------------------------
Init ==
    /\ number = 0
    /\ call = [t \in Caller |->
                  [at |-> "idle", cue |-> NoCue, attempt |-> 0, acked |-> FALSE]]
    /\ up = {} /\ down = {} /\ lost = 0 /\ dups = 0 /\ boots = 0
    /\ attached = Device /\ on = {} /\ left = [d \in Device |-> -1]
    /\ heard = FALSE /\ silence = 0 /\ highest = 0 /\ applied = EmptyBag

(* The client *)

\* Dispatch, up to its first send: another goroutine's messages may be
\* numbered later and sent earlier.
Dispatch(t, d, a, h) ==
    /\ call[t].at \in {"idle", "acked", "skipped"} /\ number < MaxNumber
    /\ number' = number + 1
    /\ call' = [call EXCEPT ![t] =
          [at |-> "sending", attempt |-> 0, acked |-> FALSE,
           cue |-> [kind |-> "cue", seq |-> number', n |-> Number(number'),
                    device |-> d, action |-> a, hold |-> h]]]
    /\ UNCHANGED <<link, board>>

\* Every attempt sends the same bytes.
Attempt(t) ==
    /\ call[t].at = "sending"
    /\ up' = up \cup {<<call[t].cue, call[t].attempt>>}
    /\ call' = [call EXCEPT ![t].at = "waiting", ![t].attempt = @ + 1]
    /\ UNCHANGED <<number, down, lost, dups, board>>

\* readLoop, for an acknowledgement somebody waits for or nobody does.
ReadAck(a) ==
    /\ a \in down
    /\ down' = down \ {a}
    /\ call' = [t \in Caller |->
          IF call[t].cue.seq = a[1] /\ call[t].at \in {"sending", "waiting"}
          THEN [call[t] EXCEPT !.acked = TRUE] ELSE call[t]]
    /\ UNCHANGED <<number, up, lost, dups, board>>

Acknowledged(t) ==
    /\ call[t].at = "waiting" /\ call[t].acked
    /\ call' = [call EXCEPT ![t].at = "acked"]
    /\ UNCHANGED <<number, link, board>>

InFlight(seq) ==
    \/ \E m \in up : m[1].kind = "cue" /\ m[1].seq = seq
    \/ \E a \in down : a[1] = seq

\* Mutation: no second attempt.
TimerGivesUp(t) ==
    /\ call[t].at = "waiting"
    /\ Prompt => ~call[t].acked /\ ~InFlight(call[t].cue.seq)
    /\ call' = [call EXCEPT ![t].at = "skipped"]
    /\ UNCHANGED <<number, link, board>>

\* The timer fires, and select may take it with an answer there to be taken.
TimerFires(t) ==
    /\ call[t].at = "waiting"
    /\ Prompt => ~call[t].acked /\ ~InFlight(call[t].cue.seq)
    /\ call' = [call EXCEPT ![t].at =
                  IF call[t].attempt < Retries THEN "sending" ELSE "skipped"]
    /\ UNCHANGED <<number, link, board>>

\* Heartbeat and Safe: numbered, sent once, not waited for.
Broadcast(kind) ==
    /\ number < MaxNumber
    /\ number' = number + 1
    /\ up' = up \cup {<<[kind |-> kind, n |-> Number(number')], 0>>}
    /\ UNCHANGED <<call, down, lost, dups, board>>

\* SendBundle: neither numbered nor acknowledged.
SendCurve(d) ==
    /\ up' = up \cup {<<[kind |-> "curve", device |-> d], 0>>}
    /\ UNCHANGED <<number, call, down, lost, dups, board>>

(* The network *)

\* A datagram is taken, and may be delivered again.
Taken(m) ==
    \/ up' = up \ {m} /\ dups' = dups
    \/ up' = up /\ dups < MaxDup /\ dups' = dups + 1

Lose ==
    /\ lost < MaxLoss /\ lost' = lost + 1
    /\ \/ \E m \in up : up' = up \ {m} /\ down' = down
       \/ \E a \in down : down' = down \ {a} /\ up' = up
    /\ UNCHANGED <<number, call, dups, board>>

(* The board *)

\* Mutation: the number seen last is taken again.
AcceptsAgain(n) == n >= highest

\* replayGuard.accept
Accepts(n) == n = 0 \/ n > highest
Seen(n) == IF n > highest THEN n ELSE highest

\* applySafe of a set of devices.
MadeSafe(S) ==
    /\ on' = on \ S
    /\ left' = [d \in Device |-> IF d \in S THEN -1 ELSE left[d]]

Started(d, h) ==
    /\ on' = on \cup {d}
    /\ left' = [left EXCEPT ![d] = IF h > 0 THEN h ELSE -1]

Replay(m) ==
    /\ m \in up /\ m[1].kind # "curve" /\ ~Accepts(m[1].n)
    /\ Taken(m)
    /\ UNCHANGED <<number, call, down, lost, board>>

\* A cue for a device the board does not have is not acknowledged.
HandleCue(m) ==
    LET c == m[1]
    IN  /\ m \in up /\ c.kind = "cue" /\ Accepts(c.n)
        /\ Taken(m)
        /\ highest' = Seen(c.n)
        /\ IF c.device \in attached
           THEN /\ IF c.action = "stop" THEN MadeSafe({c.device})
                   ELSE Started(c.device, c.hold)
                /\ applied' = applied (+) SetToBag({c.seq})
                /\ down' = down \cup {<<c.seq, m[2]>>}
           ELSE UNCHANGED <<on, left, applied, down>>
        /\ UNCHANGED <<number, call, lost, boots, attached, heard, silence>>

HandleHeartbeat(m) ==
    /\ m \in up /\ m[1].kind = "heartbeat" /\ Accepts(m[1].n)
    /\ Taken(m)
    /\ highest' = Seen(m[1].n)
    /\ heard' = TRUE /\ silence' = 0
    /\ UNCHANGED <<number, call, down, lost, boots, attached, on, left, applied>>

HandleSafe(m) ==
    /\ m \in up /\ m[1].kind = "safe" /\ Accepts(m[1].n)
    /\ Taken(m)
    /\ highest' = Seen(m[1].n)
    /\ MadeSafe(Device)
    /\ UNCHANGED <<number, call, down, lost, boots, attached, heard, silence,
                   applied>>

\* A curve frame leaves the hold of what it drives as it is.
HandleCurve(m) ==
    /\ m \in up /\ m[1].kind = "curve"
    /\ Taken(m)
    /\ on' = on \cup ({m[1].device} \cap attached)
    /\ UNCHANGED <<number, call, down, lost, boots, attached, left, heard,
                   silence, highest, applied>>

\* Another client, a studio, talks to the board.
Visit ==
    /\ Auth /\ highest < LaterClient
    /\ highest' = LaterClient
    /\ UNCHANGED <<number, call, link, boots, attached, on, left, heard, silence,
                   applied>>

\* ... and configures it: adopt begins every device anew, safe.
Configure(S) ==
    /\ Auth
    /\ highest' = LaterClient
    /\ attached' = S
    /\ MadeSafe(Device)
    /\ UNCHANGED <<number, call, link, boots, heard, silence, applied>>

Expired(d) == left[d] = 0
\* Mutation: one safe device keeps the watchdog from looking at the others.
OverdueUnlessOneIsSafe == heard /\ silence > Timeout /\ on = attached

Overdue == heard /\ silence > Timeout /\ on # {}

\* Mutation: holds are left to the conductor's stop.
WatchdogForSilence ==
    /\ Overdue
    /\ MadeSafe(attached)
    /\ UNCHANGED <<number, call, link, boots, attached, heard, silence, highest,
                   applied>>

\* One turn of the board's watchdog.
Watchdog ==
    /\ Overdue \/ \E d \in attached : Expired(d) /\ d \in on
    /\ MadeSafe(IF Overdue THEN attached
                ELSE {d \in attached : Expired(d) /\ d \in on})
    /\ UNCHANGED <<number, call, link, boots, attached, heard, silence, highest,
                   applied>>

\* The board starts again with its configuration, remembering no counter.
Reboot ==
    /\ boots < MaxBoots /\ boots' = boots + 1
    /\ MadeSafe(Device)
    /\ heard' = FALSE /\ silence' = 0 /\ highest' = 0
    /\ UNCHANGED <<number, call, link, attached, applied>>

Age ==
    /\ silence' = IF silence > Timeout THEN silence ELSE silence + 1
    /\ left' = [d \in Device |-> IF left[d] > 0 THEN left[d] - 1 ELSE left[d]]
    /\ UNCHANGED <<number, call, link, boots, attached, on, heard, highest, applied>>

-----------------------------------------------------------------------------
Client ==
    \/ \E t \in Caller :
          \/ \E d \in Device : Dispatch(t, d, "stop", 0)
          \/ \E d \in Device, h \in Holds : Dispatch(t, d, "start", h)
          \/ Attempt(t) \/ Acknowledged(t) \/ TimerFires(t)
    \/ \E a \in down : ReadAck(a)
    \/ \E kind \in {"heartbeat", "safe"} : Broadcast(kind)
    \/ \E d \in Curved : SendCurve(d)

Board ==
    \/ \E m \in up :
          \/ Replay(m) \/ HandleCue(m)
          \/ HandleHeartbeat(m) \/ HandleSafe(m) \/ HandleCurve(m)
    \/ Visit \/ \E S \in Wirings : Configure(S)
    \/ Watchdog \/ Reboot

Next == Client \/ Lose \/ Board \/ Age

\* Time goes on and the board's watchdog runs.  Nothing is asked of the client,
\* which may crash, or of the network.
Fairness == WF_vars(Age) /\ WF_vars(Watchdog)

Spec == Init /\ [][Next]_vars /\ Fairness

-----------------------------------------------------------------------------
(* Properties *)

\* The type of every variable.
TypeOK ==
    /\ number \in 0..MaxNumber
    /\ call \in [Caller -> [at: {"idle", "sending", "waiting", "acked", "skipped"},
                            cue: Cue \cup {NoCue}, attempt: 0..Retries,
                            acked: BOOLEAN]]
    /\ up \subseteq (Cue \cup Control \cup Curve) \X (0..Retries)
    /\ down \subseteq (1..MaxNumber) \X (0..Retries)
    /\ lost \in 0..MaxLoss /\ dups \in 0..MaxDup /\ boots \in 0..MaxBoots
    /\ attached \subseteq Device /\ on \subseteq attached
    /\ left \in [Device -> Int] /\ \A d \in Device : left[d] >= -1
    /\ heard \in BOOLEAN /\ silence \in 0..(Timeout + 1)
    /\ highest \in 0..LaterClient /\ IsABag(applied) /\ BagToSet(applied) \subseteq 1..MaxNumber

Waiting(t) == call[t].at \in {"sending", "waiting"}

\* What the callers and the board do together is what Dispatch promises: an
\* acknowledged cue was applied, and however the network behaves the board
\* applies each cue once at most and never after a later one (remote.go:51,
\* node.go:261, auth.go:83).
Delivery == INSTANCE CueDelivery WITH
    issued <- number,
    open <- [t \in Caller |-> IF Waiting(t) THEN call[t].cue.seq ELSE 0],
    answer <- [t \in Caller |->
                  IF call[t].at \in {"acked", "skipped"} THEN call[t].at ELSE "none"],
    last <- highest
KeepsItsPromise == Delivery!Spec

\* A lost datagram is what the retries are for: with fewer losses than attempts
\* on a network that is never late, every cue for a device the board has is
\* acknowledged (remote.go:51, docs/cip.md:30).
LossesAreRetried ==
    lost < Retries =>
        \A t \in Caller : call[t].cue # NoCue /\ call[t].cue.device \in attached
            => call[t].at # "skipped"

\* A device stops for its own hold, for a stop or a safe that is on its way, for
\* the silence of the conductor, or because the board begins anew: never
\* because another device's span is over (docs/cip.md:210).
StopsForItsOwnReasons ==
    [][\A d \in on \ on' :
          \/ Expired(d) \/ Overdue
          \/ \E m \in up : \/ m[1].kind = "safe"
                           \/ m[1].kind = "cue" /\ m[1].device = d
                              /\ m[1].action = "stop"
          \/ boots' # boots \/ (highest' = LaterClient /\ on' = {})]_vars

\* A span ends when its hold is over, whatever the network does (docs/cip.md:125).
HoldsEnd == \A d \in Device : Expired(d) ~> ~Expired(d)

\* A board whose conductor has gone quiet makes every device safe (docs/cip.md:191).
SilenceMakesSafe ==
    heard /\ silence > Timeout ~> on = {} \/ silence <= Timeout \/ ~heard

=============================================================================
