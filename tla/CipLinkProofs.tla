--------------------------- MODULE CipLinkProofs ---------------------------
(***************************************************************************)
(* That the client and the board, over any network, with any number of     *)
(* goroutines, retries, losses, duplicates, restarts and other clients,     *)
(* are what CueDelivery promises, when control messages carry counters.     *)
(*                                                                         *)
(* The invariant: every number in flight has been issued, every cue carries *)
(* its own counter, and every acknowledgement that is in flight or has been *)
(* noted by a caller is of a cue that was applied.                          *)
(*                                                                         *)
(* And that a prompt network has to lose a datagram for every attempt before *)
(* a cue is given up.                                                       *)
(***************************************************************************)
EXTENDS CipLink, FiniteSetTheorems, TLAPS

CallType == [at: {"idle", "sending", "waiting", "acked", "skipped"},
             cue: Cue \cup {NoCue}, attempt: 0..Retries, acked: BOOLEAN]

\* What a caller in Dispatch holds.
CallInv ==
    \A t \in Caller :
        /\ Waiting(t) => /\ call[t].cue \in Cue
                         /\ call[t].cue.seq <= number
                         /\ call[t].cue.n = Number(call[t].cue.seq)
        /\ call[t].at = "sending" => call[t].attempt < Retries
        /\ Waiting(t) /\ call[t].acked => BagIn(call[t].cue.seq, applied)

\* What is on its way to the board.
UpInv ==
    \A m \in up :
        /\ m[1].kind = "cue" => m[1].seq <= number /\ m[1].n = Number(m[1].seq)
        /\ m[1].kind \in {"heartbeat", "safe"} /\ Auth => m[1].n > 0

\* What is on its way back.
DownInv == \A a \in down : BagIn(a[1], applied)

LinkInv == TypeOK /\ CallInv /\ UpInv /\ DownInv

-----------------------------------------------------------------------------

LEMMA Constants ==
    /\ Auth \in BOOLEAN /\ MaxNumber \in Nat /\ Retries \in Nat /\ Retries > 0
    /\ Timeout \in Nat /\ Holds \subseteq Nat /\ 0 \in Holds /\ Curved \subseteq Device
    /\ Wirings \subseteq SUBSET Device
    /\ MaxLoss \in Nat /\ MaxDup \in Nat /\ MaxBoots \in Nat
    /\ LaterClient \in Nat /\ MaxNumber < LaterClient
  BY ConstantsAssumption DEF LaterClient

\* Applying a cue is recorded, and what was applied stays recorded.
LEMMA AppliedGrows ==
    ASSUME NEW B, IsABag(B), NEW c
    PROVE  /\ IsABag(B (+) SetToBag({c}))
           /\ BagToSet(B (+) SetToBag({c})) = BagToSet(B) \cup {c}
           /\ BagIn(c, B (+) SetToBag({c}))
           /\ \A x : BagIn(x, B) => BagIn(x, B (+) SetToBag({c}))
  BY DEF IsABag, BagIn, BagToSet, SetToBag, (+)

LEMMA NothingApplied == IsABag(EmptyBag) /\ BagToSet(EmptyBag) = {}
  BY DEF IsABag, EmptyBag, BagToSet, SetToBag

\* The three kinds of message.
LEMMA Kinds ==
    ASSUME TypeOK, NEW m \in up
    PROVE  /\ m[1] \in Cue \/ m[1] \in Control \/ m[1] \in Curve
           /\ m[2] \in 0..Retries
           /\ m[1].kind = "cue" => m[1] \in Cue
           /\ m[1].kind \in {"heartbeat", "safe"} => m[1] \in Control
           /\ m[1].kind = "curve" => m[1] \in Curve
           /\ m[1].kind # "curve" => m[1].n \in 0..MaxNumber
<1>1. (m[1] \in Cue \/ m[1] \in Control \/ m[1] \in Curve) /\ m[2] \in 0..Retries
  BY DEF TypeOK
<1>2. /\ m[1] \in Cue => m[1].kind = "cue" /\ m[1].n \in 0..MaxNumber
      /\ m[1] \in Control => m[1].kind \in {"heartbeat", "safe"}
                             /\ m[1].n \in 0..MaxNumber
      /\ m[1] \in Curve => m[1].kind = "curve"
  BY DEF Cue, Control, Curve
<1>3. QED
  BY <1>1, <1>2

LEMMA InitLink == Init => LinkInv
<1> SUFFICES ASSUME Init PROVE LinkInv
  OBVIOUS
<1>1. call \in [Caller -> CallType]
  BY Constants DEF Init, CallType, NoCue
<1>2. \A t \in Caller : call[t].at = "idle"
  BY DEF Init
<1>3. TypeOK
  <2>1. heard \in BOOLEAN
    BY Zenon DEF Init
  <2>2. left \in [Device -> Int] /\ \A d \in Device : left[d] >= -1
    BY DEF Init
  <2>3. silence \in 0..(Timeout + 1) /\ highest \in 0..LaterClient
    BY Constants DEF Init
  <2>4. /\ number \in 0..MaxNumber /\ lost \in 0..MaxLoss /\ dups \in 0..MaxDup
        /\ boots \in 0..MaxBoots
    BY Constants DEF Init
  <2>5. IsABag(applied) /\ BagToSet(applied) \subseteq 1..MaxNumber
    BY NothingApplied DEF Init
  <2>6. QED
    BY <1>1, <2>1, <2>2, <2>3, <2>4, <2>5 DEF Init, TypeOK, CallType
<1>4. CallInv /\ UpInv /\ DownInv
  BY <1>2 DEF Init, CallInv, UpInv, DownInv, Waiting
<1>5. QED
  BY <1>3, <1>4 DEF LinkInv

\* A datagram that is taken may stay, and no other appears.
LEMMA TakenLeaves ==
    ASSUME TypeOK, NEW m, Taken(m)
    PROVE  up' \subseteq up /\ dups' \in 0..MaxDup
  BY Constants DEF Taken, TypeOK

\* Steps that send nothing new keep the invariants about what is on its way,
\* as long as nothing applied is forgotten.
LEMMA NothingNew ==
    ASSUME CallInv, UpInv, DownInv,
           UNCHANGED <<number, call>>, up' \subseteq up, down' \subseteq down,
           \A x : BagIn(x, applied) => BagIn(x, applied)'
    PROVE  CallInv' /\ UpInv' /\ DownInv'
<1>1. CallInv'
  BY DEF CallInv, Waiting
<1>2. UpInv'
  BY DEF UpInv
<1>3. DownInv'
  BY DEF DownInv
<1>4. QED
  BY <1>1, <1>2, <1>3

\* Making devices safe keeps the types.
LEMMA MadeSafeType ==
    ASSUME TypeOK, NEW S, MadeSafe(S)
    PROVE  /\ on' \subseteq attached
           /\ left' \in [Device -> Int] /\ \A d \in Device : left'[d] >= -1
           /\ S = Device => on' = {}
<1>1. \A d \in Device : left[d] \in Int /\ left[d] >= -1
  BY DEF TypeOK
<1>2. left' = [d \in Device |-> IF d \in S THEN -1 ELSE left[d]] /\ on' = on \ S
  BY DEF MadeSafe
<1>3. on \subseteq attached /\ attached \subseteq Device
  BY DEF TypeOK
<1>4. QED
  BY <1>1, <1>2, <1>3
-----------------------------------------------------------------------------

\* What a step of one caller has to show of its call for the invariant.
LEMMA CallStep ==
    ASSUME LinkInv, NEW t \in Caller, NEW r \in CallType,
           call' = [call EXCEPT ![t] = r],
           number' \in number..MaxNumber, UNCHANGED <<dups, lost, down, board>>,
           up' \subseteq (Cue \cup Control \cup Curve) \X (0..Retries), UpInv',
           r.at \in {"sending", "waiting"} =>
              /\ r.cue \in Cue /\ r.cue.seq <= number'
              /\ r.cue.n = Number(r.cue.seq)
              /\ r.acked => BagIn(r.cue.seq, applied),
           r.at = "sending" => r.attempt < Retries
    PROVE  LinkInv'
<1> USE Constants
<1> USE DEF board
<1>0. /\ TypeOK /\ CallInv /\ UpInv /\ DownInv /\ call \in [Caller -> CallType]
      /\ number \in 0..MaxNumber
  BY DEF LinkInv, TypeOK, CallType
<1>1. call' \in [Caller -> CallType] /\ call'[t] = r
      /\ \A u \in Caller : u # t => call'[u] = call[u]
  BY <1>0
<1>2. number' \in 0..MaxNumber
  BY <1>0
<1>3. TypeOK'
  BY <1>0, <1>1, <1>2 DEF TypeOK, CallType
<1>4. CallInv'
  <2> SUFFICES ASSUME NEW u \in Caller
               PROVE  /\ Waiting(u)' => /\ call'[u].cue \in Cue
                                        /\ call'[u].cue.seq <= number'
                                        /\ call'[u].cue.n = Number(call'[u].cue.seq)
                      /\ call'[u].at = "sending" => call'[u].attempt < Retries
                      /\ Waiting(u)' /\ call'[u].acked
                           => BagIn(call'[u].cue.seq, applied)
    BY DEF CallInv, Number
  <2>1. CASE u = t
    BY <1>1, <2>1 DEF Waiting
  <2>2. CASE u # t
    <3>1. Waiting(u)' <=> Waiting(u)
      BY <1>1, <2>2 DEF Waiting
    <3>2. Waiting(u) => call[u].cue.seq \in 1..MaxNumber
      BY <1>0 DEF CallInv, Cue
    <3>3. QED
      BY <1>0, <1>1, <2>2, <3>1, <3>2 DEF CallInv
  <2>3. QED
    BY <2>1, <2>2
<1>5. DownInv'
  BY <1>0 DEF DownInv
<1>6. QED
  BY <1>3, <1>4, <1>5 DEF LinkInv

LEMMA ClientLink == LinkInv /\ Client => LinkInv'
<1> SUFFICES ASSUME LinkInv, Client PROVE LinkInv'
  OBVIOUS
<1> USE Constants
<1> USE DEF link, board
<1>0. /\ TypeOK /\ CallInv /\ UpInv /\ DownInv /\ call \in [Caller -> CallType]
      /\ number \in 0..MaxNumber
      /\ up \subseteq (Cue \cup Control \cup Curve) \X (0..Retries)
  BY DEF LinkInv, TypeOK, CallType
<1>u. ASSUME number' \in number..MaxNumber, up' = up
      PROVE  UpInv'
  <2>1. \A m \in up : m[1].kind = "cue" => m[1].seq \in 1..MaxNumber
    BY <1>0, Kinds DEF Cue
  <2>2. QED
    BY <1>0, <1>u, <2>1 DEF UpInv, Number
<1>1. ASSUME NEW t \in Caller, NEW d \in Device, NEW a \in {"start", "stop"},
             NEW h \in Holds, Dispatch(t, d, a, h)
      PROVE  LinkInv'
  <2> DEFINE c == [kind |-> "cue", seq |-> number', n |-> Number(number'),
                   device |-> d, action |-> a, hold |-> h]
             r == [at |-> "sending", attempt |-> 0, acked |-> FALSE, cue |-> c]
  <2>1. /\ number' = number + 1 /\ number' \in 1..MaxNumber
        /\ number' \in number..MaxNumber
    BY <1>0, <1>1 DEF Dispatch
  <2>2. Number(number') \in 0..MaxNumber
    BY <2>1 DEF Number
  <2>3. c \in Cue
    BY <2>1, <2>2 DEF Cue
  <2>4. r \in CallType /\ call' = [call EXCEPT ![t] = r]
    BY <1>1, <2>3 DEF Dispatch, CallType
  <2>5. UNCHANGED <<up, dups, lost, down, board>>
    BY <1>1 DEF Dispatch
  <2>6. UpInv'
    BY <1>u, <2>1, <2>5
  <2>7. /\ r.at = "sending" /\ r.cue = c /\ r.acked = FALSE /\ r.attempt = 0
        /\ c.seq = number' /\ c.n = Number(c.seq) /\ number' <= number'
    BY <2>1
  <2>8. up' \subseteq (Cue \cup Control \cup Curve) \X (0..Retries)
    BY <1>0, <2>5
  <2> HIDE DEF r, c
  <2>9. QED
    BY <1>0, <2>1, <2>3, <2>4, <2>5, <2>6, <2>7, <2>8, CallStep
<1>2. ASSUME NEW t \in Caller, Attempt(t)
      PROVE  LinkInv'
  <2> DEFINE r == [call[t] EXCEPT !.at = "waiting", !.attempt = call[t].attempt + 1]
             m == <<call[t].cue, call[t].attempt>>
  <2>1. /\ call[t].at = "sending" /\ up' = up \cup {m} /\ number' = number
        /\ UNCHANGED <<dups, lost, down, board>>
    BY <1>2 DEF Attempt
  <2>2. call' = [call EXCEPT ![t] = r]
    BY <1>0, <1>2 DEF Attempt
  <2>3. /\ Waiting(t) /\ call[t].cue \in Cue /\ call[t].attempt \in 0..(Retries - 1)
        /\ call[t].cue.seq <= number /\ call[t].cue.n = Number(call[t].cue.seq)
        /\ call[t].acked => BagIn(call[t].cue.seq, applied)
    BY <1>0, <2>1 DEF CallInv, Waiting, CallType
  <2>4. /\ r \in CallType /\ r.at = "waiting" /\ r.cue = call[t].cue
        /\ r.acked = call[t].acked
    <3>1. \A k \in 0..Retries, x \in CallType :
             [x EXCEPT !.at = "waiting", !.attempt = k] \in CallType
      BY DEF CallType
    <3>2. call[t].attempt + 1 \in 0..Retries /\ call[t] \in CallType
      BY <1>0, <2>3
    <3>3. r \in CallType
      BY <3>1, <3>2
    <3>4. QED
      BY <1>0, <3>3 DEF CallType
  <2>5. up' \subseteq (Cue \cup Control \cup Curve) \X (0..Retries)
    BY <1>0, <2>1, <2>3
  <2>6. UpInv'
    <3>1. m[1].kind = "cue" /\ m[1] = call[t].cue
      BY <2>3 DEF Cue
    <3>2. QED
      BY <1>0, <2>1, <2>3, <3>1 DEF UpInv
  <2>7. number' \in number..MaxNumber
    BY <1>0, <2>1
  <2>8. QED
    BY <2>1, <2>2, <2>3, <2>4, <2>5, <2>6, <2>7, CallStep
<1>3. ASSUME NEW t \in Caller, Acknowledged(t) \/ TimerFires(t)
      PROVE  LinkInv'
  <2>1. PICK s \in {"sending", "acked", "skipped"} :
            /\ call' = [call EXCEPT ![t].at = s]
            /\ s = "sending" => call[t].attempt < Retries
    BY <1>3 DEF Acknowledged, TimerFires
  <2> DEFINE r == [call[t] EXCEPT !.at = s]
  <2>2. call[t].at = "waiting" /\ UNCHANGED <<number, up, dups, lost, down, board>>
    BY <1>3 DEF Acknowledged, TimerFires
  <2>3. call' = [call EXCEPT ![t] = r]
    BY <1>0, <2>1
  <2>4. /\ Waiting(t) /\ call[t].cue \in Cue
        /\ call[t].cue.seq <= number /\ call[t].cue.n = Number(call[t].cue.seq)
        /\ call[t].acked => BagIn(call[t].cue.seq, applied)
    BY <1>0, <2>2 DEF CallInv, Waiting
  <2>5. /\ r \in CallType /\ r.at = s /\ r.cue = call[t].cue
        /\ r.acked = call[t].acked /\ r.attempt = call[t].attempt
    BY <1>0 DEF CallType
  <2>6. number' \in number..MaxNumber /\ UpInv'
    BY <1>0, <1>u, <2>2
  <2>7. QED
    BY <1>0, <2>1, <2>2, <2>3, <2>4, <2>5, <2>6, CallStep
<1>4. ASSUME NEW a \in down, ReadAck(a)
      PROVE  LinkInv'
  <2>1. down' \subseteq down /\ UNCHANGED <<number, up, lost, dups, board>>
    BY <1>4 DEF ReadAck
  <2>2. \A t \in Caller :
           \/ call'[t] = call[t]
           \/ /\ call'[t] = [call[t] EXCEPT !.acked = TRUE]
              /\ BagIn(call[t].cue.seq, applied)
    BY <1>0, <1>4 DEF ReadAck, DownInv
  <2>3. \A t \in Caller :
           /\ call'[t] \in CallType
           /\ call'[t].at = call[t].at /\ call'[t].cue = call[t].cue
           /\ call'[t].attempt = call[t].attempt
           /\ call'[t].acked => call[t].acked \/ BagIn(call[t].cue.seq, applied)
    <3> SUFFICES ASSUME NEW t \in Caller
                 PROVE  /\ call'[t] \in CallType
                        /\ call'[t].at = call[t].at /\ call'[t].cue = call[t].cue
                        /\ call'[t].attempt = call[t].attempt
                        /\ call'[t].acked => call[t].acked \/ BagIn(call[t].cue.seq, applied)
      OBVIOUS
    <3>1. call[t] \in CallType
      BY <1>0
    <3>2. CASE call'[t] = call[t]
      BY <3>1, <3>2
    <3>3. CASE call'[t] = [call[t] EXCEPT !.acked = TRUE] /\ BagIn(call[t].cue.seq, applied)
      BY <3>1, <3>3 DEF CallType
    <3>4. QED
      BY <2>2, <3>2, <3>3
  <2>4. call' \in [Caller -> CallType]
    BY <1>4, <2>3 DEF ReadAck
  <2>5. TypeOK'
    BY <1>0, <2>1, <2>4 DEF TypeOK, CallType
  <2>6. CallInv'
    BY <1>0, <2>1, <2>3 DEF CallInv, Waiting
  <2>7. UpInv' /\ DownInv'
    BY <1>0, <2>1 DEF UpInv, DownInv
  <2>8. QED
    BY <2>5, <2>6, <2>7 DEF LinkInv
<1>5. ASSUME NEW m \in (Control \cup Curve) \X {0}, up' = up \cup {m},
             number' \in number..MaxNumber, m[1] \in Control /\ Auth => m[1].n > 0,
             UNCHANGED <<call, down, lost, dups, board>>
      PROVE  LinkInv'
  <2>1. m[1].kind # "cue" /\ (m[1].kind = "curve" \/ m[1] \in Control)
    BY DEF Control, Curve
  <2>2. m[1].kind = "curve" => ~(m[1].kind \in {"heartbeat", "safe"})
    OBVIOUS
  <2>3. \A k \in up : k[1].kind = "cue" => k[1].seq \in 1..MaxNumber
    BY <1>0, Kinds DEF Cue
  <2>4. UpInv'
    BY <1>0, <1>5, <2>1, <2>2, <2>3 DEF UpInv, Number
  <2>5. TypeOK'
    BY <1>0, <1>5 DEF TypeOK
  <2>6. CallInv'
    <3>1. \A t \in Caller : Waiting(t) => call[t].cue.seq \in 1..MaxNumber
      BY <1>0 DEF CallInv, Cue
    <3>2. QED
      BY <1>0, <1>5, <3>1 DEF CallInv, Waiting, Number
  <2>7. DownInv'
    BY <1>0, <1>5 DEF DownInv
  <2>8. QED
    BY <2>4, <2>5, <2>6, <2>7 DEF LinkInv
<1>6. ASSUME NEW kind \in {"heartbeat", "safe"}, Broadcast(kind)
      PROVE  LinkInv'
  <2> DEFINE c == [kind |-> kind, n |-> Number(number')]
  <2>1. number' \in number..MaxNumber /\ number' \in 1..MaxNumber
    BY <1>0, <1>6 DEF Broadcast
  <2>2. c \in Control /\ (Auth => c.n > 0)
    BY <2>1 DEF Control, Number
  <2>3. up' = up \cup {<<c, 0>>} /\ UNCHANGED <<call, down, lost, dups, board>>
    BY <1>6 DEF Broadcast
  <2>4. <<c, 0>> \in (Control \cup Curve) \X {0} /\ <<c, 0>>[1] = c
    BY <2>2
  <2>5. QED
    BY <1>5, <2>1, <2>2, <2>3, <2>4
<1>7. ASSUME NEW d \in Curved, SendCurve(d)
      PROVE  LinkInv'
  <2> DEFINE c == [kind |-> "curve", device |-> d]
  <2>1. c \in Curve /\ c \notin Control
    BY DEF Curve, Control
  <2>2. up' = up \cup {<<c, 0>>} /\ UNCHANGED <<number, call, down, lost, dups, board>>
    BY <1>7 DEF SendCurve
  <2>3. <<c, 0>> \in (Control \cup Curve) \X {0} /\ <<c, 0>>[1] = c
    BY <2>1
  <2>4. number' \in number..MaxNumber
    BY <1>0, <2>2
  <2>5. QED
    BY <1>5, <2>1, <2>2, <2>3, <2>4
<1>8. QED
  BY <1>1, <1>2, <1>3, <1>4, <1>6, <1>7 DEF Client

LEMMA LoseLink == LinkInv /\ Lose => LinkInv'
<1> SUFFICES ASSUME LinkInv, Lose PROVE LinkInv'
  OBVIOUS
<1>1. /\ up' \subseteq up /\ down' \subseteq down
      /\ UNCHANGED <<number, call, dups, board>>
  BY DEF Lose
<1>2. lost' \in 0..MaxLoss
  BY Constants DEF Lose, LinkInv, TypeOK
<1>3. TypeOK'
  BY <1>1, <1>2 DEF LinkInv, TypeOK, board
<1>4. QED
  BY <1>1, <1>3, NothingNew DEF LinkInv, board

-----------------------------------------------------------------------------

LEMMA BoardLink == LinkInv /\ Board => LinkInv'
<1> SUFFICES ASSUME LinkInv, Board PROVE LinkInv'
  OBVIOUS
<1> USE Constants
<1>0. TypeOK /\ CallInv /\ UpInv /\ DownInv
  BY DEF LinkInv
<1>1. ASSUME NEW m \in up, Replay(m)
      PROVE  LinkInv'
  <2>1. up' \subseteq up /\ dups' \in 0..MaxDup
    BY <1>0, <1>1, TakenLeaves DEF Replay
  <2>2. TypeOK'
    BY <1>0, <1>1, <2>1 DEF Replay, TypeOK, board
  <2>3. QED
    BY <1>0, <1>1, <2>1, <2>2, NothingNew DEF Replay, LinkInv, board
<1>2. ASSUME NEW m \in up, m[1].kind # "curve", highest' = Seen(m[1].n)
      PROVE  highest' \in 0..LaterClient
  BY <1>0, <1>2, Kinds DEF Seen, TypeOK
<1>3. ASSUME NEW m \in up, HandleCue(m)
      PROVE  LinkInv'
  <2> DEFINE c == m[1]
  <2>1. up' \subseteq up /\ dups' \in 0..MaxDup
    BY <1>0, <1>3, TakenLeaves DEF HandleCue
  <2>2. c \in Cue /\ m[2] \in 0..Retries
    BY <1>0, <1>3, Kinds DEF HandleCue
  <2>3. c.seq \in 1..MaxNumber /\ c.device \in Device /\ c.hold \in Nat
    BY <2>2 DEF Cue
  <2>4. highest' \in 0..LaterClient
    BY <1>2, <1>3 DEF HandleCue
  <2>5. UNCHANGED <<number, call, lost, boots, attached, heard, silence>>
    BY <1>3 DEF HandleCue
  <2>6. CASE c.device \notin attached
    <3>1. UNCHANGED <<on, left, applied, down>>
      BY <1>3, <2>6 DEF HandleCue
    <3>2. TypeOK'
      BY <1>0, <2>1, <2>4, <2>5, <3>1 DEF TypeOK
    <3>3. QED
      BY <1>0, <2>1, <2>5, <3>1, <3>2, NothingNew DEF LinkInv
  <2>7. CASE c.device \in attached
    <3>1. /\ MadeSafe({c.device}) \/ Started(c.device, c.hold)
          /\ applied' = applied (+) SetToBag({c.seq})
          /\ down' = down \cup {<<c.seq, m[2]>>}
      BY <1>3, <2>7 DEF HandleCue
    <3>2. /\ IsABag(applied') /\ BagToSet(applied') = BagToSet(applied) \cup {c.seq}
          /\ BagIn(c.seq, applied')
          /\ \A x : BagIn(x, applied) => BagIn(x, applied')
      BY <1>0, <3>1, AppliedGrows DEF TypeOK
    <3>3. /\ on' \subseteq attached
          /\ left' \in [Device -> Int] /\ \A d \in Device : left'[d] >= -1
      <4>1. CASE MadeSafe({c.device})
        BY <1>0, <4>1, MadeSafeType
      <4>2. CASE Started(c.device, c.hold)
        BY <1>0, <2>3, <2>7, <4>2 DEF Started, TypeOK
      <4>3. QED
        BY <3>1, <4>1, <4>2
    <3>4. TypeOK'
      <4>1. down' \subseteq (1..MaxNumber) \X (0..Retries)
        BY <1>0, <2>2, <2>3, <3>1 DEF TypeOK
      <4>2. BagToSet(applied') \subseteq 1..MaxNumber
        BY <1>0, <2>3, <3>2 DEF TypeOK
      <4>3. QED
        BY <1>0, <2>1, <2>4, <2>5, <3>2, <3>3, <4>1, <4>2 DEF TypeOK
    <3>5. CallInv'
      BY <1>0, <2>5, <3>2 DEF CallInv, Waiting
    <3>6. UpInv'
      BY <1>0, <2>1, <2>5 DEF UpInv
    <3>7. DownInv'
      <4>1. <<c.seq, m[2]>>[1] = c.seq
        OBVIOUS
      <4>2. \A a \in down' : a \in down \/ a[1] = c.seq
        BY <3>1, <4>1
      <4>3. QED
        BY <1>0, <3>2, <4>2 DEF DownInv
    <3>8. QED
      BY <3>4, <3>5, <3>6, <3>7 DEF LinkInv
  <2>8. QED
    BY <2>6, <2>7
<1>4. ASSUME NEW m \in up, HandleHeartbeat(m) \/ HandleSafe(m) \/ HandleCurve(m)
      PROVE  LinkInv'
  <2>1. up' \subseteq up /\ dups' \in 0..MaxDup
    BY <1>0, <1>4, TakenLeaves DEF HandleHeartbeat, HandleSafe, HandleCurve
  <2>2. UNCHANGED <<number, call, down, lost, boots, attached, applied>>
    BY <1>4 DEF HandleHeartbeat, HandleSafe, HandleCurve
  <2>3. highest' \in 0..LaterClient
    BY <1>0, <1>2, <1>4 DEF HandleHeartbeat, HandleSafe, HandleCurve, TypeOK
  <2>4. heard' \in BOOLEAN /\ silence' \in 0..(Timeout + 1)
    <3>1. \/ heard' = TRUE /\ silence' = 0
          \/ heard' = heard /\ silence' = silence
      BY <1>4 DEF HandleHeartbeat, HandleSafe, HandleCurve
    <3>2. heard \in BOOLEAN /\ silence \in 0..(Timeout + 1)
      BY <1>0 DEF TypeOK
    <3>3. heard' \in BOOLEAN
      BY <3>1, <3>2, Zenon
    <3>4. QED
      BY <3>1, <3>2, <3>3
  <2>5. /\ on' \subseteq attached
        /\ left' \in [Device -> Int] /\ \A d \in Device : left'[d] >= -1
    <3>1. CASE HandleHeartbeat(m) \/ HandleCurve(m)
      BY <1>0, <3>1 DEF HandleHeartbeat, HandleCurve, TypeOK
    <3>2. CASE HandleSafe(m)
      BY <1>0, <3>2, MadeSafeType DEF HandleSafe
    <3>3. QED
      BY <1>4, <3>1, <3>2
  <2>6. TypeOK'
    BY <1>0, <2>1, <2>2, <2>3, <2>4, <2>5 DEF TypeOK
  <2>7. QED
    BY <1>0, <2>1, <2>2, <2>6, NothingNew DEF LinkInv
<1>5. ASSUME UNCHANGED <<number, call, link, applied>>, TypeOK'
      PROVE  LinkInv'
  BY <1>0, <1>5, NothingNew DEF LinkInv, link
<1>6. CASE Visit
  <2>1. highest' \in 0..LaterClient
    BY <1>6 DEF Visit
  <2>2. TypeOK'
    BY <1>0, <1>6, <2>1 DEF Visit, TypeOK, link
  <2>3. QED
    BY <1>5, <1>6, <2>2 DEF Visit
<1>7. ASSUME NEW S \in Wirings, Configure(S)
      PROVE  LinkInv'
  <2>1. /\ on' = {} /\ left' \in [Device -> Int]
        /\ \A d \in Device : left'[d] >= -1
    BY <1>0, <1>7, MadeSafeType DEF Configure
  <2>2. highest' \in 0..LaterClient /\ attached' \subseteq Device
    BY <1>7 DEF Configure
  <2>3. TypeOK'
    BY <1>0, <1>7, <2>1, <2>2 DEF Configure, TypeOK, link
  <2>4. QED
    BY <1>5, <1>7, <2>3 DEF Configure
<1>8. CASE Watchdog
  <2>1. /\ on' \subseteq attached
        /\ left' \in [Device -> Int] /\ \A d \in Device : left'[d] >= -1
    BY <1>0, <1>8, MadeSafeType DEF Watchdog
  <2>2. TypeOK'
    BY <1>0, <1>8, <2>1 DEF Watchdog, TypeOK, link
  <2>3. QED
    BY <1>5, <1>8, <2>2 DEF Watchdog
<1>9. CASE Reboot
  <2>1. /\ on' \subseteq attached
        /\ left' \in [Device -> Int] /\ \A d \in Device : left'[d] >= -1
    BY <1>0, <1>9, MadeSafeType DEF Reboot
  <2>2. boots' \in 0..MaxBoots
    BY <1>0, <1>9 DEF Reboot, TypeOK
  <2>3. heard' \in BOOLEAN
    BY <1>9, Zenon DEF Reboot
  <2>4. silence' \in 0..(Timeout + 1) /\ highest' \in 0..LaterClient
    BY <1>9 DEF Reboot
  <2>5. TypeOK'
    BY <1>0, <1>9, <2>1, <2>2, <2>3, <2>4 DEF Reboot, TypeOK, link
  <2>6. QED
    BY <1>5, <1>9, <2>5 DEF Reboot
<1>10. QED
  BY <1>1, <1>3, <1>4, <1>6, <1>7, <1>8, <1>9 DEF Board

LEMMA AgeLink == LinkInv /\ Age => LinkInv'
<1> SUFFICES ASSUME LinkInv, Age PROVE LinkInv'
  OBVIOUS
<1>0. TypeOK /\ CallInv /\ UpInv /\ DownInv
  BY DEF LinkInv
<1>1. silence' \in 0..(Timeout + 1)
  BY <1>0, Constants DEF Age, TypeOK
<1>2. left' \in [Device -> Int] /\ \A d \in Device : left'[d] >= -1
  BY <1>0 DEF Age, TypeOK
<1>3. TypeOK'
  BY <1>0, <1>1, <1>2 DEF Age, TypeOK, link
<1>4. QED
  BY <1>0, <1>3, NothingNew DEF Age, LinkInv, link

LEMMA NextLink == LinkInv /\ [Next]_vars => LinkInv'
<1>1. LinkInv /\ UNCHANGED vars => LinkInv'
  <2> SUFFICES ASSUME LinkInv, UNCHANGED vars PROVE LinkInv'
    OBVIOUS
  <2>1. TypeOK'
    BY DEF LinkInv, TypeOK, vars, link, board
  <2>2. QED
    BY <2>1, NothingNew DEF LinkInv, vars, link, board
<1>2. QED
  BY <1>1, ClientLink, LoseLink, BoardLink, AgeLink DEF Next

\* The inductive invariant holds in every reachable state.
THEOREM LinkInvariant == Spec => []LinkInv
  BY InitLink, NextLink, PTL DEF Spec

\* Every variable keeps its type: no number, attempt, hold or loss escapes its
\* bound and a device that is on is one the board has.
THEOREM TypeHolds == Spec => []TypeOK
<1>1. LinkInv => TypeOK
  BY DEF LinkInv
<1>2. QED
  BY <1>1, LinkInvariant, PTL
-----------------------------------------------------------------------------
(* The refinement, for boards that have a secret *)

LEMMA InitDelivers == Init => Delivery!Init
  BY DEF Init, Delivery!Init, Waiting, EmptyBag, Delivery!EmptyBag, SetToBag,
         Delivery!SetToBag

LEMMA ClientDelivers == LinkInv /\ Client => [Delivery!Next]_Delivery!vars
<1> SUFFICES ASSUME LinkInv, Client PROVE [Delivery!Next]_Delivery!vars
  OBVIOUS
<1> USE DEF link, board
<1> DEFINE Open == [t \in Caller |-> IF Waiting(t) THEN call[t].cue.seq ELSE 0]
           Answer == [t \in Caller |-> IF call[t].at \in {"acked", "skipped"}
                                       THEN call[t].at ELSE "none"]
<1>0. TypeOK /\ CallInv /\ DownInv /\ call \in [Caller -> CallType] /\ number \in Nat
  BY DEF LinkInv, TypeOK, CallType
<1>1. ASSUME NEW t \in Caller, NEW d \in Device, NEW a, NEW h, Dispatch(t, d, a, h)
      PROVE  Delivery!Begin(t)
  <2>1. /\ call'[t].at = "sending" /\ call'[t].cue.seq = number + 1
        /\ \A u \in Caller : u # t => call'[u] = call[u]
        /\ number' = number + 1 /\ UNCHANGED <<applied, highest>>
        /\ ~Waiting(t)
    BY <1>0, <1>1 DEF Dispatch, Waiting
  <2>2. Open' = [Open EXCEPT ![t] = number + 1]
    BY <2>1 DEF Waiting
  <2>3. Answer' = [Answer EXCEPT ![t] = "none"]
    BY <2>1
  <2>4. Open[t] = 0
    BY <2>1
  <2>5. QED
    BY <2>1, <2>2, <2>3, <2>4 DEF Delivery!Begin
<1>2. ASSUME NEW t \in Caller, NEW s \in {"acked", "skipped"}, Waiting(t),
             call' = [call EXCEPT ![t].at = s],
             s = "acked" => BagIn(call[t].cue.seq, applied),
             UNCHANGED <<number, applied, highest>>
      PROVE  Delivery!Return(t, s)
  <2>1. call'[t].at = s /\ \A u \in Caller : u # t => call'[u] = call[u]
    BY <1>0, <1>2 DEF CallType
  <2>2. Open' = [Open EXCEPT ![t] = 0]
    BY <2>1 DEF Waiting
  <2>3. Answer' = [Answer EXCEPT ![t] = s]
    BY <2>1
  <2>4. Open[t] = call[t].cue.seq /\ Open[t] # 0
    BY <1>0, <1>2 DEF CallInv, Cue
  <2>5. QED
    BY <1>2, <2>2, <2>3, <2>4 DEF Delivery!Return, BagIn, Delivery!BagIn, BagToSet,
       Delivery!BagToSet
<1>3. ASSUME UNCHANGED <<number, applied, highest>>,
             \A t \in Caller : /\ Waiting(t)' <=> Waiting(t)
                               /\ call'[t].cue = call[t].cue
                               /\ ~Waiting(t) => call'[t].at = call[t].at
      PROVE  UNCHANGED Delivery!vars
  <2>1. Open' = Open
    BY <1>3
  <2>2. Answer' = Answer
    BY <1>3 DEF Waiting
  <2>3. QED
    BY <1>3, <2>1, <2>2 DEF Delivery!vars
<1>4. ASSUME NEW t \in Caller, Attempt(t)
      PROVE  UNCHANGED Delivery!vars
  BY <1>0, <1>3, <1>4 DEF Attempt, Waiting, CallType
<1>5. ASSUME NEW t \in Caller, Acknowledged(t)
      PROVE  Delivery!Return(t, "acked")
  BY <1>0, <1>2, <1>5 DEF Acknowledged, Waiting, CallInv
<1>6. ASSUME NEW t \in Caller, TimerFires(t)
      PROVE  Delivery!Return(t, "skipped") \/ UNCHANGED Delivery!vars
  <2>1. CASE call[t].attempt < Retries
    BY <1>0, <1>3, <1>6, <2>1 DEF TimerFires, Waiting, CallType
  <2>2. CASE ~(call[t].attempt < Retries)
    BY <1>0, <1>2, <1>6, <2>2 DEF TimerFires, Waiting
  <2>3. QED
    BY <2>1, <2>2
<1>7. ASSUME NEW a \in down, ReadAck(a)
      PROVE  UNCHANGED Delivery!vars
  <2>1. \A t \in Caller : call'[t].at = call[t].at /\ call'[t].cue = call[t].cue
    BY <1>0, <1>7 DEF ReadAck, CallType
  <2>2. QED
    BY <1>3, <1>7, <2>1 DEF ReadAck, Waiting
<1>8. ASSUME NEW kind, Broadcast(kind)
      PROVE  Delivery!Issue
  <2>1. number' = number + 1 /\ UNCHANGED <<call, applied, highest>>
    BY <1>8 DEF Broadcast
  <2>2. Open' = Open /\ Answer' = Answer
    BY <2>1 DEF Waiting
  <2>3. QED
    BY <2>1, <2>2 DEF Delivery!Issue
<1>9. ASSUME NEW d, SendCurve(d)
      PROVE  UNCHANGED Delivery!vars
  BY <1>3, <1>9 DEF SendCurve, Waiting
<1>10. QED
  BY <1>1, <1>4, <1>5, <1>6, <1>7, <1>8, <1>9 DEF Client, Delivery!Next

\* A step that leaves the client's calls alone is judged by what the board has
\* applied and seen.
LEMMA BoardSteps ==
    ASSUME UNCHANGED <<number, call>>
    PROVE  /\ UNCHANGED <<applied, highest>> => UNCHANGED Delivery!vars
           /\ applied' = applied /\ highest' > highest => Delivery!Pass
           /\ applied' = applied /\ highest' = 0 => Delivery!Restart
           /\ \A c : /\ highest < c /\ c <= number /\ highest' = c
                     /\ applied' = applied (+) SetToBag({c})
                  => Delivery!Apply(c)
  BY DEF Waiting, Delivery!vars, Delivery!Pass, Delivery!Restart, Delivery!Apply,
         SetToBag, Delivery!SetToBag, (+), Delivery!(+)

LEMMA BoardDelivers ==
    Auth /\ LinkInv /\ (Board \/ Lose \/ Age \/ UNCHANGED vars)
      => [Delivery!Next]_Delivery!vars
<1> SUFFICES ASSUME Auth, LinkInv, Board \/ Lose \/ Age \/ UNCHANGED vars
             PROVE  [Delivery!Next]_Delivery!vars
  OBVIOUS
<1> USE DEF link, board
<1>0. TypeOK /\ UpInv /\ number \in Nat /\ highest \in 0..LaterClient /\ LaterClient \in Nat
  BY Constants DEF LinkInv, TypeOK
<1>1. ASSUME UNCHANGED <<number, call, applied, highest>>
      PROVE  [Delivery!Next]_Delivery!vars
  BY <1>1, BoardSteps
<1>2. ASSUME UNCHANGED <<number, call, applied>>, highest' > highest \/ highest' = 0
      PROVE  [Delivery!Next]_Delivery!vars
  BY <1>2, BoardSteps DEF Delivery!Next
<1>3. ASSUME NEW m \in up, m[1].kind # "curve", Accepts(m[1].n), m[1].n > 0,
             highest' = Seen(m[1].n)
      PROVE  highest' = m[1].n /\ highest' > highest
  BY <1>0, <1>3, Kinds DEF Accepts, Seen
<1>4. ASSUME NEW m \in up, HandleCue(m)
      PROVE  [Delivery!Next]_Delivery!vars
  <2> DEFINE c == m[1].seq
  <2>1. /\ m[1].kind = "cue" /\ m[1] \in Cue /\ c \in 1..MaxNumber
        /\ c <= number /\ m[1].n = c
    BY <1>0, <1>4, Kinds DEF HandleCue, Cue, UpInv, Number
  <2>2. highest' = c /\ highest' > highest /\ highest < c
    BY <1>0, <1>3, <1>4, <2>1 DEF HandleCue
  <2>3. UNCHANGED <<number, call>>
    BY <1>4 DEF HandleCue
  <2>4. CASE m[1].device \in attached
    <3>1. applied' = applied (+) SetToBag({c})
      BY <1>4, <2>4 DEF HandleCue
    <3>2. Delivery!Apply(c)
      BY <2>1, <2>2, <2>3, <3>1, BoardSteps
    <3>3. c \in 1..number
      BY <1>0, <2>1
    <3>4. QED
      BY <3>2, <3>3 DEF Delivery!Next
  <2>5. CASE m[1].device \notin attached
    BY <1>2, <1>4, <2>2, <2>5 DEF HandleCue
  <2>6. QED
    BY <2>4, <2>5
<1>5. ASSUME NEW m \in up, HandleHeartbeat(m) \/ HandleSafe(m)
      PROVE  [Delivery!Next]_Delivery!vars
  <2>1. /\ m[1].kind \in {"heartbeat", "safe"} /\ m[1].n > 0 /\ m[1].kind # "curve"
    BY <1>0, <1>5 DEF HandleHeartbeat, HandleSafe, UpInv
  <2>2. highest' > highest
    BY <1>3, <1>5, <2>1 DEF HandleHeartbeat, HandleSafe
  <2>3. QED
    BY <1>2, <1>5, <2>2 DEF HandleHeartbeat, HandleSafe
<1>6. ASSUME NEW m \in up, Replay(m) \/ HandleCurve(m)
      PROVE  [Delivery!Next]_Delivery!vars
  BY <1>1, <1>6 DEF Replay, HandleCurve
<1>7. ASSUME Visit \/ (\E S \in Wirings : Configure(S))
      PROVE  [Delivery!Next]_Delivery!vars
  <2>1. UNCHANGED <<number, call, applied>> /\ highest' = LaterClient
    BY <1>7 DEF Visit, Configure
  <2>2. highest' = highest \/ highest' > highest
    BY <1>0, <2>1
  <2>3. QED
    BY <1>1, <1>2, <2>1, <2>2
<1>8. CASE Watchdog \/ Lose \/ Age \/ UNCHANGED vars
  BY <1>1, <1>8 DEF Watchdog, Lose, Age, vars
<1>9. CASE Reboot
  BY <1>2, <1>9 DEF Reboot
<1>10. QED
  BY <1>4, <1>5, <1>6, <1>7, <1>8, <1>9 DEF Board

\* Every behaviour of client, network and board is one that Dispatch promises:
\* at most once between restarts, in order, and acknowledged only if applied
\* (remote.go:51).
THEOREM LinkDelivers == ASSUME Auth PROVE Spec => KeepsItsPromise
<1>1. LinkInv /\ [Next]_vars => [Delivery!Next]_Delivery!vars
  BY ClientDelivers, BoardDelivers DEF Next
<1>2. QED
  BY <1>1, InitDelivers, LinkInvariant, PTL DEF Spec, KeepsItsPromise, Delivery!Spec

\* No device is stopped on account of another one, by any handler, timer or
\* datagram (docs/cip.md:210).
THEOREM DevicesStopForThemselves == Spec => StopsForItsOwnReasons
<1> DEFINE Reason(d) ==
      \/ Expired(d) \/ Overdue
      \/ \E m \in up : \/ m[1].kind = "safe"
                       \/ m[1].kind = "cue" /\ m[1].device = d
                          /\ m[1].action = "stop"
      \/ boots' # boots \/ (highest' = LaterClient /\ on' = {})
<1>1. ASSUME TypeOK, [Next]_vars
      PROVE  [\A d \in on \ on' : Reason(d)]_vars
  <2> USE DEF link, board
  <2>1. ASSUME NEW m \in up, HandleCue(m)
        PROVE  \A d \in on \ on' : Reason(d)
    BY <2>1 DEF HandleCue, MadeSafe, Started
  <2>2. ASSUME NEW m \in up, HandleSafe(m)
        PROVE  \A d \in on \ on' : Reason(d)
    BY <2>2 DEF HandleSafe
  <2>3. ASSUME NEW m \in up, Replay(m) \/ HandleHeartbeat(m) \/ HandleCurve(m)
        PROVE  on \subseteq on'
    BY <2>3 DEF Replay, HandleHeartbeat, HandleCurve
  <2>4. CASE Visit \/ (\E S \in Wirings : Configure(S))
    BY <1>1, <2>4 DEF Visit, Configure, MadeSafe, TypeOK
  <2>5. CASE Watchdog
    BY <2>5 DEF Watchdog, MadeSafe
  <2>6. CASE Reboot
    <3>1. boots' = boots + 1 /\ boots \in Nat
      BY <1>1, <2>6, Constants DEF Reboot, TypeOK
    <3>2. QED
      BY <3>1
  <2>7. Client \/ Lose \/ Age \/ UNCHANGED vars => on' = on
    BY DEF Client, Dispatch, Attempt, Acknowledged, TimerFires, ReadAck, Broadcast,
           SendCurve, Lose, Age, vars
  <2>8. QED
    BY <1>1, <2>1, <2>2, <2>3, <2>4, <2>5, <2>6, <2>7 DEF Next, Board
<1>2. QED
  BY <1>1, TypeHolds, PTL DEF Spec, StopsForItsOwnReasons

-----------------------------------------------------------------------------
(* The retries, for boards without a secret on a network that is never late *)

\* The attempts of a call that are no longer on their way, in either direction.
Fallen(t) ==
    {a \in 0..(call[t].attempt - 1) :
        <<call[t].cue, a>> \notin up /\ <<call[t].cue.seq, a>> \notin down}

\* Every attempt that fell without an answer took a loss of its own with it.
RetryInv ==
    \A t \in Caller :
        /\ Waiting(t) /\ ~call[t].acked => Cardinality(Fallen(t)) <= lost
        /\ call[t].at = "skipped" => Retries <= lost

\* Nobody counts, so the board turns nothing away and keeps its devices.
PlainInv ==
    /\ attached = Device
    /\ \A m \in up : m[1].kind # "curve" => m[1].n = 0

LossInv == LinkInv /\ PlainInv /\ RetryInv

LEMMA FallenIsFinite ==
    ASSUME TypeOK, NEW t \in Caller
    PROVE  IsFiniteSet(Fallen(t)) /\ Cardinality(Fallen(t)) \in Nat
<1>1. call[t].attempt - 1 \in Int
  BY Constants DEF TypeOK
<1>2. IsFiniteSet(0..(call[t].attempt - 1))
  BY <1>1, FS_Interval
<1>3. Fallen(t) \in SUBSET (0..(call[t].attempt - 1))
  BY DEF Fallen
<1>4. IsFiniteSet(Fallen(t))
  BY <1>2, <1>3, FS_Subset
<1>5. QED
  BY <1>4, FS_CardinalityType

\* A call whose attempts are all still on their way, or fell before.
LEMMA NoneFalls ==
    ASSUME TypeOK, TypeOK', NEW t \in Caller, Fallen(t)' \subseteq Fallen(t)
    PROVE  /\ Cardinality(Fallen(t)') <= Cardinality(Fallen(t))
           /\ Cardinality(Fallen(t)) \in Nat /\ Cardinality(Fallen(t)') \in Nat
<1>1. IsFiniteSet(Fallen(t)) /\ Fallen(t)' \in SUBSET Fallen(t)
  BY FallenIsFinite
<1>2. IsFiniteSet(Fallen(t)') /\ Cardinality(Fallen(t)') <= Cardinality(Fallen(t))
  BY <1>1, FS_Subset
<1>3. QED
  BY <1>1, <1>2, FS_CardinalityType

\* One more fell.
LEMMA OneFalls ==
    ASSUME TypeOK, TypeOK', NEW t \in Caller, NEW a, Fallen(t)' \subseteq Fallen(t) \cup {a}
    PROVE  /\ Cardinality(Fallen(t)') <= Cardinality(Fallen(t)) + 1
           /\ Cardinality(Fallen(t)) \in Nat /\ Cardinality(Fallen(t)') \in Nat
<1>1. IsFiniteSet(Fallen(t)) /\ Cardinality(Fallen(t)) \in Nat
  BY FallenIsFinite
<1>2. /\ IsFiniteSet(Fallen(t) \cup {a})
      /\ Cardinality(Fallen(t) \cup {a}) <= Cardinality(Fallen(t)) + 1
  BY <1>1, FS_AddElement
<1>3. Fallen(t)' \in SUBSET (Fallen(t) \cup {a})
  OBVIOUS
<1>4. /\ Cardinality(Fallen(t)') <= Cardinality(Fallen(t) \cup {a})
      /\ Cardinality(Fallen(t) \cup {a}) \in Nat
      /\ Cardinality(Fallen(t)') \in Nat
  BY <1>2, <1>3, FS_Subset, FS_CardinalityType
<1>5. QED
  BY <1>1, <1>2, <1>4

\* Calls that a step leaves alone, when no datagram of theirs goes missing.
LEMMA CallsKept ==
    ASSUME LossInv, TypeOK', UNCHANGED <<call, lost>>,
           \A t \in Caller : Waiting(t) /\ ~call[t].acked => Fallen(t)' \subseteq Fallen(t)
    PROVE  RetryInv'
<1> SUFFICES ASSUME NEW t \in Caller
             PROVE  /\ Waiting(t)' /\ ~call'[t].acked => Cardinality(Fallen(t)') <= lost'
                    /\ call'[t].at = "skipped" => Retries <= lost'
  BY DEF RetryInv
<1>1. TypeOK /\ (Waiting(t)' <=> Waiting(t)) /\ lost \in Nat
  BY Constants DEF LossInv, LinkInv, Waiting, TypeOK
<1>2. call[t].at = "skipped" => Retries <= lost
  BY DEF LossInv, RetryInv
<1>3. ASSUME Waiting(t), ~call[t].acked PROVE Cardinality(Fallen(t)') <= lost
  <2>1. Fallen(t)' \subseteq Fallen(t)
    BY <1>3
  <2>2. /\ Cardinality(Fallen(t)') <= Cardinality(Fallen(t))
        /\ Cardinality(Fallen(t)) \in Nat /\ Cardinality(Fallen(t)') \in Nat
    BY <1>1, <2>1, NoneFalls
  <2>3. Cardinality(Fallen(t)) <= lost
    BY <1>3 DEF LossInv, RetryInv
  <2>4. QED
    BY <1>1, <2>2, <2>3
<1>4. QED
  BY <1>1, <1>2, <1>3

LEMMA InitLosses == ASSUME ~Auth PROVE Init => LossInv
<1> SUFFICES ASSUME Init PROVE LossInv
  OBVIOUS
<1>1. LinkInv
  BY InitLink
<1>2. \A t \in Caller : call[t].at = "idle"
  BY DEF Init
<1>3. QED
  BY <1>1, <1>2 DEF LossInv, PlainInv, RetryInv, Waiting, Init

\* The board turns nothing away and takes no new configuration.
LEMMA NextPlain ==
    ASSUME ~Auth, LossInv, LinkInv', [Next]_vars
    PROVE  PlainInv'
<1> USE DEF link, board
<1>0. LinkInv /\ PlainInv
  BY DEF LossInv
<1>1. attached' = attached
  <2>1. Client => attached' = attached
    BY DEF Client, Dispatch, Attempt, Acknowledged, TimerFires, ReadAck, Broadcast, SendCurve
  <2>2. Board => attached' = attached
    BY DEF Board, Replay, HandleCue, HandleHeartbeat, HandleSafe, HandleCurve, Visit,
           Configure, Watchdog, Reboot
  <2>3. QED
    BY <2>1, <2>2 DEF Next, Lose, Age, vars
<1>2. \A m \in up' : m \in up \/ m[1].kind \in {"cue", "curve"} \/ m[1].n = 0
  <2>1. ASSUME NEW t \in Caller, Attempt(t)
        PROVE  \A m \in up' : m \in up \/ m[1].kind = "cue"
    <3>1. call[t].cue \in Cue
      BY <1>0, <2>1 DEF Attempt, LinkInv, CallInv, Waiting
    <3>2. QED
      BY <2>1, <3>1 DEF Attempt, Cue
  <2>2. ASSUME NEW kind, Broadcast(kind)
        PROVE  \A m \in up' : m \in up \/ m[1].n = 0
    BY <2>2 DEF Broadcast, Number
  <2>3. ASSUME NEW d, SendCurve(d)
        PROVE  \A m \in up' : m \in up \/ m[1].kind = "curve"
    BY <2>3 DEF SendCurve
  <2>4. Board => up' \subseteq up
    BY DEF Board, Replay, HandleCue, HandleHeartbeat, HandleSafe, HandleCurve, Taken,
           Visit, Configure, Watchdog, Reboot
  <2>5. Client => \/ UNCHANGED up
                  \/ \E t \in Caller : Attempt(t)
                  \/ \E kind : Broadcast(kind)
                  \/ \E d : SendCurve(d)
    BY DEF Client, Dispatch, Acknowledged, TimerFires, ReadAck
  <2>6. Lose \/ Age \/ UNCHANGED vars => up' \subseteq up
    BY DEF Lose, Age, vars
  <2>7. QED
    BY <2>1, <2>2, <2>3, <2>4, <2>5, <2>6 DEF Next
<1>3. \A m \in up' : m[1].kind = "cue" => m[1].n = 0
  BY DEF LinkInv, UpInv, Number
<1>4. QED
  BY <1>0, <1>1, <1>2, <1>3 DEF PlainInv

\* What a step of one caller has to show of its call.
LEMMA CallCounts ==
    ASSUME LossInv, TypeOK', NEW t \in Caller, UNCHANGED <<down, lost>>, up \subseteq up',
           \A u \in Caller \ {t} : call'[u] = call[u],
           call'[t].at \in {"sending", "waiting"} /\ ~call'[t].acked
             => Cardinality(Fallen(t)') <= lost,
           call'[t].at = "skipped" => Retries <= lost
    PROVE  RetryInv'
<1> SUFFICES ASSUME NEW u \in Caller
             PROVE  /\ Waiting(u)' /\ ~call'[u].acked => Cardinality(Fallen(u)') <= lost'
                    /\ call'[u].at = "skipped" => Retries <= lost'
  BY DEF RetryInv
<1>1. CASE u = t
  BY <1>1 DEF Waiting
<1>2. CASE u # t
  <2>1. call'[u] = call[u] /\ Fallen(u)' \subseteq Fallen(u)
    BY <1>2 DEF Fallen
  <2>2. TypeOK /\ lost \in Nat
    BY Constants DEF LossInv, LinkInv, TypeOK
  <2>3. /\ Cardinality(Fallen(u)') <= Cardinality(Fallen(u))
        /\ Cardinality(Fallen(u)) \in Nat /\ Cardinality(Fallen(u)') \in Nat
    BY <2>1, <2>2, NoneFalls
  <2>4. QED
    BY <2>1, <2>2, <2>3 DEF LossInv, RetryInv, Waiting
<1>3. QED
  BY <1>1, <1>2

LEMMA ClientCounts ==
    ASSUME Prompt, LossInv, LinkInv', Client
    PROVE  RetryInv'
<1> USE Constants DEF board, link
<1>0. /\ TypeOK /\ TypeOK' /\ lost \in Nat
      /\ call \in [Caller -> CallType]
  BY DEF LossInv, LinkInv, TypeOK, CallType
<1>1. ASSUME NEW t \in Caller, NEW d \in Device, NEW a \in {"start", "stop"},
             NEW h \in Holds, Dispatch(t, d, a, h)
      PROVE  RetryInv'
  <2>1. /\ UNCHANGED <<up, down, lost>> /\ call'[t].at = "sending" /\ call'[t].attempt = 0
        /\ \A u \in Caller \ {t} : call'[u] = call[u]
    BY <1>0, <1>1 DEF Dispatch
  <2>2. Fallen(t)' = {}
    BY <2>1 DEF Fallen
  <2>3. Cardinality(Fallen(t)') <= lost
    BY <1>0, <2>2, FS_EmptySet
  <2>4. QED
    BY <1>0, <2>1, <2>3, CallCounts
<1>2. ASSUME NEW t \in Caller, Attempt(t)
      PROVE  RetryInv'
  <2>1. /\ UNCHANGED <<down, lost>> /\ up' = up \cup {<<call[t].cue, call[t].attempt>>}
        /\ call[t].at = "sending" /\ call'[t].at = "waiting"
        /\ call'[t].attempt = call[t].attempt + 1
        /\ call'[t].cue = call[t].cue /\ call'[t].acked = call[t].acked
        /\ \A u \in Caller \ {t} : call'[u] = call[u]
    BY <1>0, <1>2 DEF Attempt, CallType
  <2>2. call[t].attempt \in Nat
    BY <1>0 DEF CallType
  <2>3. Fallen(t)' \subseteq Fallen(t)
    BY <2>1, <2>2 DEF Fallen
  <2>4. /\ Cardinality(Fallen(t)') <= Cardinality(Fallen(t))
        /\ Cardinality(Fallen(t)) \in Nat /\ Cardinality(Fallen(t)') \in Nat
    BY <1>0, <2>3, NoneFalls
  <2>5. ~call[t].acked => Cardinality(Fallen(t)) <= lost
    BY <2>1 DEF LossInv, RetryInv, Waiting
  <2>6. ~call'[t].acked => Cardinality(Fallen(t)') <= lost
    BY <1>0, <2>1, <2>4, <2>5
  <2>7. QED
    BY <1>0, <2>1, <2>6, CallCounts
<1>3. ASSUME NEW t \in Caller, Acknowledged(t)
      PROVE  RetryInv'
  <2>1. /\ UNCHANGED <<up, down, lost>> /\ call'[t].at = "acked"
        /\ \A u \in Caller \ {t} : call'[u] = call[u]
    BY <1>0, <1>3 DEF Acknowledged, CallType
  <2>2. QED
    BY <1>0, <2>1, CallCounts
<1>4. ASSUME NEW t \in Caller, TimerFires(t)
      PROVE  RetryInv'
  <2>1. /\ UNCHANGED <<up, down, lost>> /\ call[t].at = "waiting" /\ ~call[t].acked
        /\ ~InFlight(call[t].cue.seq)
        /\ call' = [call EXCEPT ![t].at =
                      IF call[t].attempt < Retries THEN "sending" ELSE "skipped"]
    BY <1>4 DEF TimerFires
  <2>2. /\ call'[t] = [call[t] EXCEPT !.at =
                         IF call[t].attempt < Retries THEN "sending" ELSE "skipped"]
        /\ \A u \in Caller \ {t} : call'[u] = call[u]
    BY <1>0, <2>1
  <2>3. /\ call'[t].attempt = call[t].attempt /\ call'[t].cue = call[t].cue
        /\ call'[t].at = IF call[t].attempt < Retries THEN "sending" ELSE "skipped"
        /\ call[t].attempt \in 0..Retries
    BY <1>0, <2>2 DEF CallType
  <2>4. Cardinality(Fallen(t)) <= lost
    BY <2>1 DEF LossInv, RetryInv, Waiting
  <2>5. Fallen(t)' = Fallen(t)
    BY <2>1, <2>3 DEF Fallen
  <2>6. call'[t].at = "skipped" => Retries <= lost
    <3> SUFFICES ASSUME call[t].attempt = Retries PROVE Retries <= lost
      BY <2>3
    <3>1. call[t].cue \in Cue
      BY <2>1 DEF LossInv, LinkInv, CallInv, Waiting
    <3>2. Fallen(t) = 0..(Retries - 1)
      BY <2>1, <3>1 DEF Fallen, InFlight, Cue
    <3>3. Cardinality(Fallen(t)) = Retries
      BY <3>2, FS_Interval
    <3>4. QED
      BY <2>4, <3>3
  <2>7. QED
    BY <1>0, <2>1, <2>2, <2>4, <2>5, <2>6, CallCounts
<1>5. ASSUME NEW a \in down, ReadAck(a)
      PROVE  RetryInv'
  <2> SUFFICES ASSUME NEW t \in Caller
               PROVE  /\ Waiting(t)' /\ ~call'[t].acked => Cardinality(Fallen(t)') <= lost'
                      /\ call'[t].at = "skipped" => Retries <= lost'
    BY DEF RetryInv
  <2>1. /\ UNCHANGED <<up, lost>> /\ down' = down \ {a}
        /\ call'[t] = IF call[t].cue.seq = a[1] /\ call[t].at \in {"sending", "waiting"}
                      THEN [call[t] EXCEPT !.acked = TRUE] ELSE call[t]
    BY <1>5 DEF ReadAck
  <2>2. call'[t].at = call[t].at
    BY <1>0, <2>1 DEF CallType
  <2>3. call[t].at = "skipped" => Retries <= lost
    BY DEF LossInv, RetryInv
  <2>4. ASSUME Waiting(t)', ~call'[t].acked PROVE Cardinality(Fallen(t)') <= lost
    <3>1. Waiting(t)
      BY <2>2, <2>4 DEF Waiting
    <3>2. ~(call[t].cue.seq = a[1]) /\ call'[t] = call[t]
      <4>1. CASE call[t].cue.seq = a[1]
        <5>1. call'[t] = [call[t] EXCEPT !.acked = TRUE]
          BY <2>1, <3>1, <4>1 DEF Waiting
        <5>2. call'[t].acked = TRUE
          BY <1>0, <5>1 DEF CallType
        <5>3. QED
          BY <2>4, <5>2
      <4>2. CASE call[t].cue.seq # a[1]
        BY <2>1, <4>2
      <4>3. QED
        BY <4>1, <4>2
    <3>3. Fallen(t)' \subseteq Fallen(t)
      BY <2>1, <3>2 DEF Fallen
    <3>4. /\ Cardinality(Fallen(t)') <= Cardinality(Fallen(t))
          /\ Cardinality(Fallen(t)) \in Nat /\ Cardinality(Fallen(t)') \in Nat
      BY <1>0, <3>3, NoneFalls
    <3>5. Cardinality(Fallen(t)) <= lost
      BY <2>4, <3>1, <3>2 DEF LossInv, RetryInv
    <3>6. QED
      BY <1>0, <3>4, <3>5
  <2>5. QED
    BY <2>1, <2>2, <2>3, <2>4
<1>6. ASSUME up \subseteq up', UNCHANGED <<call, down, lost>>
      PROVE  RetryInv'
  BY <1>0, <1>6, CallsKept DEF Fallen
<1>7. (\E kind : Broadcast(kind)) \/ (\E d : SendCurve(d)) => RetryInv'
  BY <1>6 DEF Broadcast, SendCurve
<1>8. QED
  BY <1>1, <1>2, <1>3, <1>4, <1>5, <1>7 DEF Client

\* A datagram lost is one attempt of one call at most.
LEMMA LoseCounts ==
    ASSUME LossInv, LinkInv', Lose
    PROVE  RetryInv'
<1> SUFFICES ASSUME NEW t \in Caller
             PROVE  /\ Waiting(t)' /\ ~call'[t].acked => Cardinality(Fallen(t)') <= lost'
                    /\ call'[t].at = "skipped" => Retries <= lost'
  BY DEF RetryInv
<1>1. /\ TypeOK /\ TypeOK' /\ lost \in Nat /\ lost' = lost + 1 /\ call' = call
      /\ Retries \in Nat
  BY Constants DEF LossInv, LinkInv, TypeOK, Lose
<1>2. PICK a : Fallen(t)' \subseteq Fallen(t) \cup {a}
  <2>1. CASE \E m \in up : up' = up \ {m} /\ down' = down
    <3>1. PICK m \in up : up' = up \ {m} /\ down' = down
      BY <2>1
    <3>2. Fallen(t)' \subseteq Fallen(t) \cup {m[2]}
      BY <1>1, <3>1 DEF Fallen
    <3>3. QED
      BY <3>2
  <2>2. CASE \E b \in down : down' = down \ {b} /\ up' = up
    <3>1. PICK b \in down : down' = down \ {b} /\ up' = up
      BY <2>2
    <3>2. Fallen(t)' \subseteq Fallen(t) \cup {b[2]}
      BY <1>1, <3>1 DEF Fallen
    <3>3. QED
      BY <3>2
  <2>3. QED
    BY <2>1, <2>2 DEF Lose
<1>3. /\ Cardinality(Fallen(t)') <= Cardinality(Fallen(t)) + 1
      /\ Cardinality(Fallen(t)) \in Nat /\ Cardinality(Fallen(t)') \in Nat
  BY <1>1, <1>2, OneFalls
<1>4. /\ Waiting(t) /\ ~call[t].acked => Cardinality(Fallen(t)) <= lost
      /\ call[t].at = "skipped" => Retries <= lost
  BY DEF LossInv, RetryInv
<1>5. Waiting(t)' <=> Waiting(t)
  BY <1>1 DEF Waiting
<1>6. QED
  BY <1>1, <1>3, <1>4, <1>5

\* The board answers every attempt that reaches it, and drops no other cue.
LEMMA BoardCounts ==
    ASSUME ~Auth, LossInv, LinkInv', Board \/ Age \/ UNCHANGED vars
    PROVE  RetryInv'
<1> USE DEF link, board
<1>0. TypeOK /\ TypeOK' /\ LinkInv /\ PlainInv
  BY DEF LossInv, LinkInv
<1>1. UNCHANGED <<call, lost>>
  BY DEF Board, Replay, HandleCue, HandleHeartbeat, HandleSafe, HandleCurve, Visit,
         Configure, Watchdog, Reboot, Age, vars
<1>2. ASSUME down \subseteq down',
             NEW m, \/ up \ {m} \subseteq up' /\ m[1].kind # "cue"
                    \/ up \ {m} \subseteq up' /\ <<m[1].seq, m[2]>> \in down'
      PROVE  RetryInv'
  <2>1. ASSUME NEW t \in Caller, Waiting(t)
        PROVE  Fallen(t)' \subseteq Fallen(t)
    <3>1. call[t].cue \in Cue
      BY <1>0, <2>1 DEF LinkInv, CallInv, Waiting
    <3>2. call[t].cue.kind = "cue"
      BY <3>1 DEF Cue
    <3>3. \A b : <<call[t].cue, b>> \in up \ up' => <<call[t].cue.seq, b>> \in down'
      BY <1>2, <3>2
    <3>4. QED
      BY <1>1, <1>2, <3>3 DEF Fallen
  <2>2. QED
    BY <1>0, <1>1, <2>1, CallsKept
<1>3. ASSUME NEW m \in up, HandleCue(m)
      PROVE  RetryInv'
  <2>1. m[1] \in Cue
    BY <1>0, <1>3, Kinds DEF HandleCue
  <2>2. m[1].device \in attached
    BY <1>0, <2>1 DEF PlainInv, Cue
  <2>3. down' = down \cup {<<m[1].seq, m[2]>>} /\ up \ {m} \subseteq up'
    BY <1>3, <2>2 DEF HandleCue, Taken
  <2>4. QED
    BY <1>2, <2>3
<1>4. ASSUME NEW m \in up, HandleHeartbeat(m) \/ HandleSafe(m) \/ HandleCurve(m)
      PROVE  RetryInv'
  <2>1. down' = down /\ up \ {m} \subseteq up' /\ m[1].kind # "cue"
    BY <1>4 DEF HandleHeartbeat, HandleSafe, HandleCurve, Taken
  <2>2. QED
    BY <1>2, <2>1
<1>5. ASSUME NEW m \in up, Replay(m)
      PROVE  FALSE
  BY <1>0, <1>5 DEF Replay, Accepts, PlainInv
<1>6. ASSUME UNCHANGED <<up, down>>
      PROVE  RetryInv'
  BY <1>0, <1>1, <1>6, CallsKept DEF Fallen
<1>7. Watchdog \/ Reboot \/ Visit \/ (\E S \in Wirings : Configure(S)) \/ Age \/ UNCHANGED vars
        => UNCHANGED <<up, down>>
  BY DEF Watchdog, Reboot, Visit, Configure, Age, vars
<1>8. QED
  BY <1>3, <1>4, <1>5, <1>6, <1>7 DEF Board

LEMMA NextLosses == ASSUME ~Auth, Prompt PROVE LossInv /\ [Next]_vars => LossInv'
<1> SUFFICES ASSUME LossInv, [Next]_vars PROVE LossInv'
  OBVIOUS
<1>1. LinkInv'
  BY NextLink DEF LossInv
<1>2. PlainInv'
  BY <1>1, NextPlain
<1>3. RetryInv'
  BY <1>1, ClientCounts, LoseCounts, BoardCounts DEF Next
<1>4. QED
  BY <1>1, <1>2, <1>3 DEF LossInv

\* However the network loses, repeats and reorders: while it lost fewer
\* datagrams than a cue has attempts, no cue is given up (remote.go:51,
\* docs/cip.md:30).
THEOREM LossesAlwaysRetried == ASSUME ~Auth, Prompt PROVE Spec => []LossesAreRetried
<1>1. Init => LossInv
  BY InitLosses
<1>2. LossInv /\ [Next]_vars => LossInv'
  BY NextLosses
<1>3. LossInv => LossesAreRetried
  <2> SUFFICES ASSUME LossInv, lost < Retries, NEW t \in Caller
               PROVE  call[t].at # "skipped"
    BY DEF LossesAreRetried
  <2>1. lost \in Nat /\ Retries \in Nat
    BY Constants DEF LossInv, LinkInv, TypeOK
  <2>2. QED
    BY <2>1 DEF LossInv, RetryInv
<1>4. QED
  BY <1>1, <1>2, <1>3, PTL DEF Spec
=============================================================================
