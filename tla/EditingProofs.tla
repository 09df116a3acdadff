---------------------------- MODULE EditingProofs ----------------------------
(***************************************************************************)
(* What is proved of the editor, for every score, rig and length of film and *)
(* any number of edits: the tracks stay in time order; undo brings back the  *)
(* document each edit found, and redo the one that was undone; no curve is    *)
(* left with a single point.                                                 *)
(*                                                                         *)
(* Order.  A command sorts the track it names, when it is run and when it is *)
(* taken back, so that the order of every other track rests on its not        *)
(* changing the times of what is there.  The invariant (InPlace) is that      *)
(* everything belongs to one track for good, from the edit that made it: what *)
(* is on the track, what commands done or undone will move, put or take       *)
(* there, and what a drag has hold of.  The inspector is the one that may     *)
(* break it.                                                                 *)
(*                                                                         *)
(* Undo, redo and curves.  The invariant (PageInv) is that each entry of the  *)
(* two stacks leads from the document below it to the one it was run on, or   *)
(* taken back from.  It rests on two facts about commands: one that finds     *)
(* what it says it changes is taken back to what it found (BackTurn,          *)
(* BatchBack), and what a command does depends only on what the document      *)
(* looks like (MatchTurn, BatchMatch).                                        *)
(***************************************************************************)
EXTENDS Editing, FiniteSetTheorems, SequenceTheorems, WellFoundedInduction, TLAPS

-----------------------------------------------------------------------------
(* Loops, as functions of how far they got *)

LEMMA MinBelongs ==
    ASSUME NEW S, S \subseteq Nat, S # {}
    PROVE  Min(S) \in S /\ \A y \in S : Min(S) <= y
<1> DEFINE Less == OpToRel(<, Nat)
<1>1. IsWellFoundedOn(Less, Nat)
  BY NatLessThanWellFounded
<1>2. \A x, y \in Nat : <<y, x>> \in Less <=> y < x
  BY DEF OpToRel
<1> HIDE DEF Less
<1>3. PICK x \in S : \A y \in S : ~(<<y, x>> \in Less)
  BY <1>1, WFMin
<1>4. \A y \in S : x =< y
  <2>1. \A y \in S : x \in Nat /\ y \in Nat
    OBVIOUS
  <2>2. \A y \in S : ~(y < x)
    BY <1>2, <1>3, <2>1
  <2>3. QED
    BY <2>1, <2>2
<1>5. QED
  BY <1>4 DEF Min

LEMMA StepByStep ==
    ASSUME NEW n \in Nat, NEW S, 0 \in S, \A i \in 1..n : i - 1 \in S => i \in S
    PROVE  0..n \subseteq S
<1> SUFFICES ASSUME (0..n) \ S # {} PROVE FALSE
  OBVIOUS
<1> DEFINE Rest == (0..n) \ S
           m == Min(Rest)
<1>1. Rest \subseteq Nat
  OBVIOUS
<1>2. Rest # {}
  OBVIOUS
<1>3. m \in Rest /\ \A x \in Rest : m <= x
  <2> HIDE DEF Rest
  <2>1. QED
    BY <1>1, <1>2, MinBelongs
<1>4. m \in 1..n /\ m - 1 \in 0..n /\ m - 1 < m
  <2> HIDE DEF m
  <2>1. QED
    BY <1>3
<1> HIDE DEF m
<1>5. m - 1 \in S
  BY <1>3, <1>4
<1>6. QED
  BY <1>3, <1>4, <1>5

\* How far each turn of a loop got, from where it begins.
Turns(n, base, step, out) == out[0] = base /\ \A i \in 1..n : out[i] = step[<<i, out[i - 1]>>]

LEMMA LoopExists ==
    ASSUME NEW n \in Nat, NEW V, NEW base \in V, NEW step \in [(1..n) \X V -> V]
    PROVE  \E out \in [0..n -> V] : Turns(n, base, step, out)
<1> DEFINE Runs(m, out) == out[0] = base /\ \A i \in 1..m : out[i] = step[<<i, out[i - 1]>>]
           S == {m \in 0..n : \E out \in [0..m -> V] : Runs(m, out)}
<1>1. 0 \in S
  <2>1. Runs(0, [i \in 0..0 |-> base])
    OBVIOUS
  <2>2. [i \in 0..0 |-> base] \in [0..0 -> V]
    OBVIOUS
  <2> HIDE DEF Runs
  <2>3. QED
    BY <2>1, <2>2
<1>2. ASSUME NEW m \in 1..n, m - 1 \in S PROVE m \in S
  <2>1. PICK out \in [0..(m - 1) -> V] : Runs(m - 1, out)
    BY <1>2
  <2> DEFINE next == [i \in 0..m |-> IF i = m THEN step[<<m, out[m - 1]>>] ELSE out[i]]
  <2>2. next \in [0..m -> V]
    OBVIOUS
  <2>3. next[0] = base
    BY <2>1
  <2>4. ASSUME NEW i \in 1..m PROVE next[i] = step[<<i, next[i - 1]>>]
    <3>1. next[i - 1] = out[i - 1]
      OBVIOUS
    <3>2. CASE i = m
      <4>1. next[i] = step[<<i, out[i - 1]>>]
        BY <3>2
      <4>2. QED
        BY <3>1, <4>1
    <3>3. CASE i # m
      <4>1. i \in 1..(m - 1) /\ next[i] = out[i]
        BY <3>3
      <4>2. QED
        BY <2>1, <3>1, <4>1
    <3>4. QED
      BY <3>2, <3>3
  <2>5. Runs(m, next)
    <3> HIDE DEF next
    <3>1. QED
      BY <2>3, <2>4
  <2> HIDE DEF next, Runs
  <2>6. QED
    BY <2>2, <2>5
<1>3. n \in S
  <2> HIDE DEF S
  <2>1. 0..n \subseteq S
    BY <1>1, <1>2, StepByStep
  <2>2. QED
    BY <2>1
<1>4. QED
  BY <1>3 DEF Turns

-----------------------------------------------------------------------------
(* What is in a sequence, and in which order *)

InOrder(t, s) == \A i, j \in DOMAIN s : i < j => t[s[i]] <= t[s[j]]

LEMMA ToSetOf ==
    ASSUME NEW S, NEW s \in Seq(S)
    PROVE  /\ ToSet(s) = {s[i] : i \in 1..Len(s)} /\ ToSet(s) \subseteq S
           /\ DOMAIN s = 1..Len(s) /\ Len(s) \in Nat
  BY DEF ToSet

\* One step of the sort: a thing goes before the first that is later.
Later(t, r, x) == {j \in DOMAIN r : t[r[j]] > t[x]}
Inserted(t, r, x) ==
    InsertAt(r, IF Later(t, r, x) = {} THEN Len(r) + 1 ELSE Min(Later(t, r, x)), x)

LEMMA InsertAtIs ==
    ASSUME NEW S, NEW r \in Seq(S), NEW p \in 1..(Len(r) + 1), NEW x \in S
    PROVE  /\ InsertAt(r, p, x) \in Seq(S) /\ Len(InsertAt(r, p, x)) = Len(r) + 1
           /\ \A j \in 1..(Len(r) + 1) :
                  InsertAt(r, p, x)[j] = IF j < p THEN r[j] ELSE IF j = p THEN x ELSE r[j - 1]
<1> DEFINE a == SubSeq(r, 1, p - 1)
           b == SubSeq(r, p, Len(r))
           c == <<x>>
<1>1. a \in Seq(S) /\ Len(a) = p - 1 /\ \A j \in 1..(p - 1) : a[j] = r[j]
  OBVIOUS
<1>2. b \in Seq(S) /\ Len(b) = Len(r) + 1 - p /\ \A j \in 1..(Len(r) + 1 - p) : b[j] = r[p + j - 1]
  OBVIOUS
<1>3. c \in Seq(S) /\ Len(c) = 1 /\ c[1] = x
  OBVIOUS
<1>4. InsertAt(r, p, x) = (a \o c) \o b
  BY DEF InsertAt
<1> HIDE DEF a, b, c
<1>5. /\ a \o c \in Seq(S) /\ Len(a \o c) = p
      /\ \A j \in 1..p : (a \o c)[j] = IF j < p THEN r[j] ELSE x
  <2>1. \A j \in 1..(Len(a) + Len(c)) : (a \o c)[j] = IF j <= Len(a) THEN a[j] ELSE c[j - Len(a)]
    BY <1>1, <1>3, ConcatProperties
  <2>2. a \o c \in Seq(S) /\ Len(a \o c) = Len(a) + Len(c)
    BY <1>1, <1>3, ConcatProperties
  <2>3. QED
    BY <1>1, <1>3, <2>1, <2>2
<1> DEFINE d == a \o c
<1>6. d \in Seq(S) /\ Len(d) = p /\ \A j \in 1..p : d[j] = IF j < p THEN r[j] ELSE x
  BY <1>5
<1> HIDE DEF d
<1>7. /\ d \o b \in Seq(S) /\ Len(d \o b) = Len(d) + Len(b)
      /\ \A j \in 1..(Len(d) + Len(b)) :
            (d \o b)[j] = IF j <= Len(d) THEN d[j] ELSE b[j - Len(d)]
  <2>1. d \in Seq(S) /\ b \in Seq(S)
    BY <1>2, <1>6
  <2>2. QED
    BY <2>1, ConcatProperties
<1>8. Len(d) + Len(b) = Len(r) + 1 /\ Len(d) = p /\ p \in Nat /\ Len(r) \in Nat
  BY <1>2, <1>6
<1>9. ASSUME NEW j \in 1..(Len(r) + 1)
      PROVE  (d \o b)[j] = IF j < p THEN r[j] ELSE IF j = p THEN x ELSE r[j - 1]
  <2>1. CASE j <= p
    <3>1. (d \o b)[j] = d[j] /\ j \in 1..p
      BY <1>7, <1>8, <2>1
    <3>2. QED
      BY <1>6, <2>1, <3>1
  <2>2. CASE ~(j <= p)
    <3>1. (d \o b)[j] = b[j - p]
      BY <1>7, <1>8, <2>2
    <3>2. j - p \in 1..(Len(r) + 1 - p) /\ p + (j - p) - 1 = j - 1
      BY <1>8, <2>2
    <3>3. b[j - p] = r[j - 1]
      BY <1>2, <3>2
    <3>4. QED
      BY <1>8, <2>2, <3>1, <3>3
  <2>3. QED
    BY <2>1, <2>2
<1>10. InsertAt(r, p, x) = d \o b
  BY <1>4 DEF d
<1>11. QED
  BY <1>7, <1>8, <1>9, <1>10

LEMMA InsertedKeeps ==
    ASSUME NEW A, NEW t, \A y \in A : t[y] \in Int,
           NEW r \in Seq(A), InOrder(t, r), NEW x \in A
    PROVE  /\ Inserted(t, r, x) \in Seq(A)
           /\ InOrder(t, Inserted(t, r, x))
           /\ ToSet(Inserted(t, r, x)) = ToSet(r) \cup {x}
<1> DEFINE n == Len(r)
           L == Later(t, r, x)
           p == IF L = {} THEN n + 1 ELSE Min(L)
           q == Inserted(t, r, x)
<1>1. n \in Nat /\ DOMAIN r = 1..n /\ \A i \in 1..n : r[i] \in A /\ t[r[i]] \in Int
  OBVIOUS
<1>2. L \subseteq 1..n /\ \A j \in 1..n : j \in L <=> t[r[j]] > t[x]
  BY <1>1 DEF Later
<1>3. L # {} => Min(L) \in L /\ \A j \in L : Min(L) <= j
  <2> HIDE DEF L
  <2>1. L \subseteq Nat
    BY <1>1, <1>2
  <2>2. QED
    BY <2>1, MinBelongs
<1>4. p \in 1..(n + 1) /\ (\A j \in L : p <= j) /\ (p # n + 1 => p \in L)
  <2> HIDE DEF L
  <2>1. CASE L = {}
    BY <1>1, <2>1
  <2>2. CASE L # {}
    <3>1. p = Min(L)
      BY <2>2
    <3>2. p \in L /\ \A j \in L : p <= j
      BY <1>3, <2>2, <3>1
    <3>3. p \in 1..n
      BY <1>2, <3>2
    <3>4. QED
      BY <1>1, <3>2, <3>3
  <2>3. QED
    BY <2>1, <2>2
<1>5. \A j \in 1..n : j < p => t[r[j]] <= t[x]
  <2> SUFFICES ASSUME NEW j \in 1..n, j < p PROVE t[r[j]] <= t[x]
    OBVIOUS
  <2> HIDE DEF p, L
  <2>1. j \notin L
    BY <1>1, <1>4
  <2>2. t[r[j]] \in Int /\ t[x] \in Int /\ ~(t[r[j]] > t[x])
    BY <1>1, <1>2, <2>1
  <2>3. QED
    BY <2>2
<1>6. \A j \in 1..n : j >= p => t[x] <= t[r[j]]
  <2> SUFFICES ASSUME NEW j \in 1..n, j >= p PROVE t[x] <= t[r[j]]
    OBVIOUS
  <2> HIDE DEF p, L
  <2>1. p \in L /\ p \in 1..n
    BY <1>1, <1>4
  <2>2. t[r[p]] > t[x]
    BY <1>2, <2>1
  <2>3. t[r[p]] <= t[r[j]]
    <3>1. CASE p = j
      BY <1>1, <3>1
    <3>2. CASE p < j
      BY <1>1, <2>1, <3>2 DEF InOrder
    <3>3. QED
      BY <2>1, <3>1, <3>2
  <2>4. t[x] \in Int /\ t[r[p]] \in Int /\ t[r[j]] \in Int
    BY <1>1, <2>1
  <2>5. QED
    BY <2>2, <2>3, <2>4
<1>7. q = InsertAt(r, p, x)
  BY DEF Inserted
<1> HIDE DEF p, q, L
<1>8. /\ q \in Seq(A) /\ Len(q) = n + 1
      /\ \A j \in 1..(n + 1) : q[j] = IF j < p THEN r[j] ELSE IF j = p THEN x ELSE r[j - 1]
  BY <1>4, <1>7, InsertAtIs, SMTT(30)
<1> HIDE DEF n
<1>9. DOMAIN q = 1..(n + 1)
  BY <1>1, <1>8
<1>10. InOrder(t, q)
  <2> SUFFICES ASSUME NEW i \in 1..(n + 1), NEW j \in 1..(n + 1), i < j
               PROVE  t[q[i]] <= t[q[j]]
    BY <1>9 DEF InOrder
  <2>1. t[x] \in Int
    OBVIOUS
  <2>2. CASE j < p
    <3>1. q[i] = r[i] /\ q[j] = r[j] /\ i \in 1..n /\ j \in 1..n
      BY <1>1, <1>4, <1>8, <2>2
    <3>2. QED
      BY <1>1, <3>1 DEF InOrder
  <2>3. CASE j = p
    <3>1. q[i] = r[i] /\ q[j] = x /\ i \in 1..n /\ i < p
      BY <1>1, <1>4, <1>8, <2>3
    <3>2. QED
      BY <1>5, <3>1
  <2>4. CASE j > p /\ i = p
    <3>1. q[i] = x /\ q[j] = r[j - 1] /\ j - 1 \in 1..n /\ j - 1 >= p
      BY <1>1, <1>4, <1>8, <2>4
    <3>2. QED
      BY <1>6, <3>1
  <2>5. CASE j > p /\ i < p
    <3>1. q[i] = r[i] /\ q[j] = r[j - 1] /\ j - 1 \in 1..n /\ i \in 1..n /\ i < j - 1
      BY <1>1, <1>4, <1>8, <2>5
    <3>2. QED
      BY <1>1, <3>1 DEF InOrder
  <2>6. CASE j > p /\ i > p
    <3>1. q[i] = r[i - 1] /\ q[j] = r[j - 1] /\ j - 1 \in 1..n /\ i - 1 \in 1..n /\ i - 1 < j - 1
      BY <1>1, <1>4, <1>8, <2>6
    <3>2. QED
      BY <1>1, <3>1 DEF InOrder
  <2>7. QED
    BY <1>1, <1>4, <2>2, <2>3, <2>4, <2>5, <2>6
<1>11. ToSet(q) = ToSet(r) \cup {x}
  <2>1. ToSet(q) = {q[j] : j \in 1..(n + 1)} /\ ToSet(r) = {r[j] : j \in 1..n}
    BY <1>1, <1>9 DEF ToSet
  <2>2. ASSUME NEW j \in 1..(n + 1) PROVE q[j] \in ToSet(r) \cup {x}
    <3>1. j < p => j \in 1..n
      BY <1>1, <1>4
    <3>2. j > p => j - 1 \in 1..n
      BY <1>1, <1>4
    <3>3. QED
      BY <1>4, <1>8, <2>1, <3>1, <3>2
  <2>3. x \in ToSet(q)
    BY <1>4, <1>8, <2>1
  <2>4. ASSUME NEW j \in 1..n PROVE r[j] \in ToSet(q)
    <3>1. CASE j < p
      <4>1. j \in 1..(n + 1) /\ q[j] = r[j]
        BY <1>1, <1>8, <3>1
      <4>2. QED
        BY <2>1, <4>1
    <3>2. CASE ~(j < p)
      <4>1. j + 1 \in 1..(n + 1) /\ ~(j + 1 < p) /\ j + 1 # p /\ (j + 1) - 1 = j
        BY <1>1, <1>4, <3>2
      <4>2. q[j + 1] = r[j]
        BY <1>8, <4>1
      <4>3. QED
        BY <2>1, <4>1, <4>2
    <3>3. QED
      BY <3>1, <3>2
  <2>5. QED
    BY <2>1, <2>2, <2>3, <2>4
<1>12. QED
  BY <1>8, <1>10, <1>11 DEF q

LEMMA NormaliseLoop ==
    ASSUME NEW A, NEW t, \A y \in A : t[y] \in Int, NEW s \in Seq(A)
    PROVE  \E out :
              /\ out[0] = <<>>
              /\ \A i \in 1..Len(s) : out[i] = Inserted(t, out[i - 1], s[i])
              /\ Normalise(t, s) = out[Len(s)]
<1> DEFINE n == Len(s)
           All == {r \in Seq(A) : InOrder(t, r)}
           step == [p \in (1..n) \X All |-> Inserted(t, p[2], s[p[1]])]
           Runs(out) == out = [i \in 0..n |-> IF i = 0 THEN <<>> ELSE Inserted(t, out[i - 1], s[i])]
           out0 == CHOOSE out : Runs(out)
<1>1. n \in Nat /\ \A i \in 1..n : s[i] \in A
  OBVIOUS
<1>2. step \in [(1..n) \X All -> All]
  <2>1. \A i \in 1..n : \A m \in All : Inserted(t, m, s[i]) \in All
    BY <1>1, InsertedKeeps
  <2> HIDE DEF All, n
  <2>2. QED
    BY <2>1
<1>3. \A i \in 1..n : \A m \in All : step[<<i, m>>] = Inserted(t, m, s[i])
  OBVIOUS
<1>4. <<>> \in All
  BY EmptySeq DEF InOrder
<1> HIDE DEF n, step, All
<1>5. PICK out \in [0..n -> All] : out[0] = <<>> /\ \A i \in 1..n : out[i] = step[<<i, out[i - 1]>>]
  <2>1. \E out \in [0..n -> All] : Turns(n, <<>>, step, out)
    BY <1>1, <1>2, <1>4, LoopExists
  <2>2. QED
    BY <2>1 DEF Turns
<1>6. Runs(out)
  <2>1. ASSUME NEW i \in 1..n PROVE out[i] = Inserted(t, out[i - 1], s[i])
    <3>1. out[i - 1] \in All
      BY <1>1
    <3>2. QED
      BY <1>3, <1>5, <3>1
  <2>2. QED
    BY <1>1, <1>5, <2>1
<1>7. Runs(out0)
  <2> HIDE DEF Runs
  <2>1. QED
    BY <1>6
<1>8. Normalise(t, s) = out0[n]
  BY DEF Normalise, Inserted, Later, n
<1> HIDE DEF out0
<1>9. out0[0] = <<>> /\ \A i \in 1..n : out0[i] = Inserted(t, out0[i - 1], s[i])
  BY <1>1, <1>7
<1>10. QED
  BY <1>8, <1>9 DEF n

\* To sort a track puts it in order and neither adds nor loses anything.
LEMMA NormaliseSorts ==
    ASSUME NEW A, NEW t, \A y \in A : t[y] \in Int, NEW s \in Seq(A)
    PROVE  /\ Normalise(t, s) \in Seq(A)
           /\ InOrder(t, Normalise(t, s))
           /\ ToSet(Normalise(t, s)) = ToSet(s)
<1> DEFINE n == Len(s)
           Upto(i) == {s[j] : j \in 1..i}
<1>1. n \in Nat /\ (\A i \in 1..n : s[i] \in A) /\ ToSet(s) = Upto(n)
  BY ToSetOf
<1>2. PICK out :
         /\ out[0] = <<>>
         /\ \A i \in 1..n : out[i] = Inserted(t, out[i - 1], s[i])
         /\ Normalise(t, s) = out[n]
  BY NormaliseLoop
<1> DEFINE Good(i) == out[i] \in Seq(A) /\ InOrder(t, out[i]) /\ ToSet(out[i]) = Upto(i)
           S == {i \in 0..n : Good(i)}
<1> HIDE DEF n
<1>3. Good(0)
  <2>1. <<>> \in Seq(A) /\ InOrder(t, <<>>) /\ ToSet(<<>>) = {}
    BY EmptySeq DEF InOrder, ToSet
  <2>2. Upto(0) = {}
    OBVIOUS
  <2> HIDE DEF Upto
  <2>3. QED
    BY <1>2, <2>1, <2>2
<1>4. ASSUME NEW i \in 1..n, Good(i - 1) PROVE Good(i)
  <2>1. s[i] \in A /\ out[i - 1] \in Seq(A) /\ InOrder(t, out[i - 1]) /\ ToSet(out[i - 1]) = Upto(i - 1)
    BY <1>1, <1>4
  <2>2. Upto(i) = Upto(i - 1) \cup {s[i]}
    <3>1. \A j \in 1..i : j = i \/ j \in 1..(i - 1)
      BY <1>1
    <3>2. 1..(i - 1) \subseteq 1..i /\ i \in 1..i
      BY <1>1
    <3>3. QED
      BY <3>1, <3>2
  <2> HIDE DEF Upto
  <2>3. out[i] = Inserted(t, out[i - 1], s[i])
    BY <1>2
  <2>4. /\ Inserted(t, out[i - 1], s[i]) \in Seq(A)
        /\ InOrder(t, Inserted(t, out[i - 1], s[i]))
        /\ ToSet(Inserted(t, out[i - 1], s[i])) = ToSet(out[i - 1]) \cup {s[i]}
    BY <2>1, InsertedKeeps
  <2>5. QED
    BY <2>1, <2>2, <2>3, <2>4
<1>5. n \in S
  <2> HIDE DEF Good
  <2>1. 0 \in S /\ \A i \in 1..n : i - 1 \in S => i \in S
    BY <1>1, <1>3, <1>4
  <2> HIDE DEF S
  <2>2. 0..n \subseteq S
    BY <1>1, <2>1, StepByStep
  <2>3. QED
    BY <1>1, <2>2
<1>6. QED
  BY <1>1, <1>2, <1>5

-----------------------------------------------------------------------------
NextAmong(s, S, i, out) == IF s[i] \in S THEN Append(out, s[i]) ELSE out

LEMMA AmongLoop ==
    ASSUME NEW A, NEW s \in Seq(A), NEW S
    PROVE  \E out :
              /\ out[0] = <<>>
              /\ \A i \in 1..Len(s) : out[i] = NextAmong(s, S, i, out[i - 1])
              /\ Among(s, S) = out[Len(s)]
<1> DEFINE n == Len(s)
           All == Seq(A)
           step == [p \in (1..n) \X All |-> NextAmong(s, S, p[1], p[2])]
           Runs(out) == out = [i \in 0..n |-> IF i = 0 THEN <<>> ELSE NextAmong(s, S, i, out[i - 1])]
           out0 == CHOOSE out : Runs(out)
<1>1. n \in Nat /\ \A i \in 1..n : s[i] \in A
  OBVIOUS
<1>2. step \in [(1..n) \X All -> All]
  <2>1. \A i \in 1..n : \A m \in All : NextAmong(s, S, i, m) \in All
    BY <1>1, AppendProperties DEF NextAmong
  <2> HIDE DEF All, n
  <2>2. QED
    BY <2>1
<1>3. \A i \in 1..n : \A m \in All : step[<<i, m>>] = NextAmong(s, S, i, m)
  OBVIOUS
<1>4. <<>> \in All
  BY EmptySeq
<1> HIDE DEF n, step, All
<1>5. PICK out \in [0..n -> All] : out[0] = <<>> /\ \A i \in 1..n : out[i] = step[<<i, out[i - 1]>>]
  <2>1. \E out \in [0..n -> All] : Turns(n, <<>>, step, out)
    BY <1>1, <1>2, <1>4, LoopExists
  <2>2. QED
    BY <2>1 DEF Turns
<1>6. Runs(out)
  <2>1. ASSUME NEW i \in 1..n PROVE out[i] = NextAmong(s, S, i, out[i - 1])
    <3>1. out[i - 1] \in All
      BY <1>1
    <3>2. QED
      BY <1>3, <1>5, <3>1
  <2>2. QED
    BY <1>1, <1>5, <2>1
<1>7. Runs(out0)
  <2> HIDE DEF Runs
  <2>1. QED
    BY <1>6
<1>8. Among(s, S) = out0[n]
  BY DEF Among, NextAmong, n
<1> HIDE DEF out0
<1>9. out0[0] = <<>> /\ \A i \in 1..n : out0[i] = NextAmong(s, S, i, out0[i - 1])
  BY <1>1, <1>7
<1>10. QED
  BY <1>8, <1>9 DEF n

\* Every one comes from a place of its own, and later ones from later places.
Picked(s, i, r, p) ==
    /\ p \in [1..Len(r) -> 1..i]
    /\ \A j \in 1..Len(r) : r[j] = s[p[j]]
    /\ \A j, k \in 1..Len(r) : j < k => p[j] < p[k]

LEMMA PickedMore ==
    ASSUME NEW A, NEW s \in Seq(A), NEW i \in 1..Len(s), NEW r \in Seq(A),
           NEW p, Picked(s, i - 1, r, p)
    PROVE  /\ Picked(s, i, r, p)
           /\ \E q : Picked(s, i, Append(r, s[i]), q)
<1> DEFINE n == Len(r)
           q == [j \in 1..(n + 1) |-> IF j = n + 1 THEN i ELSE p[j]]
           m == Append(r, s[i])
<1>1. n \in Nat /\ i \in Nat /\ s[i] \in A
  OBVIOUS
<1>2. /\ m \in Seq(A) /\ Len(m) = n + 1 /\ m[n + 1] = s[i]
      /\ \A j \in 1..n : m[j] = r[j]
  BY <1>1, AppendProperties
<1> HIDE DEF m
<1>3. /\ p \in [1..n -> 1..(i - 1)]
      /\ \A j \in 1..n : r[j] = s[p[j]]
      /\ \A j, k \in 1..n : j < k => p[j] < p[k]
  BY DEF Picked
<1> HIDE DEF n
<1>4. p \in [1..n -> 1..i] /\ \A j \in 1..n : p[j] \in 1..i /\ p[j] < i
  BY <1>1, <1>3
<1>5. Picked(s, i, r, p)
  BY <1>3, <1>4 DEF Picked, n
<1>6. q \in [1..(n + 1) -> 1..i]
  BY <1>1, <1>4
<1>7. \A j \in 1..(n + 1) : m[j] = s[q[j]]
  BY <1>1, <1>2, <1>3, SMTT(30)
<1>8. \A j, k \in 1..(n + 1) : j < k => q[j] < q[k]
  <2> SUFFICES ASSUME NEW j \in 1..(n + 1), NEW k \in 1..(n + 1), j < k PROVE q[j] < q[k]
    OBVIOUS
  <2>1. j \in 1..n /\ q[j] = p[j]
    BY <1>1
  <2>2. CASE k = n + 1
    BY <1>4, <2>1, <2>2
  <2>3. CASE k # n + 1
    <3>1. k \in 1..n /\ q[k] = p[k]
      BY <1>1, <2>3
    <3>2. QED
      BY <1>3, <2>1, <3>1
  <2>4. QED
    BY <2>2, <2>3
<1> HIDE DEF q
<1>9. Picked(s, i, m, q)
  BY <1>2, <1>6, <1>7, <1>8 DEF Picked
<1>10. QED
  BY <1>5, <1>9 DEF m

\* A filter keeps what is in the set, in its order.
LEMMA AmongKeeps ==
    ASSUME NEW A, NEW s \in Seq(A), NEW S
    PROVE  /\ Among(s, S) \in Seq(A)
           /\ ToSet(Among(s, S)) = ToSet(s) \cap S
           /\ \E p : Picked(s, Len(s), Among(s, S), p)
<1> DEFINE n == Len(s)
           Upto(i) == {s[j] : j \in 1..i}
<1>1. n \in Nat /\ (\A i \in 1..n : s[i] \in A) /\ ToSet(s) = Upto(n)
  BY ToSetOf
<1>2. PICK out :
         /\ out[0] = <<>>
         /\ \A i \in 1..n : out[i] = NextAmong(s, S, i, out[i - 1])
         /\ Among(s, S) = out[n]
  BY AmongLoop
<1> DEFINE Good(i) == /\ out[i] \in Seq(A) /\ ToSet(out[i]) = Upto(i) \cap S
                      /\ \E p : Picked(s, i, out[i], p)
           T == {i \in 0..n : Good(i)}
<1> HIDE DEF n
<1>3. Good(0)
  <2>1. <<>> \in Seq(A) /\ ToSet(<<>>) = {}
    BY EmptySeq DEF ToSet
  <2>2. Upto(0) = {}
    OBVIOUS
  <2>3. Picked(s, 0, <<>>, <<>>)
    <3>1. Len(<<>>) = 0 /\ <<>> \in [1..0 -> 1..0]
      OBVIOUS
    <3>2. QED
      BY <3>1 DEF Picked
  <2> HIDE DEF Upto
  <2>4. QED
    BY <1>2, <2>1, <2>2, <2>3
<1>4. ASSUME NEW i \in 1..n, Good(i - 1) PROVE Good(i)
  <2> DEFINE r == out[i - 1]
  <2>1. s[i] \in A /\ r \in Seq(A) /\ ToSet(r) = Upto(i - 1) \cap S
    BY <1>1, <1>4
  <2>2. PICK p : Picked(s, i - 1, r, p)
    BY <1>4
  <2>3. Upto(i) = Upto(i - 1) \cup {s[i]}
    <3>1. \A j \in 1..i : j = i \/ j \in 1..(i - 1)
      BY <1>1
    <3>2. 1..(i - 1) \subseteq 1..i /\ i \in 1..i
      BY <1>1
    <3>3. QED
      BY <3>1, <3>2
  <2> HIDE DEF Upto
  <2>4. out[i] = NextAmong(s, S, i, r)
    BY <1>2
  <2> HIDE DEF r
  <2>5. i \in 1..Len(s)
    BY DEF n
  <2>6. Picked(s, i, r, p) /\ \E q : Picked(s, i, Append(r, s[i]), q)
    BY <2>1, <2>2, <2>5, PickedMore
  <2>7. CASE s[i] \in S
    <3>1. out[i] = Append(r, s[i])
      BY <2>4, <2>7 DEF NextAmong
    <3>2. Append(r, s[i]) \in Seq(A) /\ ToSet(Append(r, s[i])) = ToSet(r) \cup {s[i]}
      <4>1. /\ Append(r, s[i]) \in Seq(A) /\ Len(Append(r, s[i])) = Len(r) + 1
            /\ \A j \in 1..Len(r) : Append(r, s[i])[j] = r[j]
            /\ Append(r, s[i])[Len(r) + 1] = s[i]
        BY <2>1, AppendProperties
      <4>2. ToSet(Append(r, s[i])) = {Append(r, s[i])[j] : j \in 1..(Len(r) + 1)}
        BY <4>1, ToSetOf
      <4>3. ToSet(r) = {r[j] : j \in 1..Len(r)} /\ Len(r) \in Nat
        BY <2>1, ToSetOf
      <4>4. \A j \in 1..(Len(r) + 1) : j = Len(r) + 1 \/ j \in 1..Len(r)
        BY <4>3
      <4>5. 1..Len(r) \subseteq 1..(Len(r) + 1) /\ Len(r) + 1 \in 1..(Len(r) + 1)
        BY <4>3
      <4> DEFINE m == Append(r, s[i])
      <4>6. /\ m \in Seq(A) /\ ToSet(m) = {m[j] : j \in 1..(Len(r) + 1)}
            /\ (\A j \in 1..Len(r) : m[j] = r[j]) /\ m[Len(r) + 1] = s[i]
        BY <4>1, <4>2
      <4> HIDE DEF m
      <4>7. ToSet(m) \subseteq ToSet(r) \cup {s[i]}
        BY <4>3, <4>4, <4>6
      <4>8. ToSet(r) \cup {s[i]} \subseteq ToSet(m)
        BY <4>3, <4>5, <4>6
      <4>9. QED
        BY <4>6, <4>7, <4>8 DEF m
    <3>3. QED
      BY <2>1, <2>3, <2>6, <2>7, <3>1, <3>2
  <2>8. CASE s[i] \notin S
    <3>1. out[i] = r
      BY <2>4, <2>8 DEF NextAmong
    <3>2. Upto(i) \cap S = Upto(i - 1) \cap S
      BY <2>3, <2>8
    <3>3. QED
      BY <2>1, <2>6, <3>1, <3>2
  <2>9. QED
    BY <2>7, <2>8
<1>5. n \in T
  <2> HIDE DEF Good
  <2>1. 0 \in T /\ \A i \in 1..n : i - 1 \in T => i \in T
    BY <1>1, <1>3, <1>4
  <2> HIDE DEF T
  <2>2. 0..n \subseteq T
    BY <1>1, <2>1, StepByStep
  <2>3. QED
    BY <1>1, <2>2
<1>6. Good(n)
  BY <1>5
<1>7. QED
  BY <1>1, <1>2, <1>6 DEF n

LEMMA AmongInOrder ==
    ASSUME NEW A, NEW t, \A y \in A : t[y] \in Int, NEW s \in Seq(A), InOrder(t, s), NEW S
    PROVE  InOrder(t, Among(s, S))
<1> DEFINE r == Among(s, S)
<1>1. r \in Seq(A)
  BY AmongKeeps
<1>2. PICK p : Picked(s, Len(s), r, p)
  BY AmongKeeps
<1> HIDE DEF r
<1>3. DOMAIN r = 1..Len(r) /\ DOMAIN s = 1..Len(s)
  BY <1>1
<1>4. ASSUME NEW i \in DOMAIN r, NEW j \in DOMAIN r, i < j PROVE t[r[i]] <= t[r[j]]
  <2>1. r[i] = s[p[i]] /\ r[j] = s[p[j]] /\ p[i] < p[j] /\ p[i] \in DOMAIN s /\ p[j] \in DOMAIN s
    BY <1>2, <1>3, <1>4 DEF Picked
  <2>2. QED
    BY <2>1 DEF InOrder
<1>5. QED
  BY <1>4 DEF InOrder, r

-----------------------------------------------------------------------------
(* Choices from finite sets *)

LEMMA SetToSeqType ==
    ASSUME NEW S, NEW T, T \subseteq S, IsFiniteSet(T)
    PROVE  SetToSeq(T) \in Seq(S) /\ ToSet(SetToSeq(T)) = T
<1> DEFINE n == Cardinality(T)
           s == SetToSeq(T)
<1>1. n \in Nat /\ \E f : f \in Bijection(1..n, T)
  BY FS_CardinalityType DEF ExistsBijection
<1>2. \A f \in Bijection(1..n, T) : f \in [1..n -> T] /\ IsInjective(f)
  BY DEF Bijection, Injection, IsInjective
<1>3. \E f \in [1..n -> T] : IsInjective(f)
  BY <1>1, <1>2
<1>4. s \in [1..n -> T] /\ IsInjective(s)
  BY <1>3 DEF SetToSeq
<1> HIDE DEF s, n
<1>5. s \in Injection(1..n, T)
  BY <1>4 DEF Injection, IsInjective
<1>6. n = Cardinality(T) /\ IsFiniteSet(1..n) /\ Cardinality(1..n) = n
  <2>1. IsFiniteSet(1..n) /\ Cardinality(1..n) = IF 1 > n THEN 0 ELSE n - 1 + 1
    BY <1>1, FS_Interval
  <2>2. QED
    BY <1>1, <2>1 DEF n
<1>7. s \in Surjection(1..n, T)
  BY <1>5, <1>6, FS_Injection
<1>8. \A y \in T : \E i \in 1..n : s[i] = y
  BY <1>7 DEF Surjection
<1>9. s \in Seq(T) /\ DOMAIN s = 1..n
  BY <1>1, <1>4
<1>10. s \in Seq(S)
  BY <1>1, <1>4
<1>11. ToSet(s) = T
  BY <1>4, <1>8, <1>9 DEF ToSet
<1>12. QED
  BY <1>10, <1>11 DEF s

\* As many of a finite set as are asked for.
LEMMA SomeOf ==
    ASSUME NEW S, IsFiniteSet(S), NEW n \in Nat, Cardinality(S) >= n
    PROVE  \E F \in SUBSET S : Cardinality(F) = n
<1>1. Cardinality(S) \in Nat
  BY FS_CardinalityType
<1>2. PICK f : f \in Bijection(1..Cardinality(S), S)
  BY FS_CardinalityType DEF ExistsBijection
<1>3. f \in [1..Cardinality(S) -> S] /\ \A i, j \in 1..Cardinality(S) : f[i] = f[j] => i = j
  BY <1>2 DEF Bijection, Injection, IsInjective
<1> DEFINE F == {f[i] : i \in 1..n}
           g == [i \in 1..n |-> f[i]]
<1>4. 1..n \subseteq 1..Cardinality(S)
  BY <1>1
<1>5. F \in SUBSET S
  BY <1>3, <1>4
<1>6. g \in [1..n -> F] /\ (\A i, j \in 1..n : g[i] = g[j] => i = j) /\ \A y \in F : \E i \in 1..n : g[i] = y
  BY <1>3, <1>4
<1> HIDE DEF g, F
<1>7. g \in Bijection(1..n, F)
  BY <1>6 DEF Bijection, Injection, Surjection, IsInjective
<1>8. IsFiniteSet(1..n) /\ Cardinality(1..n) = n
  <2>1. IsFiniteSet(1..n) /\ Cardinality(1..n) = IF 1 > n THEN 0 ELSE n - 1 + 1
    BY FS_Interval
  <2>2. QED
    BY <2>1
<1>9. Cardinality(F) = n
  BY <1>7, <1>8, FS_Bijection DEF ExistsBijection
<1>10. QED
  BY <1>5, <1>9

\* Of finitely many numbers one is the least.
LEMMA LeastOf ==
    ASSUME NEW S, IsFiniteSet(S), S # {}, NEW f \in [S -> Int]
    PROVE  \E x \in S : \A y \in S : f[x] <= f[y]
<1> DEFINE n == Cardinality(S)
<1>1. n \in Nat /\ n # 0
  BY FS_CardinalityType, FS_EmptySet
<1>2. PICK g : g \in Bijection(1..n, S)
  BY FS_CardinalityType DEF ExistsBijection
<1>3. g \in [1..n -> S] /\ \A y \in S : \E i \in 1..n : g[i] = y
  BY <1>2 DEF Bijection, Injection, Surjection
<1> HIDE DEF n
<1> DEFINE Good(i) == i # 0 => \E x \in S : \A j \in 1..i : f[x] <= f[g[j]]
           T == {i \in 0..n : Good(i)}
<1>4. Good(0)
  OBVIOUS
<1>5. ASSUME NEW i \in 1..n, Good(i - 1) PROVE Good(i)
  <2>1. g[i] \in S /\ f[g[i]] \in Int /\ \A j \in 1..i : j = i \/ j \in 1..(i - 1)
    BY <1>1, <1>3
  <2>2. CASE i = 1
    <3>1. \A j \in 1..i : j = i
      BY <2>2
    <3>2. \A j \in 1..i : f[g[i]] <= f[g[j]]
      BY <2>1, <3>1
    <3>3. QED
      BY <2>1, <3>2
  <2>3. CASE i # 1
    <3>1. PICK x \in S : \A j \in 1..(i - 1) : f[x] <= f[g[j]]
      BY <1>1, <1>5, <2>3
    <3>2. \A j \in 1..i : g[j] \in S /\ f[g[j]] \in Int
      BY <1>1, <1>3
    <3>3. f[x] \in Int
      OBVIOUS
    <3>4. CASE f[x] <= f[g[i]]
      <4>1. \A j \in 1..i : f[x] <= f[g[j]]
        BY <2>1, <3>1, <3>4
      <4>2. QED
        BY <4>1
    <3>5. CASE ~(f[x] <= f[g[i]])
      <4>1. ASSUME NEW j \in 1..i PROVE f[g[i]] <= f[g[j]]
        <5>1. CASE j = i
          BY <2>1, <5>1
        <5>2. CASE j # i
          <6>1. f[x] <= f[g[j]] /\ f[g[j]] \in Int
            BY <2>1, <3>1, <3>2, <5>2
          <6>2. QED
            BY <2>1, <3>3, <3>5, <6>1
        <5>3. QED
          BY <5>1, <5>2
      <4>2. QED
        BY <2>1, <4>1
    <3>6. QED
      BY <3>4, <3>5
  <2>4. QED
    BY <2>2, <2>3
<1>6. n \in T
  <2> HIDE DEF Good
  <2>1. 0 \in T /\ \A i \in 1..n : i - 1 \in T => i \in T
    BY <1>1, <1>4, <1>5
  <2> HIDE DEF T
  <2>2. 0..n \subseteq T
    BY <1>1, <2>1, StepByStep
  <2>3. QED
    BY <1>1, <2>2
<1>7. PICK x \in S : \A j \in 1..n : f[x] <= f[g[j]]
  BY <1>1, <1>6
<1>8. QED
  BY <1>3, <1>7

LEMMA GreatestOf ==
    ASSUME NEW S, IsFiniteSet(S), S # {}, NEW f \in [S -> Int]
    PROVE  \E x \in S : \A y \in S : f[x] >= f[y]
<1> DEFINE g == [x \in S |-> 0 - f[x]]
<1>1. g \in [S -> Int]
  OBVIOUS
<1>2. \E x \in S : \A y \in S : g[x] <= g[y]
  <2> HIDE DEF g
  <2>1. QED
    BY <1>1, LeastOf
<1>3. \A x, y \in S : g[x] <= g[y] => f[x] >= f[y]
  OBVIOUS
<1>4. QED
  BY <1>2, <1>3

LEMMA FreshOf ==
    ASSUME NEW S, S \subseteq Things, NEW n \in Nat, CanMake(S, n)
    PROVE  /\ Fresh(S, n) \subseteq Unmade \cap S /\ IsFiniteSet(Fresh(S, n))
           /\ Cardinality(Fresh(S, n)) = n
<1>1. IsFiniteSet(Unmade \cap S)
  <2>1. Unmade \cap S \in SUBSET Things
    BY DEF Unmade
  <2>2. QED
    BY <2>1, EditingAssumption, FS_Subset
<1>2. \E F \in SUBSET (Unmade \cap S) : Cardinality(F) = n
  BY <1>1, SomeOf DEF CanMake
<1>3. Fresh(S, n) \in SUBSET (Unmade \cap S) /\ Cardinality(Fresh(S, n)) = n
  BY <1>2 DEF Fresh
<1>4. QED
  BY <1>1, <1>3, FS_Subset

LEMMA CopiesOf ==
    ASSUME NEW F, NEW S, IsFiniteSet(F), IsFiniteSet(S), Cardinality(F) = Cardinality(S)
    PROVE  \A y \in F : (CHOOSE f \in Bijection(F, S) : TRUE)[y] \in S
<1>1. \E f \in Bijection(F, S) : TRUE
  BY FS_SameCardinalityBij DEF ExistsBijection
<1>2. (CHOOSE f \in Bijection(F, S) : TRUE) \in Bijection(F, S)
  BY <1>1
<1>3. QED
  BY <1>2 DEF Bijection, Injection

-----------------------------------------------------------------------------
(* Documents, commands and entries of the stack, where each thing belongs to *)
(* one track: own[k] is what was ever put on k                               *)

Attr == [t : Int \cup {Keep}, size : Nat \cup {Keep}, level : Int \cup {Keep}]
Values == UNION {[S -> Attr] : S \in SUBSET Things}
Document == [tracks : Seq(Tracks), on : [Tracks -> Seq(Things)],
             t : [Things -> Int \cup {Keep}], size : [Things -> Nat], level : [Things -> Int]]
Owners ==
    {own \in [Tracks -> SUBSET Things] :
        \A j, k \in Tracks : j # k => own[j] \cap own[k] = {}}

\* What belongs to a track has been made, and the tracks are in order.
Docs(own) ==
    {d \in Document :
        \A k \in Tracks : /\ ToSet(d.on[k]) \subseteq own[k]
                          /\ \A x \in own[k] : d.t[x] \in Int
                          /\ InOrder(d.t, d.on[k])}

Kinds == Sets \cup {"insert", "remove", "addTrack", "removeTrack"}

\* A command is about what belongs to the track it names; one about lengths
\* leaves the times alone.
Commands(own) ==
    {c \in [k : Kinds, track : Tracks, was : Values, will : Values,
            things : Seq(Things), at : Nat] :
        /\ DOMAIN c.was \subseteq own[c.track] /\ DOMAIN c.will \subseteq own[c.track]
        /\ ToSet(c.things) \subseteq own[c.track]
        /\ c.k = "removeTrack" => c.at >= 1
        /\ c.k = "resizeCues" => /\ \A x \in DOMAIN c.was : c.was[x].t = Keep
                                 /\ \A x \in DOMAIN c.will : c.will[x].t = Keep}

Batches(own) == Seq(Commands(own)) \ {<<>>}
Entries(own) == [cmds : Batches(own), of : Document, honest : BOOLEAN]
Keys == {NoKey, "g", "gr"}
Editors(own) ==
    [doc : Docs(own), past : Seq(Entries(own)), future : Seq(Entries(own)), key : Keys, edits : Nat]

LEMMA ValuesType ==
    ASSUME NEW v \in Values
    PROVE  DOMAIN v \subseteq Things /\ \A x \in DOMAIN v : v[x] \in Attr
  BY DEF Values

LEMMA PutType ==
    ASSUME NEW d \in Document, NEW v \in Values
    PROVE  /\ Put(d, v) \in Document
           /\ Put(d, v).tracks = d.tracks /\ Put(d, v).on = d.on
           /\ \A x \in Things :
                 Put(d, v).t[x] = IF x \in DOMAIN v /\ v[x].t # Keep THEN v[x].t ELSE d.t[x]
<1> DEFINE f(old, field) == [x \in Things |->
               IF x \in DOMAIN v /\ v[x][field] # Keep THEN v[x][field] ELSE old[x]]
           e == [tracks |-> d.tracks, on |-> d.on, t |-> f(d.t, "t"),
                 size |-> f(d.size, "size"), level |-> f(d.level, "level")]
<1>1. /\ d = [tracks |-> d.tracks, on |-> d.on, t |-> d.t, size |-> d.size, level |-> d.level]
      /\ d.tracks \in Seq(Tracks) /\ d.on \in [Tracks -> Seq(Things)]
      /\ d.t \in [Things -> Int \cup {Keep}] /\ d.size \in [Things -> Nat] /\ d.level \in [Things -> Int]
  BY DEF Document
<1>2. Put(d, v) = e
  <2>1. Put(d, v) = [d EXCEPT !.t = f(d.t, "t"), !.size = f(d.size, "size"), !.level = f(d.level, "level")]
    BY <1>1 DEF Put
  <2> HIDE DEF f
  <2>2. QED
    BY <1>1, <2>1
<1>3. \A x \in DOMAIN v : /\ v[x]["t"] \in Int \cup {Keep} /\ v[x]["size"] \in Nat \cup {Keep}
                          /\ v[x]["level"] \in Int \cup {Keep}
  BY ValuesType DEF Attr
<1>4. f(d.t, "t") \in [Things -> Int \cup {Keep}]
  BY <1>1, <1>3
<1>5. f(d.size, "size") \in [Things -> Nat]
  BY <1>1, <1>3
<1>6. f(d.level, "level") \in [Things -> Int]
  BY <1>1, <1>3
<1>7. \A x \in Things : f(d.t, "t")[x] = IF x \in DOMAIN v /\ v[x].t # Keep THEN v[x].t ELSE d.t[x]
  OBVIOUS
<1> HIDE DEF f
<1>8. e \in Document /\ e.tracks = d.tracks /\ e.on = d.on /\ e.t = f(d.t, "t")
  BY <1>1, <1>4, <1>5, <1>6 DEF Document
<1>9. QED
  BY <1>2, <1>7, <1>8

\* A list of one track is replaced.
LEMMA ListedType ==
    ASSUME NEW own \in Owners, NEW d \in Document, NEW k \in Tracks, NEW s \in Seq(Things),
           ToSet(s) \subseteq own[k], InOrder(d.t, s),
           \A j \in Tracks : \A x \in own[j] : d.t[x] \in Int,
           \A j \in Tracks \ {k} : ToSet(d.on[j]) \subseteq own[j] /\ InOrder(d.t, d.on[j])
    PROVE  [d EXCEPT !.on[k] = s] \in Docs(own)
<1> DEFINE e == [d EXCEPT !.on[k] = s]
           on == [d.on EXCEPT ![k] = s]
<1>1. /\ d.tracks \in Seq(Tracks) /\ d.on \in [Tracks -> Seq(Things)]
      /\ d.t \in [Things -> Int \cup {Keep}] /\ d.size \in [Things -> Nat] /\ d.level \in [Things -> Int]
  BY DEF Document
<1>2. on \in [Tracks -> Seq(Things)] /\ on[k] = s /\ \A j \in Tracks \ {k} : on[j] = d.on[j]
  BY <1>1
<1>3. e = [tracks |-> d.tracks, on |-> on, t |-> d.t, size |-> d.size, level |-> d.level]
  <2>1. d = [tracks |-> d.tracks, on |-> d.on, t |-> d.t, size |-> d.size, level |-> d.level]
    BY DEF Document
  <2>2. e = [d EXCEPT !.on = on]
    BY <2>1
  <2> HIDE DEF on, e
  <2>3. QED
    BY <2>1, <2>2
<1> HIDE DEF e, on
<1>4. e \in Document /\ e.on = on /\ e.t = d.t
  BY <1>1, <1>2, <1>3 DEF Document
<1>5. ASSUME NEW j \in Tracks
      PROVE  ToSet(e.on[j]) \subseteq own[j] /\ (\A x \in own[j] : e.t[x] \in Int) /\ InOrder(e.t, e.on[j])
  BY <1>2, <1>4
<1>6. QED
  BY <1>4, <1>5 DEF Docs, e

LEMMA DocsAre ==
    ASSUME NEW own \in Owners, NEW d \in Docs(own), NEW k \in Tracks
    PROVE  /\ d \in Document /\ own[k] \subseteq Things /\ d.on[k] \in Seq(own[k])
           /\ ToSet(d.on[k]) \subseteq own[k] /\ (\A x \in own[k] : d.t[x] \in Int)
           /\ InOrder(d.t, d.on[k])
<1>1. d \in Document /\ d.on[k] \in Seq(Things) /\ ToSet(d.on[k]) \subseteq own[k]
  BY DEF Docs, Document
<1>2. \A i \in 1..Len(d.on[k]) : d.on[k][i] \in own[k]
  BY <1>1, ToSetOf
<1>3. d.on[k] \in Seq(own[k])
  BY <1>1, <1>2
<1>4. QED
  BY <1>1, <1>3 DEF Docs, Owners

LEMMA SeqOfMore ==
    ASSUME NEW S, NEW T, S \subseteq T, NEW s \in Seq(S)
    PROVE  s \in Seq(T)
  OBVIOUS

\* Times of what belongs to one track are set, and that track is sorted.
LEMMA SetKeeps ==
    ASSUME NEW own \in Owners, NEW d \in Docs(own), NEW c \in Commands(own), c.k \in Sets,
           NEW v \in {c.was, c.will}
    PROVE  Set(d, c, v) \in Docs(own)
<1> DEFINE e == Put(d, v)
           k == c.track
<1>1. v \in Values /\ DOMAIN v \subseteq own[k] /\ k \in Tracks
  BY DEF Commands
<1>2. d \in Document
  BY DEF Docs
<1>3. /\ e \in Document /\ e.on = d.on
      /\ \A x \in Things :
            e.t[x] = IF x \in DOMAIN v /\ v[x].t # Keep THEN v[x].t ELSE d.t[x]
  BY <1>1, <1>2, PutType
<1> HIDE DEF e
<1>4. \A x \in DOMAIN v : v[x].t \in Int \cup {Keep}
  BY <1>1, ValuesType DEF Attr
<1>5. ASSUME NEW j \in Tracks, NEW x \in own[j] PROVE e.t[x] \in Int
  <2>1. x \in Things /\ d.t[x] \in Int
    BY DocsAre
  <2>2. QED
    BY <1>3, <1>4, <2>1
<1>6. ASSUME NEW j \in Tracks, \A x \in own[j] : x \notin DOMAIN v \/ v[x].t = Keep
      PROVE  InOrder(e.t, d.on[j])
  <2>1. \A x \in own[j] : x \in Things /\ e.t[x] = d.t[x]
    BY <1>3, <1>6, DocsAre
  <2>2. \A i \in DOMAIN d.on[j] : d.on[j][i] \in own[j]
    BY DocsAre DEF ToSet
  <2>3. QED
    BY <2>1, <2>2, DocsAre DEF InOrder
<1>7. CASE c.k = "resizeCues"
  <2>1. \A j \in Tracks : InOrder(e.t, d.on[j])
    BY <1>6, <1>7 DEF Commands
  <2>2. Set(d, c, v) = e
    BY <1>7 DEF Set, e
  <2>3. \A j \in Tracks : ToSet(e.on[j]) \subseteq own[j]
    BY <1>3, DocsAre
  <2>4. QED
    BY <1>3, <1>5, <2>1, <2>2, <2>3 DEF Docs
<1>8. CASE c.k # "resizeCues"
  <2> DEFINE s == Normalise(e.t, d.on[k])
  <2>1. Set(d, c, v) = [e EXCEPT !.on[k] = Normalise(e.t, e.on[k])]
    BY <1>8 DEF Set, e
  <2>2. d.on[k] \in Seq(own[k]) /\ own[k] \subseteq Things /\ \A x \in own[k] : e.t[x] \in Int
    BY <1>1, <1>5, DocsAre
  <2>3. s \in Seq(own[k]) /\ InOrder(e.t, s) /\ ToSet(s) = ToSet(d.on[k])
    BY <2>2, NormaliseSorts
  <2> HIDE DEF s
  <2>4. s \in Seq(Things) /\ ToSet(s) \subseteq own[k]
    BY <1>1, <2>2, <2>3, DocsAre, SeqOfMore
  <2>5. \A j \in Tracks \ {k} : ToSet(e.on[j]) \subseteq own[j] /\ InOrder(e.t, e.on[j])
    <3> SUFFICES ASSUME NEW j \in Tracks \ {k}
                 PROVE  ToSet(d.on[j]) \subseteq own[j] /\ InOrder(e.t, d.on[j])
      BY <1>3
    <3>1. own[j] \cap own[k] = {}
      BY <1>1 DEF Owners
    <3>2. QED
      BY <1>1, <1>6, <3>1, DocsAre
  <2>6. [e EXCEPT !.on[k] = s] \in Docs(own)
    BY <1>1, <1>3, <1>5, <2>3, <2>4, <2>5, ListedType
  <2>7. QED
    BY <1>3, <2>1, <2>6 DEF s
<1>9. QED
  BY <1>7, <1>8

LEMMA RowsKeep ==
    ASSUME NEW own \in Owners, NEW d \in Docs(own), NEW s \in Seq(Tracks)
    PROVE  [d EXCEPT !.tracks = s] \in Docs(own)
<1> DEFINE e == [d EXCEPT !.tracks = s]
<1>1. d \in Document
  BY DEF Docs
<1>2. e \in Document /\ e.on = d.on /\ e.t = d.t
  BY <1>1 DEF Document
<1> HIDE DEF e
<1>3. e \in Docs(own)
  BY <1>2 DEF Docs
<1>4. QED
  BY <1>3 DEF e

LEMMA PutOnKeeps ==
    ASSUME NEW own \in Owners, NEW d \in Docs(own), NEW c \in Commands(own)
    PROVE  PutOn(d, c) \in Docs(own)
<1> DEFINE k == c.track
           s == Normalise(d.t, d.on[k] \o c.things)
<1>1. k \in Tracks /\ c.things \in Seq(Things) /\ ToSet(c.things) \subseteq own[k]
  BY DEF Commands
<1>2. c.things \in Seq(own[k])
  <2>1. \A i \in 1..Len(c.things) : c.things[i] \in own[k]
    BY <1>1, ToSetOf
  <2>2. QED
    BY <1>1, <2>1
<1>3. /\ d \in Document /\ d.on[k] \in Seq(own[k]) /\ own[k] \subseteq Things
      /\ \A x \in own[k] : d.t[x] \in Int
  BY <1>1, DocsAre
<1>4. d.on[k] \o c.things \in Seq(own[k])
  BY <1>2, <1>3, ConcatProperties
<1>5. s \in Seq(own[k]) /\ InOrder(d.t, s)
  BY <1>3, <1>4, NormaliseSorts
<1> HIDE DEF s
<1>6. s \in Seq(Things) /\ ToSet(s) \subseteq own[k]
  BY <1>3, <1>5, ToSetOf, SeqOfMore
<1>7. \A j \in Tracks : /\ \A x \in own[j] : d.t[x] \in Int
                        /\ ToSet(d.on[j]) \subseteq own[j] /\ InOrder(d.t, d.on[j])
  BY DocsAre
<1>8. [d EXCEPT !.on[k] = s] \in Docs(own)
  BY <1>1, <1>3, <1>5, <1>6, <1>7, ListedType
<1>9. QED
  BY <1>8 DEF PutOn, s

LEMMA TakeOffKeeps ==
    ASSUME NEW own \in Owners, NEW d \in Docs(own), NEW c \in Commands(own)
    PROVE  TakeOff(d, c) \in Docs(own)
<1> DEFINE k == c.track
           s == Among(d.on[k], Things \ ToSet(c.things))
<1>1. k \in Tracks
  BY DEF Commands
<1>2. /\ d \in Document /\ d.on[k] \in Seq(own[k]) /\ own[k] \subseteq Things
      /\ (\A x \in own[k] : d.t[x] \in Int) /\ InOrder(d.t, d.on[k])
  BY <1>1, DocsAre
<1>3. s \in Seq(own[k])
  BY <1>2, AmongKeeps
<1>4. InOrder(d.t, s)
  BY <1>2, AmongInOrder
<1> HIDE DEF s
<1>5. s \in Seq(Things) /\ ToSet(s) \subseteq own[k]
  BY <1>2, <1>3, ToSetOf, SeqOfMore
<1>6. \A j \in Tracks : /\ \A x \in own[j] : d.t[x] \in Int
                        /\ ToSet(d.on[j]) \subseteq own[j] /\ InOrder(d.t, d.on[j])
  BY DocsAre
<1>7. [d EXCEPT !.on[k] = s] \in Docs(own)
  BY <1>1, <1>2, <1>4, <1>5, <1>6, ListedType
<1>8. QED
  BY <1>7 DEF TakeOff, s

LEMMA RowCommandsKeep ==
    ASSUME NEW own \in Owners, NEW d \in Docs(own), NEW c \in Commands(own)
    PROVE  /\ AddLast(d, c) \in Docs(own) /\ TakeOut(d, c) \in Docs(own)
           /\ c.k = "removeTrack" => PutBack(d, c) \in Docs(own)
<1>1. c.track \in Tracks /\ c.at \in Nat /\ (c.k = "removeTrack" => c.at >= 1)
  BY DEF Commands
<1>2. d.tracks \in Seq(Tracks) /\ Len(d.tracks) \in Nat
  <2>1. d.tracks \in Seq(Tracks)
    BY DEF Docs, Document
  <2>2. QED
    BY <2>1
<1>3. AddLast(d, c) \in Docs(own)
  <2>1. Append(d.tracks, c.track) \in Seq(Tracks)
    BY <1>1, <1>2, AppendProperties
  <2>2. QED
    BY <2>1, RowsKeep DEF AddLast
<1>4. TakeOut(d, c) \in Docs(own)
  <2>1. Among(d.tracks, Tracks \ {c.track}) \in Seq(Tracks)
    BY <1>2, AmongKeeps
  <2>2. QED
    BY <2>1, RowsKeep DEF TakeOut
<1>5. ASSUME c.k = "removeTrack" PROVE PutBack(d, c) \in Docs(own)
  <2> DEFINE p == IF c.at > Len(d.tracks) THEN Len(d.tracks) + 1 ELSE c.at
  <2>1. p \in 1..(Len(d.tracks) + 1)
    BY <1>1, <1>2, <1>5
  <2> HIDE DEF p
  <2>2. InsertAt(d.tracks, p, c.track) \in Seq(Tracks)
    BY <1>1, <1>2, <2>1, InsertAtIs
  <2>3. QED
    BY <2>2, RowsKeep DEF PutBack, p
<1>6. QED
  BY <1>3, <1>4, <1>5

LEMMA OneKeeps ==
    ASSUME NEW own \in Owners, NEW d \in Docs(own), NEW c \in Commands(own)
    PROVE  ApplyOne(d, c) \in Docs(own) /\ RevertOne(d, c) \in Docs(own)
<1>1. c.k \in Kinds
  BY DEF Commands
<1>2. CASE c.k \in Sets
  <2>1. ApplyOne(d, c) = Set(d, c, c.will) /\ RevertOne(d, c) = Set(d, c, c.was)
    <3>1. c.k \notin {"insert", "remove", "addTrack", "removeTrack"}
      BY <1>2 DEF Sets
    <3>2. QED
      BY <1>2, <3>1 DEF ApplyOne, RevertOne
  <2>2. Set(d, c, c.will) \in Docs(own) /\ Set(d, c, c.was) \in Docs(own)
    BY <1>2, SetKeeps
  <2>3. QED
    BY <2>1, <2>2
<1>3. CASE c.k = "insert"
  <2>1. c.k \notin Sets
    BY <1>3 DEF Sets
  <2>2. ApplyOne(d, c) = PutOn(d, c) /\ RevertOne(d, c) = TakeOff(d, c)
    BY <1>3, <2>1 DEF ApplyOne, RevertOne
  <2>3. QED
    BY <2>2, PutOnKeeps, TakeOffKeeps
<1>4. CASE c.k = "remove"
  <2>1. c.k \notin Sets
    BY <1>4 DEF Sets
  <2>2. ApplyOne(d, c) = TakeOff(d, c) /\ RevertOne(d, c) = PutOn(d, c)
    BY <1>4, <2>1 DEF ApplyOne, RevertOne
  <2>3. QED
    BY <2>2, PutOnKeeps, TakeOffKeeps
<1>5. CASE c.k = "addTrack"
  <2>1. c.k \notin Sets
    BY <1>5 DEF Sets
  <2>2. ApplyOne(d, c) = AddLast(d, c) /\ RevertOne(d, c) = TakeOut(d, c)
    BY <1>5, <2>1 DEF ApplyOne, RevertOne
  <2>3. QED
    BY <2>2, RowCommandsKeep
<1>6. CASE c.k = "removeTrack"
  <2>1. c.k \notin Sets
    BY <1>6 DEF Sets
  <2>2. ApplyOne(d, c) = TakeOut(d, c) /\ RevertOne(d, c) = PutBack(d, c)
    BY <1>6, <2>1 DEF ApplyOne, RevertOne
  <2>3. QED
    BY <1>6, <2>2, RowCommandsKeep
<1>7. QED
  BY <1>1, <1>2, <1>3, <1>4, <1>5, <1>6 DEF Kinds

LEMMA ApplyLoop ==
    ASSUME NEW own \in Owners, NEW d \in Docs(own), NEW cmds \in Seq(Commands(own))
    PROVE  \E out \in [0..Len(cmds) -> Docs(own)] :
              /\ out[0] = d
              /\ \A i \in 1..Len(cmds) : out[i] = ApplyOne(out[i - 1], cmds[i])
              /\ Apply(d, cmds) = out[Len(cmds)]
<1> DEFINE n == Len(cmds)
           V == Docs(own)
           step == [p \in (1..n) \X V |-> ApplyOne(p[2], cmds[p[1]])]
           Runs(out) == out = [i \in 0..n |-> IF i = 0 THEN d ELSE ApplyOne(out[i - 1], cmds[i])]
           out0 == CHOOSE out : Runs(out)
<1>1. n \in Nat /\ \A i \in 1..n : cmds[i] \in Commands(own)
  OBVIOUS
<1>2. step \in [(1..n) \X V -> V]
  <2>1. \A i \in 1..n : \A m \in V : ApplyOne(m, cmds[i]) \in V
    BY <1>1, OneKeeps
  <2> HIDE DEF V, n
  <2>2. QED
    BY <2>1
<1>3. \A i \in 1..n : \A m \in V : step[<<i, m>>] = ApplyOne(m, cmds[i])
  OBVIOUS
<1>4. d \in V
  OBVIOUS
<1> HIDE DEF n, step, V
<1>5. PICK out \in [0..n -> V] : out[0] = d /\ \A i \in 1..n : out[i] = step[<<i, out[i - 1]>>]
  <2>1. \E out \in [0..n -> V] : Turns(n, d, step, out)
    BY <1>1, <1>2, <1>4, LoopExists
  <2>2. QED
    BY <2>1 DEF Turns
<1>6. Runs(out)
  <2>1. ASSUME NEW i \in 1..n PROVE out[i] = ApplyOne(out[i - 1], cmds[i])
    <3>1. out[i - 1] \in V
      BY <1>1
    <3>2. QED
      BY <1>3, <1>5, <3>1
  <2>2. QED
    BY <1>1, <1>5, <2>1
<1>7. Runs(out0)
  <2> HIDE DEF Runs
  <2>1. QED
    BY <1>6
<1>8. Apply(d, cmds) = out0[n]
  BY DEF Apply, n
<1> HIDE DEF out0
<1>9. out0[0] = d /\ \A i \in 1..n : out0[i] = ApplyOne(out0[i - 1], cmds[i])
  BY <1>1, <1>7
<1>10. out0 \in [0..n -> V]
  <2> DEFINE T == {i \in 0..n : out0[i] \in V}
  <2>1. 0 \in T
    BY <1>1, <1>4, <1>9
  <2>2. ASSUME NEW i \in 1..n, i - 1 \in T PROVE i \in T
    <3>1. out0[i - 1] \in V /\ i \in 0..n
      BY <1>1, <2>2
    <3>2. out0[i] \in V
      BY <1>1, <1>9, <3>1, OneKeeps DEF V
    <3>3. QED
      BY <3>1, <3>2
  <2>3. 0..n \subseteq T
    <3> HIDE DEF T
    <3>1. QED
      BY <1>1, <2>1, <2>2, StepByStep
  <2>4. \A i \in 0..n : out0[i] \in V
    BY <2>3
  <2>5. QED
    BY <1>7, <2>4
<1>11. QED
  BY <1>8, <1>9, <1>10 DEF n, V

LEMMA RevertLoop ==
    ASSUME NEW own \in Owners, NEW d \in Docs(own), NEW cmds \in Seq(Commands(own))
    PROVE  \E out \in [0..Len(cmds) -> Docs(own)] :
              /\ out[0] = d
              /\ \A i \in 1..Len(cmds) : out[i] = RevertOne(out[i - 1], cmds[Len(cmds) + 1 - i])
              /\ Revert(d, cmds) = out[Len(cmds)]
<1> DEFINE n == Len(cmds)
           V == Docs(own)
           step == [p \in (1..n) \X V |-> RevertOne(p[2], cmds[n + 1 - p[1]])]
           Runs(out) == out = [i \in 0..n |-> IF i = 0 THEN d ELSE RevertOne(out[i - 1], cmds[n + 1 - i])]
           out0 == CHOOSE out : Runs(out)
<1>1. n \in Nat /\ \A i \in 1..n : cmds[n + 1 - i] \in Commands(own)
  OBVIOUS
<1>2. step \in [(1..n) \X V -> V]
  <2>1. \A i \in 1..n : \A m \in V : RevertOne(m, cmds[n + 1 - i]) \in V
    BY <1>1, OneKeeps
  <2> HIDE DEF V, n
  <2>2. QED
    BY <2>1
<1>3. \A i \in 1..n : \A m \in V : step[<<i, m>>] = RevertOne(m, cmds[n + 1 - i])
  OBVIOUS
<1>4. d \in V
  OBVIOUS
<1> HIDE DEF n, step, V
<1>5. PICK out \in [0..n -> V] : out[0] = d /\ \A i \in 1..n : out[i] = step[<<i, out[i - 1]>>]
  <2>1. \E out \in [0..n -> V] : Turns(n, d, step, out)
    BY <1>1, <1>2, <1>4, LoopExists
  <2>2. QED
    BY <2>1 DEF Turns
<1>6. Runs(out)
  <2>1. ASSUME NEW i \in 1..n PROVE out[i] = RevertOne(out[i - 1], cmds[n + 1 - i])
    <3>1. out[i - 1] \in V
      BY <1>1
    <3>2. QED
      BY <1>3, <1>5, <3>1
  <2>2. QED
    BY <1>1, <1>5, <2>1
<1>7. Runs(out0)
  <2> HIDE DEF Runs
  <2>1. QED
    BY <1>6
<1>8. Revert(d, cmds) = out0[n]
  BY DEF Revert, n
<1> HIDE DEF out0
<1>9. out0[0] = d /\ \A i \in 1..n : out0[i] = RevertOne(out0[i - 1], cmds[n + 1 - i])
  BY <1>1, <1>7
<1>10. out0 \in [0..n -> V]
  <2> DEFINE T == {i \in 0..n : out0[i] \in V}
  <2>1. 0 \in T
    BY <1>1, <1>4, <1>9
  <2>2. ASSUME NEW i \in 1..n, i - 1 \in T PROVE i \in T
    <3>1. out0[i - 1] \in V /\ i \in 0..n
      BY <1>1, <2>2
    <3>2. out0[i] \in V
      BY <1>1, <1>9, <3>1, OneKeeps DEF V
    <3>3. QED
      BY <3>1, <3>2
  <2>3. 0..n \subseteq T
    <3> HIDE DEF T
    <3>1. QED
      BY <1>1, <2>1, <2>2, StepByStep
  <2>4. \A i \in 0..n : out0[i] \in V
    BY <2>3
  <2>5. QED
    BY <1>7, <2>4
<1>11. QED
  BY <1>8, <1>9, <1>10 DEF n, V

LEMMA BatchKeeps ==
    ASSUME NEW own \in Owners, NEW d \in Docs(own), NEW cmds \in Seq(Commands(own))
    PROVE  Apply(d, cmds) \in Docs(own) /\ Revert(d, cmds) \in Docs(own)
<1>1. Len(cmds) \in Nat /\ Len(cmds) \in 0..Len(cmds)
  OBVIOUS
<1>2. Apply(d, cmds) \in Docs(own)
  BY <1>1, ApplyLoop
<1>3. Revert(d, cmds) \in Docs(own)
  BY <1>1, RevertLoop
<1>4. QED
  BY <1>2, <1>3

-----------------------------------------------------------------------------
(* What is made comes to belong to a track *)

Grown(own, more) == \A k \in Tracks : own[k] \subseteq more[k]

LEMMA GrownEntries ==
    ASSUME NEW own \in Owners, NEW more \in Owners, Grown(own, more)
    PROVE  /\ Commands(own) \subseteq Commands(more) /\ Batches(own) \subseteq Batches(more)
           /\ Entries(own) \subseteq Entries(more) /\ Seq(Entries(own)) \subseteq Seq(Entries(more))
<1>1. ASSUME NEW c \in Commands(own) PROVE c \in Commands(more)
  <2>1. c.track \in Tracks
    BY DEF Commands
  <2>2. own[c.track] \subseteq more[c.track]
    BY <2>1 DEF Grown
  <2>3. QED
    BY <2>2 DEF Commands
<1>2. Seq(Commands(own)) \subseteq Seq(Commands(more))
  <2>1. Commands(own) \subseteq Commands(more)
    BY <1>1
  <2>2. QED
    BY <2>1, SeqOfMore
<1>3. Batches(own) \subseteq Batches(more)
  BY <1>2 DEF Batches
<1>4. Entries(own) \subseteq Entries(more)
  BY <1>3 DEF Entries
<1>5. Seq(Entries(own)) \subseteq Seq(Entries(more))
  BY <1>4, SeqOfMore
<1>6. QED
  BY <1>1, <1>3, <1>4, <1>5

LEMMA MadeKeeps ==
    ASSUME NEW own \in Owners, NEW d \in Docs(own), NEW k \in Tracks,
           NEW v \in Values, \A x \in DOMAIN v : d.t[x] = Keep /\ v[x].t \in Int
    PROVE  \E more \in Owners : /\ Grown(own, more) /\ DOMAIN v \subseteq more[k]
                                /\ Put(d, v) \in Docs(more)
<1> DEFINE more == [own EXCEPT ![k] = @ \cup DOMAIN v]
           e == Put(d, v)
<1>1. own \in [Tracks -> SUBSET Things] /\ \A i, j \in Tracks : i # j => own[i] \cap own[j] = {}
  BY DEF Owners
<1>2. DOMAIN v \subseteq Things
  BY ValuesType
<1>3. /\ more \in [Tracks -> SUBSET Things] /\ more[k] = own[k] \cup DOMAIN v
      /\ \A j \in Tracks \ {k} : more[j] = own[j]
  BY <1>1, <1>2
<1> HIDE DEF more
<1>4. \A j \in Tracks : own[j] \cap DOMAIN v = {}
  <2>1. \A j \in Tracks : \A x \in own[j] : d.t[x] \in Int
    BY DocsAre
  <2>2. QED
    BY <2>1, EditingAssumption
<1>5. more \in Owners
  BY <1>1, <1>3, <1>4 DEF Owners
<1>6. Grown(own, more)
  BY <1>3 DEF Grown
<1>7. d \in Document
  BY DEF Docs
<1>8. /\ e \in Document /\ e.on = d.on
      /\ \A x \in Things :
            e.t[x] = IF x \in DOMAIN v /\ v[x].t # Keep THEN v[x].t ELSE d.t[x]
  BY <1>7, PutType
<1> HIDE DEF e
<1>9. ASSUME NEW j \in Tracks, NEW x \in more[j] PROVE e.t[x] \in Int
  <2>1. CASE x \in DOMAIN v
    <3>1. x \in Things /\ v[x].t \in Int /\ v[x].t # Keep
      BY <1>2, <2>1, EditingAssumption
    <3>2. QED
      BY <1>8, <2>1, <3>1
  <2>2. CASE x \notin DOMAIN v
    <3>1. x \in own[j]
      BY <1>3, <2>2
    <3>2. x \in Things /\ d.t[x] \in Int
      BY <3>1, DocsAre
    <3>3. QED
      BY <1>8, <2>2, <3>2
  <2>3. QED
    BY <2>1, <2>2
<1>10. ASSUME NEW j \in Tracks PROVE ToSet(e.on[j]) \subseteq more[j] /\ InOrder(e.t, e.on[j])
  <2>1. ToSet(d.on[j]) \subseteq own[j] /\ InOrder(d.t, d.on[j]) /\ own[j] \subseteq Things
    BY DocsAre
  <2>2. \A i \in DOMAIN d.on[j] : d.on[j][i] \in own[j]
    BY <2>1 DEF ToSet
  <2>3. \A x \in own[j] : e.t[x] = d.t[x]
    BY <1>4, <1>8, <2>1
  <2>4. InOrder(e.t, d.on[j])
    BY <2>1, <2>2, <2>3 DEF InOrder
  <2>5. QED
    BY <1>6, <1>8, <2>1, <2>4 DEF Grown
<1>11. e \in Docs(more)
  BY <1>8, <1>9, <1>10 DEF Docs
<1>12. QED
  BY <1>3, <1>5, <1>6, <1>11 DEF e

-----------------------------------------------------------------------------
(* The commands that edits are made of *)

LEMMA AtType ==
    ASSUME NEW t \in Int \cup {Keep}, NEW size \in Nat \cup {Keep}, NEW level \in Int \cup {Keep}
    PROVE  At(t, size, level) \in Attr /\ At(t, size, level).t = t
  BY DEF At, Attr

LEMMA SetCommandType ==
    ASSUME NEW own \in Owners, NEW kind \in Sets, NEW k \in Tracks, NEW D, D \subseteq own[k],
           NEW was \in [D -> Attr], NEW will \in [D -> Attr],
           kind = "resizeCues" => \A x \in D : was[x].t = Keep /\ will[x].t = Keep
    PROVE  SetCommand(kind, k, was, will) \in Commands(own)
<1> DEFINE c == SetCommand(kind, k, was, will)
<1>1. D \in SUBSET Things
  BY DEF Owners
<1>2. was \in Values /\ will \in Values
  BY <1>1 DEF Values
<1>3. <<>> \in Seq(Things) /\ ToSet(<<>>) = {}
  BY EmptySeq DEF ToSet
<1>4. kind \in Kinds /\ kind # "removeTrack"
  BY DEF Kinds, Sets
<1>5. c = [k |-> kind, track |-> k, was |-> was, will |-> will, things |-> <<>>, at |-> 0]
  BY DEF SetCommand
<1> HIDE DEF c
<1>6. c \in [k : Kinds, track : Tracks, was : Values, will : Values, things : Seq(Things), at : Nat]
  BY <1>2, <1>3, <1>4, <1>5
<1>7. /\ c.k = kind /\ c.track = k /\ c.was = was /\ c.will = will /\ c.things = <<>>
      /\ DOMAIN was = D /\ DOMAIN will = D
  BY <1>5
<1>8. c \in Commands(own)
  BY <1>3, <1>4, <1>6, <1>7 DEF Commands
<1>9. QED
  BY <1>8 DEF c

LEMMA MoveCuesType ==
    ASSUME NEW own \in Owners, NEW k \in Tracks, NEW D, D \subseteq own[k],
           NEW from \in [D -> Int], NEW to \in [D -> Int]
    PROVE  MoveCues(k, from, to) \in Commands(own) /\ MoveCues(k, from, to).k = "moveCues"
<1>1. \A x \in D : At(from[x], Keep, Keep) \in Attr /\ At(to[x], Keep, Keep) \in Attr
  BY AtType
<1>2. /\ [x \in DOMAIN from |-> At(from[x], Keep, Keep)] \in [D -> Attr]
      /\ [x \in DOMAIN to |-> At(to[x], Keep, Keep)] \in [D -> Attr]
  BY <1>1
<1>3. "moveCues" \in Sets /\ "moveCues" # "resizeCues"
  BY DEF Sets
<1>4. QED
  BY <1>2, <1>3, SetCommandType DEF MoveCues, SetCommand

LEMMA MovePointsType ==
    ASSUME NEW own \in Owners, NEW k \in Tracks, NEW D, D \subseteq own[k],
           NEW was \in [D -> Attr], NEW will \in [D -> Attr]
    PROVE  MovePoints(k, was, will) \in Commands(own) /\ MovePoints(k, was, will).k = "movePoints"
<1>1. "movePoints" \in Sets /\ "movePoints" # "resizeCues"
  BY DEF Sets
<1>2. QED
  BY <1>1, SetCommandType DEF MovePoints, SetCommand

LEMMA LargerType ==
    ASSUME NEW a \in Int, NEW b \in Int PROVE Larger(a, b) \in Int /\ (a \in Nat => Larger(a, b) \in Nat)
  BY DEF Larger

LEMMA ClampType ==
    ASSUME NEW x \in Int, NEW lo \in Int, NEW hi \in Int PROVE Clamp(x, lo, hi) \in Int
  BY DEF Clamp

LEMMA ResizeCuesType ==
    ASSUME NEW own \in Owners, NEW k \in Tracks, NEW x \in own[k],
           NEW from \in Nat, NEW to \in Int, NEW min \in Nat
    PROVE  /\ ResizeCues(k, x, from, to, min) \in Commands(own)
           /\ ResizeCues(k, x, from, to, min).k = "resizeCues"
<1>1. Keep \in Int \cup {Keep} /\ from \in Nat \cup {Keep} /\ Larger(min, to) \in Nat \cup {Keep}
  <2>1. min \in Int
    OBVIOUS
  <2>2. Larger(min, to) \in Nat
    BY <2>1, LargerType
  <2>3. QED
    BY <2>2
<1>2. /\ At(Keep, from, Keep) \in Attr /\ At(Keep, from, Keep).t = Keep
      /\ At(Keep, Larger(min, to), Keep) \in Attr /\ At(Keep, Larger(min, to), Keep).t = Keep
  BY <1>1, AtType
<1> DEFINE was == [y \in {x} |-> At(Keep, from, Keep)]
           will == [y \in {x} |-> At(Keep, Larger(min, to), Keep)]
<1>3. was \in [{x} -> Attr] /\ will \in [{x} -> Attr]
  BY <1>2
<1>4. \A y \in {x} : was[y].t = Keep /\ will[y].t = Keep
  BY <1>2
<1>5. "resizeCues" \in Sets /\ {x} \subseteq own[k]
  BY DEF Sets
<1> HIDE DEF was, will
<1>6. SetCommand("resizeCues", k, was, will) \in Commands(own)
  BY <1>3, <1>4, <1>5, SetCommandType
<1>7. QED
  BY <1>6 DEF ResizeCues, SetCommand, was, will

LEMMA ListCommandType ==
    ASSUME NEW own \in Owners, NEW kind \in Kinds \ Sets, NEW k \in Tracks,
           NEW things \in Seq(own[k]), NEW at \in Nat, kind = "removeTrack" => at >= 1
    PROVE  ListCommand(kind, k, things, at) \in Commands(own)
<1> DEFINE c == ListCommand(kind, k, things, at)
<1>1. own[k] \subseteq Things
  BY DEF Owners
<1>2. things \in Seq(Things) /\ ToSet(things) \subseteq own[k]
  BY <1>1, SeqOfMore, ToSetOf
<1>3. Nothing \in Values /\ DOMAIN Nothing = {}
  <2>1. Nothing \in [{} -> Attr] /\ {} \in SUBSET Things
    BY DEF Nothing
  <2>2. QED
    BY <2>1 DEF Values, Nothing
<1>4. kind # "resizeCues" /\ kind \in Kinds
  BY DEF Sets
<1>5. c = [k |-> kind, track |-> k, was |-> Nothing, will |-> Nothing, things |-> things, at |-> at]
  BY DEF ListCommand
<1> HIDE DEF c
<1>6. c \in [k : Kinds, track : Tracks, was : Values, will : Values, things : Seq(Things), at : Nat]
  BY <1>2, <1>3, <1>4, <1>5
<1>7. /\ c.k = kind /\ c.track = k /\ c.was = Nothing /\ c.will = Nothing
      /\ c.things = things /\ c.at = at
  BY <1>5
<1>8. c \in Commands(own)
  BY <1>2, <1>3, <1>4, <1>6, <1>7 DEF Commands
<1>9. QED
  BY <1>8 DEF c

LEMMA RemoveThingsType ==
    ASSUME NEW own \in Owners, NEW d \in Docs(own), NEW k \in Tracks, NEW S
    PROVE  RemoveThings(d, k, S) \in Commands(own)
<1>1. d.on[k] \in Seq(own[k])
  BY DocsAre
<1>2. Among(d.on[k], WithOrphans(d, k, S)) \in Seq(own[k])
  BY <1>1, AmongKeeps
<1>3. "remove" \in Kinds \ Sets
  BY DEF Kinds, Sets
<1>4. QED
  BY <1>2, <1>3, ListCommandType DEF RemoveThings

LEMMA InsertThingsType ==
    ASSUME NEW own \in Owners, NEW k \in Tracks, NEW F, F \subseteq own[k], IsFiniteSet(F)
    PROVE  InsertThings(k, F) \in Commands(own)
<1>1. SetToSeq(F) \in Seq(own[k])
  BY SetToSeqType
<1>2. "insert" \in Kinds \ Sets
  BY DEF Kinds, Sets
<1>3. QED
  BY <1>1, <1>2, ListCommandType DEF InsertThings

LEMMA BatchOf ==
    ASSUME NEW own \in Owners, NEW c \in Commands(own)
    PROVE  <<c>> \in Batches(own) /\ <<c>>[1] = c
<1>1. <<c>> \in Seq(Commands(own)) /\ Len(<<c>>) = 1
  OBVIOUS
<1>2. <<c>> # <<>>
  BY <1>1
<1>3. QED
  BY <1>1, <1>2 DEF Batches

LEMMA BatchOfTwo ==
    ASSUME NEW own \in Owners, NEW c \in Commands(own), NEW b \in Commands(own)
    PROVE  <<c, b>> \in Batches(own)
<1>1. <<c, b>> \in Seq(Commands(own)) /\ Len(<<c, b>>) = 2
  OBVIOUS
<1>2. <<c, b>> # <<>>
  BY <1>1
<1>3. QED
  BY <1>1, <1>2 DEF Batches

-----------------------------------------------------------------------------
(* The undo stack *)

\* The command an entry begins with.
First1(entry) == entry.cmds[1]

LEMMA MergeType ==
    ASSUME NEW own \in Owners, NEW top \in Commands(own), NEW next \in Commands(own),
           next.k = "resizeCues" => top.k = "resizeCues"
    PROVE  Merge(top, next) \in Commands(own) /\ Merge(top, next).k = next.k
<1> DEFINE was == [x \in DOMAIN next.was |-> IF x \in DOMAIN top.was THEN top.was[x] ELSE next.was[x]]
           c == [next EXCEPT !.was = was]
<1>1. Merge(top, next) = c
  BY DEF Merge, Commands
<1>2. /\ top.was \in Values /\ next.was \in Values
      /\ next \in [k : Kinds, track : Tracks, was : Values, will : Values, things : Seq(Things), at : Nat]
  BY DEF Commands
<1>3. /\ DOMAIN next.was \subseteq Things /\ \A x \in DOMAIN next.was : next.was[x] \in Attr
      /\ \A x \in DOMAIN top.was : top.was[x] \in Attr
  BY <1>2, ValuesType
<1>4. was \in [DOMAIN next.was -> Attr]
  BY <1>3
<1>5. was \in Values /\ DOMAIN was = DOMAIN next.was
  BY <1>3, <1>4 DEF Values
<1>6. next.k = "resizeCues" => \A x \in DOMAIN was : was[x].t = Keep
  BY DEF Commands
<1> HIDE DEF was
<1>7. /\ c.k = next.k /\ c.track = next.track /\ c.was = was /\ c.will = next.will
      /\ c.things = next.things /\ c.at = next.at
      /\ c \in [k : Kinds, track : Tracks, was : Values, will : Values, things : Seq(Things), at : Nat]
  BY <1>2, <1>5
<1> HIDE DEF c
<1>8. c \in Commands(own)
  BY <1>5, <1>6, <1>7 DEF Commands
<1>9. QED
  BY <1>1, <1>7, <1>8

\* A run leaves an entry that begins with a command of the kind that was run. A
\* command is merged into one about lengths only if it is about them itself.
LEMMA RunOnKeeps ==
    ASSUME NEW own \in Owners, NEW e \in Editors(own), NEW cmds \in Batches(own),
           NEW k \in Keys, NEW honest \in BOOLEAN,
           k # NoKey /\ e.key = k /\ Len(e.past) > 0 /\ cmds[1].k = "resizeCues"
               => First1(e.past[Len(e.past)]).k = "resizeCues"
    PROVE  LET r == RunOn(e, cmds, k, honest)
           IN /\ r \in Editors(own) /\ r.key = k /\ Len(r.past) > 0
              /\ First1(r.past[Len(r.past)]).k = cmds[1].k
<1> DEFINE n == Len(e.past)
           r == RunOn(e, cmds, k, honest)
           merging == k # NoKey /\ e.key = k /\ n > 0
           merged == [e.past EXCEPT ![n].cmds = <<Merge(@[1], cmds[1])>>]
           pushed == Append(e.past, Entry(cmds, e.doc, honest))
<1>1. /\ e.doc \in Docs(own) /\ e.past \in Seq(Entries(own)) /\ e.edits \in Nat /\ n \in Nat
      /\ cmds \in Seq(Commands(own)) /\ cmds # <<>>
  BY DEF Editors, Batches
<1>2. Len(cmds) \in Nat /\ Len(cmds) > 0 /\ cmds[1] \in Commands(own)
  <2>1. Len(cmds) # 0
    BY <1>1
  <2>2. Len(cmds) \in Nat /\ 1 \in 1..Len(cmds)
    BY <1>1, <2>1
  <2>3. QED
    BY <1>1, <2>2
<1>3. Apply(e.doc, cmds) \in Docs(own)
  BY <1>1, BatchKeeps
<1>4. ASSUME merging
      PROVE  merged \in Seq(Entries(own)) /\ Len(merged) = n /\ First1(merged[n]).k = cmds[1].k
  <2> DEFINE top == e.past[n]
             next == Merge(First1(top), cmds[1])
  <2>1. n \in 1..n /\ top \in Entries(own)
    BY <1>1, <1>4
  <2>2. top.cmds \in Seq(Commands(own)) /\ top.cmds # <<>>
    BY <2>1 DEF Entries, Batches
  <2>3. First1(top) \in Commands(own)
    <3>1. Len(top.cmds) \in Nat /\ 1 \in 1..Len(top.cmds)
      BY <2>2
    <3>2. QED
      BY <2>2, <3>1 DEF First1
  <2>4. next \in Commands(own) /\ next.k = cmds[1].k
    BY <1>2, <1>4, <2>3, MergeType
  <2>5. merged = [e.past EXCEPT ![n] = [top EXCEPT !.cmds = <<next>>]]
    BY <1>1, <2>1 DEF First1
  <2> HIDE DEF next, top
  <2>6. <<next>> \in Batches(own) /\ <<next>>[1] = next
    BY <2>4, BatchOf
  <2> DEFINE new == [top EXCEPT !.cmds = <<next>>]
  <2>7. new \in Entries(own) /\ new.cmds = <<next>>
    BY <2>1, <2>6 DEF Entries
  <2> HIDE DEF new, merged
  <2>8. merged \in Seq(Entries(own)) /\ Len(merged) = n /\ merged[n] = new
    BY <1>1, <2>1, <2>5, <2>7 DEF new
  <2>9. QED
    BY <2>4, <2>6, <2>7, <2>8 DEF First1
<1>5. pushed \in Seq(Entries(own)) /\ Len(pushed) = n + 1 /\ First1(pushed[n + 1]).k = cmds[1].k
  <2> DEFINE new == Entry(cmds, e.doc, honest)
  <2>1. e.doc \in Document
    BY <1>1 DEF Docs
  <2>2. new \in Entries(own) /\ new.cmds = cmds
    BY <2>1 DEF Entries, Entry
  <2> HIDE DEF new
  <2>3. /\ Append(e.past, new) \in Seq(Entries(own)) /\ Len(Append(e.past, new)) = n + 1
        /\ Append(e.past, new)[n + 1] = new
    BY <1>1, <2>2, AppendProperties
  <2>4. QED
    BY <2>2, <2>3 DEF First1, new
<1>6. <<>> \in Seq(Entries(own))
  BY EmptySeq
<1>7. r = [doc |-> Apply(e.doc, cmds), past |-> IF merging THEN merged ELSE pushed,
           future |-> <<>>, key |-> k, edits |-> IF merging THEN e.edits ELSE e.edits + 1]
  BY DEF RunOn
<1> HIDE DEF r, merged, pushed, merging
<1>8. r.past = (IF merging THEN merged ELSE pushed) /\ r.key = k
  BY <1>7
<1>9. r \in Editors(own)
  BY <1>1, <1>3, <1>4, <1>5, <1>6, <1>7 DEF Editors
<1>10. Len(r.past) > 0 /\ First1(r.past[Len(r.past)]).k = cmds[1].k
  <2>1. CASE merging
    <3>1. n > 0
      BY <2>1 DEF merging
    <3>2. QED
      BY <1>4, <1>8, <2>1, <3>1
  <2>2. CASE ~merging
    BY <1>1, <1>5, <1>8, <2>2
  <2>3. QED
    BY <2>1, <2>2
<1>11. QED
  BY <1>8, <1>9, <1>10 DEF r

-----------------------------------------------------------------------------
(* The invariant *)

EditorInv(own) == Editor \in Editors(own)

\* What a drag has hold of belongs to its track, and was somewhere.
DragInv(own) ==
    \/ drag = NoDrag
    \/ /\ drag \in [part : {"body", "start", "end", "point"}, track : Tracks, lead : Things,
                    was : Values, depth : Nat, stirred : BOOLEAN]
       /\ DOMAIN drag.was \subseteq own[drag.track] /\ drag.lead \in DOMAIN drag.was
       /\ \A x \in DOMAIN drag.was :
             drag.was[x].t \in Int /\ drag.was[x].size \in Nat /\ drag.was[x].level \in Int

\* While a gesture is being merged the entry on top is its own: the drag of an
\* end merges only with changes of length, and that of a start merges nothing.
KeyInv ==
    /\ drag = NoDrag => key = NoKey
    /\ key = "g" => /\ drag.part # "start"
                    /\ drag.part = "end" => Len(past) > 0 /\ First1(past[Len(past)]).k = "resizeCues"

Sound(own) == EditorInv(own) /\ DragInv(own) /\ KeyInv
InPlace == astray \in BOOLEAN /\ (~astray => \E own \in Owners : Sound(own))

LEMMA EditorIs ==
    ASSUME NEW own, EditorInv(own)
    PROVE  /\ doc \in Docs(own) /\ past \in Seq(Entries(own)) /\ future \in Seq(Entries(own))
           /\ key \in Keys /\ edits \in Nat /\ doc \in Document
<1>1. /\ Editor.doc = doc /\ Editor.past = past /\ Editor.future = future /\ Editor.key = key
      /\ Editor.edits = edits
  BY DEF Editor
<1>2. Editor \in Editors(own)
  BY DEF EditorInv
<1> HIDE DEF Editor
<1>3. QED
  BY <1>1, <1>2 DEF Editors, Docs

LEMMA Became ==
    ASSUME NEW own, NEW e \in Editors(own), Become(e)
    PROVE  EditorInv(own)' /\ key' = e.key /\ past' = e.past
<1>1. e = [doc |-> e.doc, past |-> e.past, future |-> e.future, key |-> e.key, edits |-> e.edits]
  BY DEF Editors
<1>2. Editor' = e
  BY <1>1 DEF Editor, Become
<1>3. QED
  BY <1>2 DEF EditorInv, Become

\* A drag holds on to what it has while other edits are made.
LEMMA DragStays ==
    ASSUME NEW own \in Owners, NEW more \in Owners, Grown(own, more), DragInv(own),
           Stir \/ UNCHANGED drag
    PROVE  DragInv(more)' /\ (drag' = NoDrag <=> drag = NoDrag)
<1>1. CASE drag = NoDrag
  BY <1>1 DEF DragInv, Stir
<1>2. CASE drag # NoDrag
  <2>1. /\ drag \in [part : {"body", "start", "end", "point"}, track : Tracks, lead : Things,
                     was : Values, depth : Nat, stirred : BOOLEAN]
        /\ DOMAIN drag.was \subseteq own[drag.track] /\ drag.lead \in DOMAIN drag.was
        /\ \A x \in DOMAIN drag.was :
              drag.was[x].t \in Int /\ drag.was[x].size \in Nat /\ drag.was[x].level \in Int
    BY <1>2 DEF DragInv
  <2>2. own[drag.track] \subseteq more[drag.track]
    BY <2>1 DEF Grown
  <2>3. /\ drag' \in [part : {"body", "start", "end", "point"}, track : Tracks, lead : Things,
                      was : Values, depth : Nat, stirred : BOOLEAN]
        /\ drag'.track = drag.track /\ drag'.was = drag.was /\ drag'.lead = drag.lead
        /\ drag'.part = drag.part
    BY <1>2, <2>1 DEF Stir
  <2>4. drag' # NoDrag
    <3>1. drag'.part # "none" /\ NoDrag.part = "none"
      BY <2>3 DEF NoDrag
    <3>2. QED
      BY <3>1
  <2>5. QED
    BY <1>2, <2>1, <2>2, <2>3, <2>4 DEF DragInv
<1>3. QED
  BY <1>1, <1>2

LEMMA GrownAgain == ASSUME NEW own \in Owners PROVE Grown(own, own)
  BY DEF Grown

\* One edit of a menu, a key or a field.
LEMMA RunKeeps ==
    ASSUME NEW own \in Owners, NEW more \in Owners, Grown(own, more), Sound(own),
           NEW made \in Docs(more), NEW cmds \in Batches(more), Run(made, cmds)
    PROVE  Sound(more)'
<1> DEFINE e == [Editor EXCEPT !.doc = made]
           r == RunOn(e, cmds, NoKey, TRUE)
           q == [r EXCEPT !.key = NoKey]
<1>1. Editor \in Editors(own)
  BY DEF Sound, EditorInv
<1>2. e \in Editors(more)
  <2>1. Seq(Entries(own)) \subseteq Seq(Entries(more))
    BY GrownEntries
  <2> HIDE DEF Editor
  <2>2. QED
    BY <1>1, <2>1 DEF Editors
<1> HIDE DEF e
<1>3. NoKey \in Keys /\ TRUE \in BOOLEAN
  BY DEF Keys
<1>4. r \in Editors(more)
  BY <1>2, <1>3, RunOnKeeps
<1> HIDE DEF r
<1>5. q \in Editors(more) /\ q.key = NoKey
  BY <1>3, <1>4 DEF Editors
<1>6. Become(q) /\ Stir
  BY DEF Run, e, r
<1> HIDE DEF q
<1>7. EditorInv(more)' /\ key' = NoKey
  BY <1>5, <1>6, Became
<1>8. DragInv(more)'
  BY <1>6, DragStays DEF Sound
<1>9. KeyInv'
  BY <1>7 DEF KeyInv, NoKey
<1>10. QED
  BY <1>7, <1>8, <1>9 DEF Sound

-----------------------------------------------------------------------------
(* The actions, one by one *)

LEMMA TopAndRest ==
    ASSUME NEW own, NEW s \in Seq(Entries(own)), s # <<>>
    PROVE  /\ Last(s) \in Entries(own) /\ Front(s) \in Seq(Entries(own))
           /\ Disowned(Front(s)) \in Seq(Entries(own))
<1>1. Len(s) \in Nat /\ Len(s) # 0 /\ DOMAIN s = 1..Len(s)
  OBVIOUS
<1>2. Last(s) \in Entries(own)
  BY <1>1 DEF Last
<1>3. Front(s) \in Seq(Entries(own))
  BY <1>1 DEF Front
<1>4. ASSUME NEW r \in Seq(Entries(own)) PROVE Disowned(r) \in Seq(Entries(own))
  <2>1. ASSUME NEW i \in DOMAIN r PROVE [r[i] EXCEPT !.honest = FALSE] \in Entries(own)
    <3>1. r[i] \in Entries(own)
      OBVIOUS
    <3>2. QED
      BY <3>1 DEF Entries
  <2>2. DOMAIN r = 1..Len(r) /\ Len(r) \in Nat
    OBVIOUS
  <2>3. Disowned(r) \in [1..Len(r) -> Entries(own)]
    BY <2>1, <2>2 DEF Disowned
  <2>4. QED
    BY <2>2, <2>3
<1>5. QED
  BY <1>2, <1>3, <1>4

\* Undo and redo move an entry from one stack to the other.
LEMMA StackKeeps ==
    ASSUME NEW own \in Owners, Sound(own), Stir, key' = NoKey, edits' = edits,
           doc' \in Docs(own), past' \in Seq(Entries(own)), future' \in Seq(Entries(own))
    PROVE  Sound(own)'
<1>1. EditorInv(own)'
  <2>1. edits' \in Nat /\ key' \in Keys
    BY EditorIs DEF Sound, Keys
  <2>2. QED
    BY <2>1 DEF EditorInv, Editor, Editors
<1>2. DragInv(own)'
  BY DragStays, GrownAgain DEF Sound
<1>3. KeyInv'
  BY DEF KeyInv, NoKey
<1>4. QED
  BY <1>1, <1>2, <1>3 DEF Sound

LEMMA UndoKeeps ==
    ASSUME NEW own \in Owners, Sound(own), Undo
    PROVE  Sound(own)'
<1> DEFINE top == Last(past)
<1>1. /\ doc \in Docs(own) /\ past \in Seq(Entries(own)) /\ future \in Seq(Entries(own))
      /\ doc \in Document
  BY EditorIs DEF Sound
<1>2. /\ past # <<>> /\ doc' = Revert(doc, top.cmds) /\ future' = Append(future, [top EXCEPT !.of = doc])
      /\ past' = IF top.honest THEN Front(past) ELSE Disowned(Front(past))
      /\ key' = NoKey /\ Stir /\ edits' = edits
  BY DEF Undo
<1>3. top \in Entries(own) /\ past' \in Seq(Entries(own))
  BY <1>1, <1>2, TopAndRest
<1> HIDE DEF top
<1>4. top.cmds \in Seq(Commands(own)) /\ [top EXCEPT !.of = doc] \in Entries(own)
  BY <1>1, <1>3 DEF Entries, Batches
<1>5. doc' \in Docs(own)
  BY <1>1, <1>2, <1>4, BatchKeeps
<1>6. future' \in Seq(Entries(own))
  BY <1>1, <1>2, <1>4, AppendProperties
<1>7. QED
  BY <1>2, <1>3, <1>5, <1>6, StackKeeps

LEMMA RedoKeeps ==
    ASSUME NEW own \in Owners, Sound(own), Redo
    PROVE  Sound(own)'
<1> DEFINE top == Last(future)
<1>1. /\ doc \in Docs(own) /\ past \in Seq(Entries(own)) /\ future \in Seq(Entries(own))
      /\ doc \in Document
  BY EditorIs DEF Sound
<1>2. /\ future # <<>> /\ doc' = Apply(doc, top.cmds) /\ past' = Append(past, [top EXCEPT !.of = doc])
      /\ future' = IF top.honest THEN Front(future) ELSE Disowned(Front(future))
      /\ key' = NoKey /\ Stir /\ edits' = edits
  BY DEF Redo
<1>3. top \in Entries(own) /\ future' \in Seq(Entries(own))
  BY <1>1, <1>2, TopAndRest
<1> HIDE DEF top
<1>4. top.cmds \in Seq(Commands(own)) /\ [top EXCEPT !.of = doc] \in Entries(own)
  BY <1>1, <1>3 DEF Entries, Batches
<1>5. doc' \in Docs(own)
  BY <1>1, <1>2, <1>4, BatchKeeps
<1>6. past' \in Seq(Entries(own))
  BY <1>1, <1>2, <1>4, AppendProperties
<1>7. QED
  BY <1>2, <1>3, <1>5, <1>6, StackKeeps

LEMMA OnIs ==
    ASSUME NEW own \in Owners, NEW d \in Docs(own), NEW k \in Tracks, NEW x \in On(d, k)
    PROVE  /\ x \in own[k] /\ x \in Things
           /\ d.t[x] \in Int /\ d.size[x] \in Nat /\ d.level[x] \in Int
           /\ CueEnd(d, x) \in Int
<1>1. x \in own[k] /\ x \in Things /\ d.t[x] \in Int /\ d \in Document
  BY DocsAre DEF On
<1>2. d.size[x] \in Nat /\ d.level[x] \in Int
  BY <1>1 DEF Document
<1>3. QED
  BY <1>1, <1>2 DEF CueEnd

LEMMA PressKeeps ==
    ASSUME NEW own \in Owners, Sound(own), drag = NoDrag,
           NEW part \in {"body", "start", "end", "point"}, NEW k \in Tracks,
           NEW x \in On(doc, k), NEW S \in SUBSET On(doc, k), Press(part, k, x, S)
    PROVE  Sound(own)'
<1> DEFINE things == IF part \in {"start", "end"} THEN {x} ELSE S \cup {x}
           was == [y \in things |-> AttributesOf(doc, y)]
<1>1. doc \in Docs(own) /\ past \in Seq(Entries(own)) /\ key = NoKey
  BY EditorIs DEF Sound, KeyInv
<1>2. things \subseteq On(doc, k) /\ x \in things
  OBVIOUS
<1>3. drag' = [part |-> part, track |-> k, lead |-> x, was |-> was, depth |-> Len(past), stirred |-> FALSE]
  BY DEF Press
<1>4. UNCHANGED <<doc, past, future, key, edits>>
  BY DEF Press
<1> HIDE DEF things
<1>5. \A y \in things : y \in own[k] /\ y \in Things /\ doc.t[y] \in Int /\ doc.size[y] \in Nat /\ doc.level[y] \in Int
  BY <1>1, <1>2, OnIs
<1>6. /\ DOMAIN was = things
      /\ \A y \in things : was[y].t \in Int /\ was[y].size \in Nat /\ was[y].level \in Int
  BY <1>5 DEF AttributesOf, At
<1>7. was \in Values
  <2>1. \A y \in things : AttributesOf(doc, y) \in Attr
    BY <1>5 DEF AttributesOf, At, Attr
  <2>2. was \in [things -> Attr] /\ things \in SUBSET Things
    BY <1>5, <2>1
  <2>3. QED
    BY <2>2 DEF Values
<1> HIDE DEF was
<1>8. Len(past) \in Nat
  BY <1>1
<1>9. drag' \in [part : {"body", "start", "end", "point"}, track : Tracks, lead : Things,
                 was : Values, depth : Nat, stirred : BOOLEAN]
  BY <1>2, <1>3, <1>5, <1>7, <1>8
<1>10. DragInv(own)'
  <2>1. drag'.was = was /\ drag'.track = k /\ drag'.lead = x
    BY <1>3
  <2>2. QED
    BY <1>2, <1>5, <1>6, <1>9, <2>1 DEF DragInv
<1>11. KeyInv'
  BY <1>1, <1>4 DEF KeyInv, NoKey
<1>12. EditorInv(own)'
  BY <1>4 DEF Sound, EditorInv, Editor
<1>13. QED
  BY <1>10, <1>11, <1>12 DEF Sound

LEMMA ReleaseKeeps ==
    ASSUME NEW own \in Owners, Sound(own), Release
    PROVE  Sound(own)'
<1>1. /\ doc \in Docs(own) /\ past \in Seq(Entries(own)) /\ future \in Seq(Entries(own)) /\ edits \in Nat
  BY EditorIs DEF Sound
<1>2. drag' = NoDrag /\ key' = NoKey /\ UNCHANGED <<doc, past, future, edits>>
  BY DEF Release
<1>3. EditorInv(own)'
  <2>1. key' \in Keys
    BY <1>2 DEF Keys
  <2>2. QED
    BY <1>1, <1>2, <2>1 DEF EditorInv, Editor, Editors
<1>4. QED
  BY <1>2, <1>3 DEF Sound, DragInv, KeyInv, NoKey

\* What a drag has hold of.
LEMMA HeldIs ==
    ASSUME NEW own \in Owners, Sound(own), NEW part \in {"body", "start", "end", "point"},
           drag.part = part
    PROVE  /\ drag # NoDrag /\ drag.track \in Tracks /\ Dragged \subseteq own[drag.track]
           /\ drag.lead \in Dragged /\ drag.lead \in own[drag.track]
           /\ \A x \in Dragged : Was(x).t \in Int /\ Was(x).size \in Nat /\ Was(x).level \in Int
           /\ \A to \in Int : \A x \in Dragged : Shifted(x, to) \in Int
           /\ Editor \in Editors(own) /\ Editor.key = key /\ Editor.past = past
           /\ Undisturbed \in BOOLEAN
<1>1. drag # NoDrag
  <2>1. NoDrag.part = "none"
    BY DEF NoDrag
  <2>2. QED
    BY <2>1
<1>2. /\ drag.track \in Tracks /\ Dragged \subseteq own[drag.track] /\ drag.lead \in Dragged
      /\ \A x \in Dragged : Was(x).t \in Int /\ Was(x).size \in Nat /\ Was(x).level \in Int
  BY <1>1 DEF Sound, DragInv, Dragged, Was
<1>3. ASSUME NEW to \in Int, NEW x \in Dragged PROVE Shifted(x, to) \in Int
  <2>1. Was(x).t + to - Was(drag.lead).t \in Int /\ 0 \in Int /\ Duration \in Int
    BY <1>2, EditingAssumption
  <2>2. QED
    BY <2>1, ClampType DEF Shifted
<1>4. Editor \in Editors(own) /\ Editor.key = key /\ Editor.past = past
  BY DEF Sound, EditorInv, Editor
<1>5. Undisturbed \in BOOLEAN
  BY DEF Undisturbed
<1>6. QED
  BY <1>1, <1>2, <1>3, <1>4, <1>5

\* A step of a drag leaves the command it ran on top.
LEMMA DraggedOn ==
    ASSUME NEW own \in Owners, Sound(own), drag # NoDrag, UNCHANGED drag,
           NEW e \in Editors(own), Become(e),
           e.key = "g" => /\ drag.part # "start"
                          /\ drag.part = "end" => /\ Len(e.past) > 0
                                                  /\ First1(e.past[Len(e.past)]).k = "resizeCues"
    PROVE  Sound(own)'
<1>1. EditorInv(own)' /\ key' = e.key /\ past' = e.past
  BY Became
<1>2. DragInv(own)'
  BY DragStays, GrownAgain DEF Sound
<1>3. KeyInv'
  BY <1>1 DEF KeyInv
<1>4. QED
  BY <1>1, <1>2, <1>3 DEF Sound

LEMMA DragBodyKeeps ==
    ASSUME NEW own \in Owners, Sound(own), NEW to \in Int, DragBody(to), UNCHANGED drag
    PROVE  Sound(own)'
<1> DEFINE c == MoveCues(drag.track, [x \in Dragged |-> Was(x).t], [x \in Dragged |-> Shifted(x, to)])
           r == RunOn(Editor, <<c>>, "g", Undisturbed)
<1>1. drag.part = "body" /\ Become(r)
  BY DEF DragBody
<1>2. /\ drag # NoDrag /\ drag.track \in Tracks /\ Dragged \subseteq own[drag.track]
      /\ \A x \in Dragged : Was(x).t \in Int /\ Shifted(x, to) \in Int
      /\ Editor \in Editors(own) /\ Undisturbed \in BOOLEAN
  BY <1>1, HeldIs
<1>3. c \in Commands(own) /\ c.k = "moveCues"
  <2> DEFINE from == [x \in Dragged |-> Was(x).t]
             there == [x \in Dragged |-> Shifted(x, to)]
  <2>1. from \in [Dragged -> Int] /\ there \in [Dragged -> Int]
    BY <1>2
  <2>2. c = MoveCues(drag.track, from, there)
    BY Zenon
  <2> HIDE DEF c, from, there
  <2>3. MoveCues(drag.track, from, there) \in Commands(own) /\ MoveCues(drag.track, from, there).k = "moveCues"
    BY <1>2, <2>1, MoveCuesType
  <2>4. QED
    BY <2>2, <2>3, Zenon
<1> HIDE DEF c
<1>4. <<c>> \in Batches(own) /\ <<c>>[1] = c /\ "g" \in Keys
  BY <1>3, BatchOf DEF Keys
<1>5. r \in Editors(own) /\ r.key = "g"
  BY <1>2, <1>3, <1>4, RunOnKeeps
<1> HIDE DEF r
<1>6. QED
  BY <1>1, <1>2, <1>5, DraggedOn

LEMMA DragEndKeeps ==
    ASSUME NEW own \in Owners, Sound(own), NEW to \in Int, DragEnd(to), UNCHANGED drag
    PROVE  Sound(own)'
<1> DEFINE c == ResizeCues(drag.track, drag.lead, Was(drag.lead).size, to - doc.t[drag.lead], MinLength)
           r == RunOn(Editor, <<c>>, "g", Undisturbed)
<1>1. drag.part = "end" /\ Become(r)
  BY DEF DragEnd
<1>2. /\ drag # NoDrag /\ drag.track \in Tracks /\ drag.lead \in own[drag.track]
      /\ Was(drag.lead).size \in Nat
      /\ Editor \in Editors(own) /\ Editor.key = key /\ Editor.past = past /\ Undisturbed \in BOOLEAN
  BY <1>1, HeldIs
<1>3. doc \in Docs(own) /\ doc.t[drag.lead] \in Int
  BY <1>2, EditorIs, DocsAre DEF Sound
<1>4. c \in Commands(own) /\ c.k = "resizeCues"
  <2>1. to - doc.t[drag.lead] \in Int /\ MinLength \in Nat
    BY <1>3, EditingAssumption
  <2>2. QED
    BY <1>2, <2>1, ResizeCuesType
<1> HIDE DEF c
<1>5. <<c>> \in Batches(own) /\ <<c>>[1] = c /\ "g" \in Keys
  BY <1>4, BatchOf DEF Keys
<1>6. key = "g" => First1(past[Len(past)]).k = "resizeCues"
  BY <1>1 DEF Sound, KeyInv
<1>7. /\ r \in Editors(own) /\ r.key = "g" /\ Len(r.past) > 0
      /\ First1(r.past[Len(r.past)]).k = "resizeCues"
  BY <1>2, <1>4, <1>5, <1>6, RunOnKeeps
<1> HIDE DEF r
<1>8. QED
  BY <1>1, <1>2, <1>7, DraggedOn

LEMMA DragStartKeeps ==
    ASSUME NEW own \in Owners, Sound(own), NEW to \in Int, DragStart(to), UNCHANGED drag
    PROVE  Sound(own)'
<1> DEFINE x == drag.lead
           end == Was(x).t + Was(x).size
           start == Clamp(to, 0, end - MinLength)
           c == MoveCues(drag.track, Just(x, Was(x).t), Just(x, start))
           b == ResizeCues(drag.track, x, Was(x).size, end - start, MinLength)
           m == RunOn(Editor, <<c>>, "g", Undisturbed)
           r == RunOn(m, <<b>>, "gr", Undisturbed)
<1>1. drag.part = "start" /\ Become(r)
  BY DEF DragStart
<1>2. /\ drag # NoDrag /\ drag.track \in Tracks /\ x \in own[drag.track]
      /\ Was(x).t \in Int /\ Was(x).size \in Nat
      /\ Editor \in Editors(own) /\ Undisturbed \in BOOLEAN
  BY <1>1, HeldIs
<1>3. end \in Int /\ start \in Int /\ end - start \in Int /\ MinLength \in Nat
  <2>1. end \in Int /\ end - MinLength \in Int /\ 0 \in Int /\ MinLength \in Nat
    BY <1>2, EditingAssumption
  <2> HIDE DEF end
  <2>2. start \in Int
    BY <2>1, ClampType
  <2> HIDE DEF start
  <2>3. QED
    BY <2>1, <2>2
<1> HIDE DEF x, end, start
<1>4. c \in Commands(own) /\ c.k = "moveCues"
  <2>1. Just(x, Was(x).t) \in [{x} -> Int] /\ Just(x, start) \in [{x} -> Int]
    BY <1>2, <1>3 DEF Just
  <2>2. {x} \subseteq own[drag.track]
    BY <1>2
  <2>3. QED
    BY <1>2, <2>1, <2>2, MoveCuesType
<1>5. b \in Commands(own)
  BY <1>2, <1>3, ResizeCuesType
<1> HIDE DEF b, c
<1>6. /\ <<c>> \in Batches(own) /\ <<c>>[1] = c /\ <<b>> \in Batches(own)
      /\ "g" \in Keys /\ "gr" \in Keys
  BY <1>4, <1>5, BatchOf DEF Keys
<1>7. m \in Editors(own) /\ m.key = "g"
  BY <1>2, <1>4, <1>6, RunOnKeeps
<1> HIDE DEF m
<1>8. r \in Editors(own) /\ r.key = "gr"
  BY <1>2, <1>6, <1>7, RunOnKeeps
<1> HIDE DEF r
<1>9. QED
  BY <1>1, <1>2, <1>8, DraggedOn

LEMMA DragPointsKeeps ==
    ASSUME NEW own \in Owners, Sound(own), NEW to \in Int, NEW level \in Int,
           DragPoints(to, level), UNCHANGED drag
    PROVE  Sound(own)'
<1> DEFINE v(x) == Clamp(Was(x).level + level - Was(drag.lead).level, 0, MaxLevel)
           was == [x \in Dragged |-> At(Was(x).t, Keep, Was(x).level)]
           will == [x \in Dragged |-> At(Shifted(x, to), Keep, v(x))]
           c == MovePoints(drag.track, was, will)
           r == RunOn(Editor, <<c>>, "g", Undisturbed)
<1>1. drag.part = "point" /\ Become(r)
  BY DEF DragPoints
<1>2. /\ drag # NoDrag /\ drag.track \in Tracks /\ Dragged \subseteq own[drag.track]
      /\ drag.lead \in Dragged
      /\ \A x \in Dragged : Was(x).t \in Int /\ Was(x).level \in Int /\ Shifted(x, to) \in Int
      /\ Editor \in Editors(own) /\ Undisturbed \in BOOLEAN
  BY <1>1, HeldIs
<1>3. \A x \in Dragged : v(x) \in Int
  <2> SUFFICES ASSUME NEW x \in Dragged PROVE v(x) \in Int
    OBVIOUS
  <2>1. Was(x).level + level - Was(drag.lead).level \in Int /\ 0 \in Int /\ MaxLevel \in Int
    BY <1>2, EditingAssumption
  <2>2. QED
    BY <2>1, ClampType
<1> HIDE DEF v
<1>4. was \in [Dragged -> Attr] /\ will \in [Dragged -> Attr]
  <2>1. \A x \in Dragged : At(Was(x).t, Keep, Was(x).level) \in Attr /\ At(Shifted(x, to), Keep, v(x)) \in Attr
    BY <1>2, <1>3 DEF At, Attr
  <2>2. QED
    BY <2>1
<1> HIDE DEF was, will
<1>5. c \in Commands(own) /\ c.k = "movePoints"
  BY <1>2, <1>4, MovePointsType
<1>6. Become(RunOn(Editor, <<c>>, "g", Undisturbed))
  BY <1>1
<1> HIDE DEF c
<1>7. <<c>> \in Batches(own) /\ <<c>>[1] = c /\ "g" \in Keys
  BY <1>5, BatchOf DEF Keys
<1>8. r \in Editors(own) /\ r.key = "g"
  BY <1>2, <1>5, <1>7, RunOnKeeps
<1> HIDE DEF r
<1>9. QED
  BY <1>1, <1>2, <1>8, DraggedOn

\* Things made for an edit, with their attributes.
Makes(v, F) ==
    F \subseteq Unmade /\ IsFiniteSet(F) /\ v \in [F -> Attr] /\ \A x \in F : v[x].t \in Int

\* Things are made, and put on a track, perhaps after something else is done.
LEMMA MakeKeeps ==
    ASSUME NEW own \in Owners, Sound(own), NEW k \in Tracks,
           NEW F, NEW v, Makes(v, F), NEW cmds, Run(Make(v), cmds),
           cmds = <<InsertThings(k, F)>> \/ \E c \in Commands(own) : cmds = <<c, InsertThings(k, F)>>
    PROVE  \E more \in Owners : Sound(more)'
<1>1. doc \in Docs(own)
  BY EditorIs DEF Sound
<1>2. \A x \in F : doc.t[x] = Keep /\ x \in Things
  BY DEF Unmade, Makes
<1>3. v \in Values /\ DOMAIN v = F /\ IsFiniteSet(F) /\ \A x \in F : v[x].t \in Int
  BY <1>2 DEF Values, Makes
<1>4. PICK more \in Owners : Grown(own, more) /\ F \subseteq more[k] /\ Put(doc, v) \in Docs(more)
  BY <1>1, <1>2, <1>3, MadeKeeps
<1>5. InsertThings(k, F) \in Commands(more)
  BY <1>3, <1>4, InsertThingsType
<1>6. cmds \in Batches(more)
  <2>1. CASE cmds = <<InsertThings(k, F)>>
    BY <1>5, <2>1, BatchOf
  <2>2. CASE \E c \in Commands(own) : cmds = <<c, InsertThings(k, F)>>
    <3>1. PICK c \in Commands(own) : cmds = <<c, InsertThings(k, F)>>
      BY <2>2
    <3>2. c \in Commands(more)
      BY <1>4, GrownEntries
    <3>3. QED
      BY <1>5, <3>1, <3>2, BatchOfTwo
  <2>3. QED
    BY <2>1, <2>2
<1>7. Run(Put(doc, v), cmds)
  BY DEF Make
<1>8. Sound(more)'
  BY <1>4, <1>6, <1>7, RunKeeps
<1>9. QED
  BY <1>8

\* Nothing is made.
LEMMA PlainRunKeeps ==
    ASSUME NEW own \in Owners, Sound(own), NEW cmds \in Batches(own), Run(doc, cmds)
    PROVE  \E more \in Owners : Sound(more)'
<1>1. doc \in Docs(own)
  BY EditorIs DEF Sound
<1>2. Sound(own)'
  BY <1>1, GrownAgain, RunKeeps
<1>3. QED
  BY <1>2

LEMMA PlacesType == Places \subseteq Int /\ Duration \in Int /\ MaxTime \in Int /\ MaxLevel \in Int
  BY EditingAssumption

LEMMA TracksShown ==
    ASSUME NEW own \in Owners, Sound(own)
    PROVE  ToSet(doc.tracks) \subseteq Tracks /\ \A i \in DOMAIN doc.tracks : doc.tracks[i] \in Tracks
<1>1. doc.tracks \in Seq(Tracks)
  BY EditorIs DEF Sound, Document
<1>2. QED
  BY <1>1, ToSetOf

LEMMA RemoveSomeKeeps ==
    ASSUME NEW own \in Owners, Sound(own), NEW k \in Tracks, NEW S, RemoveSome(k, S)
    PROVE  \E more \in Owners : Sound(more)'
<1>1. doc \in Docs(own)
  BY EditorIs DEF Sound
<1>2. <<RemoveThings(doc, k, S)>> \in Batches(own)
  BY <1>1, RemoveThingsType, BatchOf
<1>3. QED
  BY <1>2, PlainRunKeeps DEF RemoveSome

LEMMA AddPointMakes ==
    ASSUME NEW k, NEW t \in Int, NEW level \in Int, AddPoint(k, t, level)
    PROVE  \E F, v : /\ Makes(v, F) /\ Run(Make(v), <<InsertThings(k, F)>>)
                     /\ Cardinality(F) = IF doc.on[k] = <<>> THEN 2 ELSE 1
<1> DEFINE n == IF doc.on[k] = <<>> THEN 2 ELSE 1
           F == Fresh(Points, n)
           p == CHOOSE x \in F : TRUE
           later == IF t + Gap > Duration THEN Duration ELSE t + Gap
           v == [x \in F |-> At(IF x = p THEN t ELSE later, 0, level)]
<1>1. CanMake(Points, n) /\ Run(Make(v), <<InsertThings(k, F)>>)
  BY DEF AddPoint
<1>2. n \in Nat /\ Points \subseteq Things
  BY DEF Things
<1> HIDE DEF n
<1>3. F \subseteq Unmade /\ IsFiniteSet(F) /\ Cardinality(F) = n
  BY <1>1, <1>2, FreshOf
<1>4. later \in Int
  BY EditingAssumption
<1> HIDE DEF p, later, F
<1>5. v \in [F -> Attr] /\ \A x \in F : v[x].t \in Int
  <2>1. \A x \in F : (IF x = p THEN t ELSE later) \in Int
    BY <1>4
  <2>2. \A x \in F : At(IF x = p THEN t ELSE later, 0, level) \in Attr
                     /\ At(IF x = p THEN t ELSE later, 0, level).t \in Int
    BY <2>1 DEF At, Attr
  <2>3. QED
    BY <2>2
<1> HIDE DEF v
<1>6. Makes(v, F)
  BY <1>3, <1>5 DEF Makes
<1>7. QED
  BY <1>1, <1>3, <1>6 DEF n

LEMMA AddPointKeeps ==
    ASSUME NEW own \in Owners, Sound(own), NEW k \in Tracks, NEW t \in Int, NEW level \in Int,
           AddPoint(k, t, level)
    PROVE  \E more \in Owners : Sound(more)'
<1>1. PICK F, v : Makes(v, F) /\ Run(Make(v), <<InsertThings(k, F)>>)
  BY AddPointMakes
<1>2. QED
  BY <1>1, MakeKeeps

\* What an edit reads of the things it finds.
Readable(S) ==
    \A x \in S : x \in Things /\ doc.t[x] \in Int /\ doc.size[x] \in Nat /\ doc.level[x] \in Int

LEMMA SplitMakes ==
    ASSUME NEW k, NEW x, Readable({x}), NEW at \in Int, Split(k, x, at)
    PROVE  \E F, v : Makes(v, F) /\ Run(Make(v), <<RemoveThings(doc, k, {x}), InsertThings(k, F)>>)
<1> DEFINE F == Fresh(Cues, 2)
           left == CHOOSE y \in F : TRUE
           v == [y \in F |-> IF y = left THEN At(doc.t[x], at - doc.t[x], doc.level[x])
                             ELSE At(at, CueEnd(doc, x) - at, doc.level[x])]
           c == RemoveThings(doc, k, {x})
<1>1. /\ CanMake(Cues, 2) /\ Run(Make(v), <<c, InsertThings(k, F)>>)
      /\ at > doc.t[x] + MinPiece /\ at < CueEnd(doc, x) - MinPiece
  BY DEF Split
<1>2. doc.t[x] \in Int /\ doc.level[x] \in Int /\ CueEnd(doc, x) \in Int
  BY DEF Readable, CueEnd
<1>3. F \subseteq Unmade /\ IsFiniteSet(F)
  BY <1>1, FreshOf DEF Things
<1> HIDE DEF left, F
<1>4. v \in [F -> Attr] /\ \A y \in F : v[y].t \in Int
  <2>1. at - doc.t[x] \in Nat /\ CueEnd(doc, x) - at \in Nat
    <3>1. MinPiece \in Nat
      BY EditingAssumption
    <3>2. QED
      BY <1>1, <1>2, <3>1
  <2>2. /\ At(doc.t[x], at - doc.t[x], doc.level[x]) \in Attr
        /\ At(doc.t[x], at - doc.t[x], doc.level[x]).t \in Int
        /\ At(at, CueEnd(doc, x) - at, doc.level[x]) \in Attr
        /\ At(at, CueEnd(doc, x) - at, doc.level[x]).t \in Int
    BY <1>2, <2>1 DEF At, Attr
  <2>3. QED
    BY <2>2
<1> HIDE DEF v
<1>5. Makes(v, F)
  BY <1>3, <1>4 DEF Makes
<1>6. QED
  BY <1>1, <1>5

LEMMA SplitKeeps ==
    ASSUME NEW own \in Owners, Sound(own), NEW k \in Tracks, NEW x \in On(doc, k), NEW at \in Int,
           Split(k, x, at)
    PROVE  \E more \in Owners : Sound(more)'
<1>1. doc \in Docs(own) /\ Readable({x})
  BY EditorIs, OnIs DEF Sound, Readable
<1>2. PICK F, v : Makes(v, F) /\ Run(Make(v), <<RemoveThings(doc, k, {x}), InsertThings(k, F)>>)
  BY <1>1, SplitMakes
<1>3. RemoveThings(doc, k, {x}) \in Commands(own)
  BY <1>1, RemoveThingsType
<1>4. QED
  BY <1>2, <1>3, MakeKeeps

LEMMA DuplicateMakes ==
    ASSUME NEW k, NEW S, Readable(S), Duplicate(k, S)
    PROVE  \E F, v : Makes(v, F) /\ Run(Make(v), <<InsertThings(k, F)>>)
<1> DEFINE first == CHOOSE x \in S : \A y \in S : doc.t[x] <= doc.t[y]
           last == CHOOSE x \in S : \A y \in S : CueEnd(doc, x) >= CueEnd(doc, y)
           shift == Larger(CueEnd(doc, last) - doc.t[first], MinPiece)
           F == Fresh(Cues, Cardinality(S))
           copyOf == CHOOSE f \in Bijection(F, S) : TRUE
           v == [y \in F |-> [AttributesOf(doc, copyOf[y]) EXCEPT !.t = @ + shift]]
<1>1. /\ S # {} /\ S \subseteq On(doc, k) /\ CanMake(Cues, Cardinality(S))
      /\ Run(Make(v), <<InsertThings(k, F)>>)
  BY DEF Duplicate
<1>2. \A x \in S : /\ x \in Things /\ doc.t[x] \in Int /\ doc.size[x] \in Nat
                   /\ doc.level[x] \in Int /\ CueEnd(doc, x) \in Int
  BY DEF Readable, CueEnd
<1>3. IsFiniteSet(S) /\ Cardinality(S) \in Nat
  <2>1. S \in SUBSET Things
    BY <1>2
  <2>2. IsFiniteSet(S)
    BY <2>1, EditingAssumption, FS_Subset
  <2>3. QED
    BY <2>2, FS_CardinalityType
<1>4. first \in S
  <2> DEFINE f == [x \in S |-> doc.t[x]]
  <2>1. f \in [S -> Int] /\ \A x \in S : f[x] = doc.t[x]
    BY <1>2
  <2> HIDE DEF f
  <2>2. \E x \in S : \A y \in S : f[x] <= f[y]
    BY <1>1, <1>3, <2>1, LeastOf
  <2>3. \E x \in S : \A y \in S : doc.t[x] <= doc.t[y]
    BY <2>1, <2>2
  <2>4. QED
    BY <2>3
<1>5. last \in S
  <2> DEFINE f == [x \in S |-> CueEnd(doc, x)]
  <2>1. f \in [S -> Int] /\ \A x \in S : f[x] = CueEnd(doc, x)
    BY <1>2
  <2> HIDE DEF f
  <2>2. \E x \in S : \A y \in S : f[x] >= f[y]
    BY <1>1, <1>3, <2>1, GreatestOf
  <2>3. \E x \in S : \A y \in S : CueEnd(doc, x) >= CueEnd(doc, y)
    BY <2>1, <2>2
  <2>4. QED
    BY <2>3
<1> HIDE DEF first, last
<1>6. shift \in Int
  <2>1. CueEnd(doc, last) - doc.t[first] \in Int /\ MinPiece \in Int
    BY <1>2, <1>4, <1>5, EditingAssumption
  <2>2. QED
    BY <2>1, LargerType
<1> HIDE DEF shift
<1>7. F \subseteq Unmade /\ IsFiniteSet(F) /\ Cardinality(F) = Cardinality(S)
  BY <1>1, <1>3, FreshOf DEF Things
<1> HIDE DEF F
<1>8. \A y \in F : copyOf[y] \in S
  BY <1>3, <1>7, CopiesOf
<1> HIDE DEF copyOf
<1>9. v \in [F -> Attr] /\ \A y \in F : v[y].t \in Int
  <2>1. ASSUME NEW y \in F
        PROVE  /\ [AttributesOf(doc, copyOf[y]) EXCEPT !.t = @ + shift] \in Attr
               /\ [AttributesOf(doc, copyOf[y]) EXCEPT !.t = @ + shift].t \in Int
    <3> DEFINE z == copyOf[y]
    <3>1. doc.t[z] \in Int /\ doc.size[z] \in Nat /\ doc.level[z] \in Int
      BY <1>2, <1>8
    <3> HIDE DEF z
    <3>2. [AttributesOf(doc, z) EXCEPT !.t = @ + shift] =
             [t |-> doc.t[z] + shift, size |-> doc.size[z], level |-> doc.level[z]]
      BY DEF AttributesOf, At
    <3>3. doc.t[z] + shift \in Int
      BY <1>6, <3>1
    <3>4. QED
      BY <3>1, <3>2, <3>3 DEF Attr, z
  <2>2. QED
    BY <2>1
<1> HIDE DEF v
<1>10. Makes(v, F)
  BY <1>7, <1>9 DEF Makes
<1>11. QED
  BY <1>1, <1>10

LEMMA DuplicateKeeps ==
    ASSUME NEW own \in Owners, Sound(own), NEW k \in Tracks, NEW S, Duplicate(k, S)
    PROVE  \E more \in Owners : Sound(more)'
<1>1. S \subseteq On(doc, k)
  BY DEF Duplicate
<1>2. Readable(S)
  BY <1>1, EditorIs, OnIs DEF Sound, Readable
<1>3. PICK F, v : Makes(v, F) /\ Run(Make(v), <<InsertThings(k, F)>>)
  BY <1>2, DuplicateMakes
<1>4. QED
  BY <1>3, MakeKeeps

LEMMA PasteMakes ==
    ASSUME NEW k, NEW times \in Seq(Int), NEW size \in Nat, NEW level \in Int, Paste(k, times, size, level)
    PROVE  \E F, v : /\ Makes(v, F) /\ Run(Make(v), <<InsertThings(k, F)>>)
                     /\ pasted' = IF k \in CurveTracks THEN pasted \cup F ELSE pasted
<1> DEFINE S == IF k \in CueTracks THEN Cues ELSE Points
           F == Fresh(S, Len(times))
           order == CHOOSE f \in Bijection(F, DOMAIN times) : TRUE
           v == [x \in F |-> At(times[order[x]], size, level)]
<1>1. /\ CanMake(S, Len(times)) /\ Run(Make(v), <<InsertThings(k, F)>>)
      /\ pasted' = IF k \in CurveTracks THEN pasted \cup F ELSE pasted
  BY DEF Paste
<1>2. S \subseteq Things /\ Len(times) \in Nat /\ DOMAIN times = 1..Len(times)
      /\ \A i \in DOMAIN times : times[i] \in Int
  BY DEF Things
<1> HIDE DEF S
<1>3. F \subseteq Unmade /\ IsFiniteSet(F) /\ Cardinality(F) = Len(times)
  BY <1>1, <1>2, FreshOf
<1> HIDE DEF F
<1>4. IsFiniteSet(DOMAIN times) /\ Cardinality(DOMAIN times) = Len(times)
  <2> DEFINE n == Len(times)
  <2>0. 1 \in Int /\ n \in Int
    BY <1>2
  <2> HIDE DEF n
  <2>1. IsFiniteSet(1..n) /\ Cardinality(1..n) = IF 1 > n THEN 0 ELSE n - 1 + 1
    BY <2>0, FS_Interval, Zenon
  <2> USE DEF n
  <2>2. QED
    BY <1>2, <2>1
<1>5. \A x \in F : order[x] \in DOMAIN times
  BY <1>3, <1>4, CopiesOf
<1> HIDE DEF order
<1>6. v \in [F -> Attr] /\ \A x \in F : v[x].t \in Int
  <2>1. \A x \in F : times[order[x]] \in Int
    BY <1>2, <1>5
  <2>2. \A x \in F : At(times[order[x]], size, level) \in Attr /\ At(times[order[x]], size, level).t \in Int
    BY <2>1 DEF At, Attr
  <2>3. QED
    BY <2>2
<1> HIDE DEF v
<1>7. Makes(v, F)
  BY <1>3, <1>6 DEF Makes
<1>8. QED
  BY <1>1, <1>7

LEMMA PasteKeeps ==
    ASSUME NEW own \in Owners, Sound(own), NEW k \in Tracks, NEW times \in Seq(Int),
           NEW size \in Nat, NEW level \in Int, Paste(k, times, size, level)
    PROVE  \E more \in Owners : Sound(more)'
<1>1. PICK F, v : Makes(v, F) /\ Run(Make(v), <<InsertThings(k, F)>>)
  BY PasteMakes
<1>2. QED
  BY <1>1, MakeKeeps

LEMMA OneMore ==
    ASSUME NEW b, NEW c
    PROVE  <<>> \o <<b>> = <<b>> /\ <<c>> \o <<b>> = <<c, b>>
<1> DEFINE S == {b, c}
<1>1. <<b>> \in Seq(S) /\ <<c>> \in Seq(S) /\ <<c, b>> \in Seq(S)
  OBVIOUS
<1>2. <<>> \o <<b>> = <<b>>
  <2> HIDE DEF S
  <2>1. QED
    BY <1>1, ConcatEmptySeq
<1>3. Len(<<c>>) = 1 /\ Len(<<b>>) = 1 /\ Len(<<c, b>>) = 2
  OBVIOUS
<1> HIDE DEF S
<1>4. /\ <<c>> \o <<b>> \in Seq(S) /\ Len(<<c>> \o <<b>>) = 2
      /\ (<<c>> \o <<b>>)[1] = <<c>>[1] /\ (<<c>> \o <<b>>)[2] = <<b>>[1]
  BY <1>1, <1>3
<1>5. \A i \in 1..2 : (<<c>> \o <<b>>)[i] = <<c, b>>[i]
  BY <1>4
<1>6. QED
  BY <1>1, <1>2, <1>3, <1>4, <1>5, SeqEqual

LEMMA InsertPresetMakes ==
    ASSUME NEW k, NEW at \in Int, NEW long \in Nat, NEW level \in Int, InsertPreset(k, at, long, level)
    PROVE  \E F, v, S :
              /\ Makes(v, F) /\ S \subseteq On(doc, k)
              /\ Cardinality(F) = IF k \in CueTracks THEN 1 ELSE 2
              /\ \/ Run(Make(v), <<InsertThings(k, F)>>)
                 \/ Run(Make(v), <<RemoveThings(doc, k, S), InsertThings(k, F)>>)
<1> DEFINE n == IF k \in CueTracks THEN 1 ELSE 2
           S == IF k \in CueTracks THEN Cues ELSE Points
           F == Fresh(S, n)
           x == CHOOSE y \in F : TRUE
           clashing == {y \in On(doc, k) : at <= doc.t[y] /\ doc.t[y] <= at + long}
           v == [y \in F |-> IF k \in CueTracks THEN At(at, long, level)
                             ELSE At(IF y = x THEN at ELSE at + long, 0, level)]
           c == RemoveThings(doc, k, clashing)
           cmds == (IF clashing = {} THEN <<>> ELSE <<c>>) \o <<InsertThings(k, F)>>
<1>1. CanMake(S, n) /\ Run(Make(v), cmds)
  BY DEF InsertPreset
<1>2. S \subseteq Things /\ n \in Nat
  BY DEF Things
<1>3. clashing \subseteq On(doc, k)
  OBVIOUS
<1> HIDE DEF S, n
<1>5. F \subseteq Unmade /\ IsFiniteSet(F) /\ Cardinality(F) = n
  BY <1>1, <1>2, FreshOf
<1> HIDE DEF F, c, clashing
<1>6. cmds = <<InsertThings(k, F)>> \/ cmds = <<c, InsertThings(k, F)>>
  <2> DEFINE b == InsertThings(k, F)
  <2> HIDE DEF b
  <2>1. <<>> \o <<b>> = <<b>> /\ <<c>> \o <<b>> = <<c, b>>
    BY OneMore
  <2>2. QED
    BY <2>1 DEF b
<1> HIDE DEF cmds, x
<1>7. v \in [F -> Attr] /\ \A y \in F : v[y].t \in Int
  <2>1. /\ At(at, long, level) \in Attr /\ At(at, long, level).t \in Int
        /\ At(at, 0, level) \in Attr /\ At(at, 0, level).t \in Int
        /\ At(at + long, 0, level) \in Attr /\ At(at + long, 0, level).t \in Int
    BY DEF At, Attr
  <2>2. \A y \in F : v[y] \in {At(at, long, level), At(at, 0, level), At(at + long, 0, level)}
    OBVIOUS
  <2>3. DOMAIN v = F /\ v = [y \in F |-> v[y]]
    OBVIOUS
  <2> HIDE DEF v
  <2>4. \A y \in F : v[y] \in Attr /\ v[y].t \in Int
    BY <2>1, <2>2
  <2>5. QED
    BY <2>3, <2>4
<1> HIDE DEF v
<1>8. Makes(v, F)
  BY <1>5, <1>7 DEF Makes
<1>9. Run(Make(v), <<InsertThings(k, F)>>) \/ Run(Make(v), <<c, InsertThings(k, F)>>)
  BY <1>1, <1>6
<1>10. QED
  BY <1>3, <1>5, <1>8, <1>9 DEF c, n

LEMMA InsertPresetKeeps ==
    ASSUME NEW own \in Owners, Sound(own), NEW k \in Tracks, NEW at \in Int, NEW long \in Nat,
           NEW level \in Int, InsertPreset(k, at, long, level)
    PROVE  \E more \in Owners : Sound(more)'
<1>1. PICK F, v, S :
         /\ Makes(v, F) /\ S \subseteq On(doc, k)
         /\ \/ Run(Make(v), <<InsertThings(k, F)>>)
            \/ Run(Make(v), <<RemoveThings(doc, k, S), InsertThings(k, F)>>)
  BY InsertPresetMakes
<1>2. RemoveThings(doc, k, S) \in Commands(own)
  BY EditorIs, RemoveThingsType DEF Sound
<1>3. QED
  BY <1>1, <1>2, MakeKeeps

LEMMA ToggleSpanKeeps ==
    ASSUME NEW own \in Owners, Sound(own), NEW k \in Tracks, NEW x \in On(doc, k), ToggleSpan(k, x)
    PROVE  \E more \in Owners : Sound(more)'
<1> DEFINE c == IF IsSpan(doc, x) THEN ResizeCues(k, x, doc.size[x], 0, 0)
                ELSE ResizeCues(k, x, 0, DefaultLength, MinLength)
<1>1. Run(doc, <<c>>)
  BY DEF ToggleSpan
<1>2. x \in own[k] /\ doc.size[x] \in Nat
  BY EditorIs, OnIs DEF Sound
<1>3. c \in Commands(own)
  <2>1. 0 \in Nat /\ 0 \in Int /\ DefaultLength \in Int /\ MinLength \in Nat
    BY EditingAssumption
  <2>2. ResizeCues(k, x, doc.size[x], 0, 0) \in Commands(own)
    BY <1>2, <2>1, ResizeCuesType
  <2>3. ResizeCues(k, x, 0, DefaultLength, MinLength) \in Commands(own)
    BY <1>2, <2>1, ResizeCuesType
  <2>4. QED
    BY <2>2, <2>3
<1> HIDE DEF c
<1>4. <<c>> \in Batches(own)
  BY <1>3, BatchOf
<1>5. QED
  BY <1>1, <1>4, PlainRunKeeps

LEMMA SetLevelsKeeps ==
    ASSUME NEW own \in Owners, Sound(own), NEW k \in Tracks, NEW S, S \subseteq On(doc, k),
           NEW to \in [S -> Int], SetLevels(k, to)
    PROVE  \E more \in Owners : Sound(more)'
<1> DEFINE was == [x \in S |-> At(doc.t[x], Keep, doc.level[x])]
           will == [x \in S |-> At(doc.t[x], Keep, to[x])]
           c == MovePoints(k, was, will)
<1>1. Run(doc, <<c>>)
  BY DEF SetLevels
<1>2. \A x \in S : x \in own[k] /\ doc.t[x] \in Int /\ doc.level[x] \in Int
  BY EditorIs, OnIs DEF Sound
<1>3. was \in [S -> Attr] /\ will \in [S -> Attr]
  <2>1. ASSUME NEW x \in S
        PROVE  At(doc.t[x], Keep, doc.level[x]) \in Attr /\ At(doc.t[x], Keep, to[x]) \in Attr
    <3>1. doc.t[x] \in Int /\ doc.level[x] \in Int /\ to[x] \in Int
      BY <1>2
    <3>2. QED
      BY <3>1 DEF At, Attr
  <2>2. QED
    BY <2>1
<1>4. S \subseteq own[k]
  BY <1>2
<1> HIDE DEF was, will
<1>5. c \in Commands(own)
  BY <1>3, <1>4, MovePointsType
<1> HIDE DEF c
<1>6. <<c>> \in Batches(own)
  BY <1>5, BatchOf
<1>7. QED
  BY <1>1, <1>6, PlainRunKeeps

LEMMA ScaleAmplitudeKeeps ==
    ASSUME NEW own \in Owners, Sound(own), NEW k \in Tracks, NEW S, S \subseteq On(doc, k),
           NEW to \in [S -> Levels], ScaleAmplitude(k, to)
    PROVE  \E more \in Owners : Sound(more)'
<1>1. to \in [S -> Int]
  BY DEF Levels
<1>2. SetLevels(k, to)
  BY DEF ScaleAmplitude
<1>3. QED
  BY <1>1, <1>2, SetLevelsKeeps

LEMMA SmoothPointsKeeps ==
    ASSUME NEW own \in Owners, Sound(own), NEW k \in Tracks, NEW S, SmoothPoints(k, S)
    PROVE  \E more \in Owners : Sound(more)'
<1> DEFINE s == doc.on[k]
           inner == {i \in 2..(Len(s) - 1) : s[i] \in S}
           mean(i) == (doc.level[s[i - 1]] + 2 * doc.level[s[i]] + doc.level[s[i + 1]]) \div 4
           place(x) == CHOOSE i \in inner : s[i] = x
           T == {s[i] : i \in inner}
           to == [x \in T |-> mean(place(x))]
<1>1. SetLevels(k, to)
  BY Zenon DEF SmoothPoints
<1>2. doc \in Docs(own) /\ s \in Seq(Things) /\ doc.level \in [Things -> Int]
  BY EditorIs DEF Sound, Document
<1>3. Len(s) \in Nat /\ DOMAIN s = 1..Len(s) /\ \A i \in 1..Len(s) : doc.level[s[i]] \in Int
  BY <1>2
<1>4. \A i \in inner : mean(i) \in Int
  <2> SUFFICES ASSUME NEW i \in inner PROVE mean(i) \in Int
    OBVIOUS
  <2>1. i \in 1..Len(s) /\ i - 1 \in 1..Len(s) /\ i + 1 \in 1..Len(s)
    BY <1>3
  <2> DEFINE a == doc.level[s[i - 1]]
             m == doc.level[s[i]]
             z == doc.level[s[i + 1]]
  <2>2. a \in Int /\ m \in Int /\ z \in Int
    BY <1>3, <2>1
  <2> HIDE DEF a, m, z
  <2>3. (a + 2 * m + z) \div 4 \in Int
    BY <2>2
  <2>4. QED
    BY <2>3 DEF a, m, z
<1>5. \A x \in T : place(x) \in inner
  OBVIOUS
<1>6. T \subseteq On(doc, k)
  <2>1. \A i \in inner : i \in DOMAIN s
    BY <1>3
  <2>2. QED
    BY <2>1 DEF On, ToSet
<1> HIDE DEF mean, place, T
<1>7. to \in [T -> Int]
  <2>1. \A x \in T : mean(place(x)) \in Int
    BY <1>4, <1>5, Zenon
  <2>2. QED
    BY <2>1
<1> HIDE DEF to
<1>8. QED
  BY <1>1, <1>6, <1>7, SetLevelsKeeps

LEMMA AddTrackKeeps ==
    ASSUME NEW own \in Owners, Sound(own), NEW k \in Tracks, AddTrack(k)
    PROVE  \E more \in Owners : Sound(more)'
<1>1. "addTrack" \in Kinds \ Sets /\ "addTrack" # "removeTrack"
  BY DEF Kinds, Sets
<1>2. <<>> \in Seq(own[k])
  BY EmptySeq
<1>3. <<ListCommand("addTrack", k, <<>>, 0)>> \in Batches(own)
  BY <1>1, <1>2, ListCommandType, BatchOf
<1>4. QED
  BY <1>3, PlainRunKeeps DEF AddTrack

LEMMA RemoveTrackKeeps ==
    ASSUME NEW own \in Owners, Sound(own), NEW i \in DOMAIN doc.tracks, RemoveTrack(i)
    PROVE  \E more \in Owners : Sound(more)'
<1>1. doc.tracks[i] \in Tracks /\ i \in Nat /\ i >= 1
  <2>1. doc.tracks \in Seq(Tracks)
    BY EditorIs DEF Sound, Document
  <2>2. QED
    BY <2>1
<1>2. "removeTrack" \in Kinds \ Sets
  BY DEF Kinds, Sets
<1>3. <<>> \in Seq(own[doc.tracks[i]])
  BY EmptySeq
<1>4. <<ListCommand("removeTrack", doc.tracks[i], <<>>, i)>> \in Batches(own)
  BY <1>1, <1>2, <1>3, ListCommandType, BatchOf
<1>5. QED
  BY <1>4, PlainRunKeeps DEF RemoveTrack

LEMMA NudgeMoves ==
    ASSUME NEW own \in Owners, Sound(own), NEW dt \in Int, NEW k \in Tracks,
           NEW D, D \subseteq On(doc, k)
    PROVE  LET to(x) == Clamp(doc.t[x] + dt, 0, Duration)
           IN /\ MoveCues(k, [x \in D |-> doc.t[x]], [x \in D |-> to(x)]) \in Commands(own)
              /\ MovePoints(k, [x \in D |-> At(doc.t[x], Keep, Keep)],
                               [x \in D |-> At(to(x), Keep, Keep)]) \in Commands(own)
<1> DEFINE to(x) == Clamp(doc.t[x] + dt, 0, Duration)
<1>1. \A x \in D : x \in own[k] /\ doc.t[x] \in Int
  BY EditorIs, OnIs DEF Sound
<1>2. \A x \in D : to(x) \in Int
  <2> SUFFICES ASSUME NEW x \in D PROVE to(x) \in Int
    OBVIOUS
  <2>1. doc.t[x] + dt \in Int /\ 0 \in Int /\ Duration \in Int
    BY <1>1, PlacesType
  <2>2. QED
    BY <2>1, ClampType
<1> HIDE DEF to
<1>3. D \subseteq own[k]
  BY <1>1
<1>4. MoveCues(k, [x \in D |-> doc.t[x]], [x \in D |-> to(x)]) \in Commands(own)
  <2> DEFINE from == [x \in D |-> doc.t[x]]
             there == [x \in D |-> to(x)]
  <2>1. from \in [D -> Int] /\ there \in [D -> Int]
    BY <1>1, <1>2
  <2> HIDE DEF from, there
  <2>2. MoveCues(k, from, there) \in Commands(own)
    BY <1>3, <2>1, MoveCuesType
  <2>3. QED
    BY <2>2 DEF from, there
<1>5. MovePoints(k, [x \in D |-> At(doc.t[x], Keep, Keep)],
                    [x \in D |-> At(to(x), Keep, Keep)]) \in Commands(own)
  <2> DEFINE was == [x \in D |-> At(doc.t[x], Keep, Keep)]
             will == [x \in D |-> At(to(x), Keep, Keep)]
  <2>1. \A x \in D : At(doc.t[x], Keep, Keep) \in Attr /\ At(to(x), Keep, Keep) \in Attr
    BY <1>1, <1>2 DEF At, Attr
  <2>2. was \in [D -> Attr] /\ will \in [D -> Attr]
    BY <2>1
  <2> HIDE DEF was, will
  <2>3. MovePoints(k, was, will) \in Commands(own)
    BY <1>3, <2>2, MovePointsType
  <2>4. QED
    BY <2>3 DEF was, will
<1>6. QED
  BY <1>4, <1>5 DEF to

LEMMA NudgeKeeps ==
    ASSUME NEW own \in Owners, Sound(own), NEW S, NEW dt \in Int, Nudge(S, dt)
    PROVE  \E more \in Owners : Sound(more)'
<1> DEFINE n == Len(doc.tracks)
           V == Seq(Commands(own))
           to(x) == Clamp(doc.t[x] + dt, 0, Duration)
           move(k) ==
               LET moving == On(doc, k) \cap S
               IN IF moving = {} THEN <<>>
                  ELSE IF k \in CueTracks
                  THEN <<MoveCues(k, [x \in moving |-> doc.t[x]], [x \in moving |-> to(x)])>>
                  ELSE <<MovePoints(k, [x \in moving |-> At(doc.t[x], Keep, Keep)],
                                       [x \in moving |-> At(to(x), Keep, Keep)])>>
           base == <<>>
           longer(s, k) == s \o move(k)
           step == [p \in (1..n) \X V |-> longer(p[2], doc.tracks[p[1]])]
           Runs(out) == out = [i \in 0..n |-> IF i = 0 THEN base ELSE longer(out[i - 1], doc.tracks[i])]
           moves == CHOOSE out : Runs(out)
<1>1. n \in Nat /\ \A i \in 1..n : doc.tracks[i] \in Tracks
  <2>1. doc.tracks \in Seq(Tracks)
    BY EditorIs DEF Sound, Document
  <2>2. QED
    BY <2>1
<1>2. \A k \in Tracks : move(k) \in V
  <2> SUFFICES ASSUME NEW k \in Tracks PROVE move(k) \in V
    OBVIOUS
  <2> DEFINE moving == On(doc, k) \cap S
             cues == MoveCues(k, [x \in moving |-> doc.t[x]], [x \in moving |-> to(x)])
             points == MovePoints(k, [x \in moving |-> At(doc.t[x], Keep, Keep)],
                                     [x \in moving |-> At(to(x), Keep, Keep)])
  <2>1. cues \in Commands(own) /\ points \in Commands(own)
    <3>1. moving \subseteq On(doc, k)
      OBVIOUS
    <3> HIDE DEF moving
    <3>2. QED
      BY <3>1, NudgeMoves
  <2>2. move(k) \in {<<>>, <<cues>>, <<points>>}
    OBVIOUS
  <2> HIDE DEF cues, points, move, V
  <2>3. <<>> \in V /\ <<cues>> \in V /\ <<points>> \in V
    BY <2>1, EmptySeq DEF V
  <2>4. QED
    BY <2>2, <2>3
<1>3. Run(doc, moves[n])
  BY Zenon DEF Nudge
<1>4. \A s \in V : \A k \in Tracks : longer(s, k) \in V
  <2> HIDE DEF move
  <2>1. QED
    BY <1>2
<1>5. base \in V
  BY EmptySeq
<1> HIDE DEF move, longer, base
<1>6. step \in [(1..n) \X V -> V]
  <2>1. \A i \in 1..n : \A m \in V : longer(m, doc.tracks[i]) \in V
    BY <1>1, <1>4
  <2> HIDE DEF V, n
  <2>2. QED
    BY <2>1
<1>7. \A i \in 1..n : \A m \in V : step[<<i, m>>] = longer(m, doc.tracks[i])
  OBVIOUS
<1> HIDE DEF n, step, V
<1>8. PICK out \in [0..n -> V] : out[0] = base /\ \A i \in 1..n : out[i] = step[<<i, out[i - 1]>>]
  <2>1. \E out \in [0..n -> V] : Turns(n, base, step, out)
    BY <1>1, <1>6, <1>5, LoopExists
  <2>2. QED
    BY <2>1 DEF Turns
<1>9. Runs(out)
  <2>1. ASSUME NEW i \in 1..n PROVE out[i] = longer(out[i - 1], doc.tracks[i])
    <3>1. out[i - 1] \in V
      BY <1>1
    <3>2. QED
      BY <1>7, <1>8, <3>1
  <2>2. QED
    BY <1>1, <1>8, <2>1
<1>10. Runs(moves)
  <2> HIDE DEF Runs
  <2>1. QED
    BY <1>9
<1> HIDE DEF moves
<1>11. moves[0] = base /\ \A i \in 1..n : moves[i] = longer(moves[i - 1], doc.tracks[i])
  BY <1>1, <1>10
<1>12. moves[n] \in V
  <2> DEFINE T == {i \in 0..n : moves[i] \in V}
  <2>1. 0 \in T
    BY <1>1, <1>5, <1>11
  <2>2. ASSUME NEW i \in 1..n, i - 1 \in T PROVE i \in T
    <3>1. moves[i - 1] \in V /\ i \in 0..n
      BY <1>1, <2>2
    <3>2. longer(moves[i - 1], doc.tracks[i]) \in V
      BY <1>1, <1>4, <3>1
    <3>3. QED
      BY <1>11, <3>1, <3>2
  <2>3. 0..n \subseteq T
    <3> HIDE DEF T
    <3>1. QED
      BY <1>1, <2>1, <2>2, StepByStep
  <2>4. n \in T
    BY <1>1, <2>3
  <2>5. QED
    BY <2>4
<1>13. moves[n] \in Batches(own)
  <2>1. moves[n] # <<>>
    BY <1>3 DEF Run
  <2>2. QED
    BY <1>12, <2>1 DEF Batches, V
<1>14. QED
  BY <1>3, <1>13, PlainRunKeeps

\* One track after another loses what is selected there, as an entry of its own.
LEMMA DeleteSelectionKeeps ==
    ASSUME NEW own \in Owners, Sound(own), NEW S, DeleteSelection(S)
    PROVE  \E more \in Owners : Sound(more)'
<1> DEFINE n == Len(doc.tracks)
           V == {e \in Editors(own) : e = Editor \/ e.key = NoKey}
           going(e, k) == On(e.doc, k) \cap S
           delete(e, k) == IF going(e, k) = {} THEN e
                           ELSE RunOn(e, <<RemoveThings(e.doc, k, going(e, k))>>, NoKey, TRUE)
           step == [p \in (1..n) \X V |-> delete(p[2], doc.tracks[p[1]])]
           Runs(out) == out = [i \in 0..n |-> IF i = 0 THEN Editor ELSE delete(out[i - 1], doc.tracks[i])]
           deleted == CHOOSE out : Runs(out)
<1>1. n \in Nat /\ \A i \in 1..n : doc.tracks[i] \in Tracks
  <2>1. doc.tracks \in Seq(Tracks)
    BY EditorIs DEF Sound, Document
  <2>2. QED
    BY <2>1
<1>2. \A e \in V : \A k \in Tracks : delete(e, k) \in V
  <2> SUFFICES ASSUME NEW e \in V, NEW k \in Tracks PROVE delete(e, k) \in V
    OBVIOUS
  <2> DEFINE c == RemoveThings(e.doc, k, going(e, k))
             r == RunOn(e, <<c>>, NoKey, TRUE)
  <2>1. e \in Editors(own) /\ e.doc \in Docs(own)
    BY DEF Editors
  <2> HIDE DEF going
  <2>2. c \in Commands(own)
    BY <2>1, RemoveThingsType
  <2>3. delete(e, k) \in {e, r}
    OBVIOUS
  <2> HIDE DEF c, delete
  <2>4. <<c>> \in Batches(own) /\ NoKey \in Keys /\ TRUE \in BOOLEAN
    BY <2>2, BatchOf DEF Keys
  <2>5. r \in Editors(own) /\ r.key = NoKey
    BY <2>1, <2>4, RunOnKeeps
  <2> HIDE DEF r
  <2>6. r \in V
    BY <2>5
  <2>7. QED
    BY <2>3, <2>6
<1>3. Become(deleted[n]) /\ Stir
  BY DEF DeleteSelection
<1>4. Editor \in V
  BY DEF Sound, EditorInv
<1> HIDE DEF delete
<1>5. step \in [(1..n) \X V -> V]
  <2>1. \A i \in 1..n : \A m \in V : delete(m, doc.tracks[i]) \in V
    BY <1>1, <1>2
  <2> HIDE DEF V, n
  <2>2. QED
    BY <2>1
<1>6. \A i \in 1..n : \A m \in V : step[<<i, m>>] = delete(m, doc.tracks[i])
  OBVIOUS
<1> HIDE DEF n, step, V
<1>7. PICK out \in [0..n -> V] : out[0] = Editor /\ \A i \in 1..n : out[i] = step[<<i, out[i - 1]>>]
  <2>1. \E out \in [0..n -> V] : Turns(n, Editor, step, out)
    BY <1>1, <1>4, <1>5, LoopExists
  <2>2. QED
    BY <2>1 DEF Turns
<1>8. Runs(out)
  <2>1. ASSUME NEW i \in 1..n PROVE out[i] = delete(out[i - 1], doc.tracks[i])
    <3>1. out[i - 1] \in V
      BY <1>1
    <3>2. QED
      BY <1>6, <1>7, <3>1
  <2>2. QED
    BY <1>1, <1>7, <2>1
<1>9. Runs(deleted)
  <2> HIDE DEF Runs
  <2>1. QED
    BY <1>8
<1> HIDE DEF deleted
<1>10. deleted[0] = Editor /\ \A i \in 1..n : deleted[i] = delete(deleted[i - 1], doc.tracks[i])
  BY <1>1, <1>9
<1>11. deleted[n] \in V
  <2> DEFINE T == {i \in 0..n : deleted[i] \in V}
  <2>1. 0 \in T
    BY <1>1, <1>4, <1>10
  <2>2. ASSUME NEW i \in 1..n, i - 1 \in T PROVE i \in T
    <3>1. deleted[i - 1] \in V /\ i \in 0..n
      BY <1>1, <2>2
    <3>2. delete(deleted[i - 1], doc.tracks[i]) \in V
      BY <1>1, <1>2, <3>1
    <3>3. QED
      BY <1>10, <3>1, <3>2
  <2>3. 0..n \subseteq T
    <3> HIDE DEF T
    <3>1. QED
      BY <1>1, <2>1, <2>2, StepByStep
  <2>4. n \in T
    BY <1>1, <2>3
  <2>5. QED
    BY <2>4
<1> DEFINE e == deleted[n]
<1>12. e \in Editors(own) /\ (e = Editor \/ e.key = NoKey) /\ Become(e)
  BY <1>3, <1>11 DEF V
<1> HIDE DEF e
<1>13. EditorInv(own)' /\ key' = e.key /\ past' = e.past
  BY <1>12, Became
<1>14. DragInv(own)' /\ (drag' = NoDrag <=> drag = NoDrag)
  BY <1>3, GrownAgain, DragStays DEF Sound
<1>15. KeyInv'
  <2>1. CASE e.key = NoKey
    BY <1>13, <2>1 DEF KeyInv, NoKey
  <2>2. CASE e = Editor
    <3>1. key' = key /\ past' = past
      BY <1>13, <2>2 DEF Editor
    <3>2. KeyInv
      BY DEF Sound
    <3>3. CASE drag = NoDrag
      BY <1>14, <3>1, <3>2, <3>3 DEF KeyInv, NoKey
    <3>4. CASE drag # NoDrag
      <4>1. drag'.part = drag.part
        BY <1>3, <3>4 DEF Stir, Sound, DragInv
      <4>2. QED
        BY <1>14, <3>1, <3>2, <3>4, <4>1 DEF KeyInv
    <3>5. QED
      BY <3>3, <3>4
  <2>3. QED
    BY <1>12, <2>1, <2>2
<1>16. QED
  BY <1>13, <1>14, <1>15 DEF Sound

\* The inspector, when its row's number still names the track its thing is on.
LEMMA InspectedIs ==
    ASSUME NEW own \in Owners, Sound(own), focus.row \in DOMAIN doc.tracks,
           focus.thing \in On(doc, Inspected)
    PROVE  /\ Inspected \in Tracks /\ focus.thing \in own[Inspected] /\ focus.thing \in Things
           /\ {focus.thing} \subseteq own[Inspected]
           /\ doc.t[focus.thing] \in Int /\ doc.size[focus.thing] \in Nat
           /\ doc.level[focus.thing] \in Int
<1>1. Inspected \in Tracks
  BY TracksShown DEF Inspected
<1>2. doc \in Docs(own)
  BY EditorIs DEF Sound
<1>3. QED
  BY <1>1, <1>2, OnIs

LEMMA InspectTimeKeeps ==
    ASSUME NEW own \in Owners, Sound(own), NEW t \in Int, InspectTime(t),
           focus.thing \in On(doc, Inspected)
    PROVE  \E more \in Owners : Sound(more)'
<1> DEFINE x == focus.thing
           k == Inspected
           b == MoveCues(k, Just(x, doc.t[x]), Just(x, t))
           p == MovePoints(k, Just(x, At(doc.t[x], Keep, Keep)), Just(x, At(t, Keep, Keep)))
           c == IF x \in Cues THEN b ELSE p
<1>1. Run(doc, <<c>>) /\ focus.row \in DOMAIN doc.tracks
  BY DEF InspectTime, Inspect
<1>2. k \in Tracks /\ {x} \subseteq own[k] /\ doc.t[x] \in Int
  BY <1>1, InspectedIs
<1> HIDE DEF x, k
<1>3. b \in Commands(own)
  <2>1. Just(x, doc.t[x]) \in [{x} -> Int] /\ Just(x, t) \in [{x} -> Int]
    BY <1>2 DEF Just
  <2>2. QED
    BY <1>2, <2>1, MoveCuesType
<1>4. p \in Commands(own)
  <2>1. At(doc.t[x], Keep, Keep) \in Attr /\ At(t, Keep, Keep) \in Attr
    BY <1>2 DEF At, Attr
  <2>2. Just(x, At(doc.t[x], Keep, Keep)) \in [{x} -> Attr] /\ Just(x, At(t, Keep, Keep)) \in [{x} -> Attr]
    BY <2>1 DEF Just
  <2>3. QED
    BY <1>2, <2>2, MovePointsType
<1> HIDE DEF b, p
<1>5. c \in Commands(own)
  BY <1>3, <1>4
<1> HIDE DEF c
<1>6. <<c>> \in Batches(own)
  BY <1>5, BatchOf
<1>7. QED
  BY <1>1, <1>6, PlainRunKeeps

LEMMA InspectLengthKeeps ==
    ASSUME NEW own \in Owners, Sound(own), NEW size \in Int, InspectLength(size),
           focus.thing \in On(doc, Inspected)
    PROVE  \E more \in Owners : Sound(more)'
<1> DEFINE x == focus.thing
           k == Inspected
           c == ResizeCues(k, x, doc.size[x], size, MinLength)
<1>1. Run(doc, <<c>>) /\ focus.row \in DOMAIN doc.tracks
  BY DEF InspectLength, Inspect
<1>2. k \in Tracks /\ x \in own[k] /\ doc.size[x] \in Nat /\ MinLength \in Nat
  BY <1>1, InspectedIs, EditingAssumption
<1> HIDE DEF x, k
<1>3. c \in Commands(own)
  BY <1>2, ResizeCuesType
<1> HIDE DEF c
<1>4. <<c>> \in Batches(own)
  BY <1>3, BatchOf
<1>5. QED
  BY <1>1, <1>4, PlainRunKeeps

LEMMA InspectValueKeeps ==
    ASSUME NEW own \in Owners, Sound(own), NEW level \in Int, InspectValue(level),
           focus.thing \in On(doc, Inspected)
    PROVE  \E more \in Owners : Sound(more)'
<1> DEFINE x == focus.thing
           k == Inspected
           was == Just(x, At(doc.t[x], Keep, doc.level[x]))
           will == Just(x, At(doc.t[x], Keep, level))
           c == MovePoints(k, was, will)
<1>1. Run(doc, <<c>>) /\ focus.row \in DOMAIN doc.tracks
  BY DEF InspectValue, Inspect
<1>2. k \in Tracks /\ {x} \subseteq own[k] /\ doc.t[x] \in Int /\ doc.level[x] \in Int
  BY <1>1, InspectedIs
<1> HIDE DEF x, k
<1>3. was \in [{x} -> Attr] /\ will \in [{x} -> Attr]
  <2>1. At(doc.t[x], Keep, doc.level[x]) \in Attr /\ At(doc.t[x], Keep, level) \in Attr
    BY <1>2 DEF At, Attr
  <2>2. QED
    BY <2>1 DEF Just
<1> HIDE DEF was, will
<1>4. c \in Commands(own)
  BY <1>2, <1>3, MovePointsType
<1> HIDE DEF c
<1>5. <<c>> \in Batches(own)
  BY <1>4, BatchOf
<1>6. QED
  BY <1>1, <1>5, PlainRunKeeps

\* A parameter is written to the document itself, and moves nothing.
LEMMA InspectParamKeeps ==
    ASSUME NEW own \in Owners, Sound(own), NEW level \in Int, InspectParam(level),
           focus.thing \in On(doc, Inspected)
    PROVE  \E more \in Owners : Sound(more)'
<1> DEFINE x == focus.thing
           k == Inspected
           now == Just(x, doc.t[x])
           v == Just(x, At(Keep, Keep, level))
           made == Put(doc, v)
           c == MoveCues(k, now, now)
<1>1. Run(made, <<c>>) /\ focus.row \in DOMAIN doc.tracks
  BY DEF InspectParam, Inspect
<1>2. k \in Tracks /\ {x} \subseteq own[k] /\ doc.t[x] \in Int /\ x \in Things
  BY <1>1, InspectedIs
<1>3. doc \in Docs(own) /\ doc \in Document
  BY EditorIs DEF Sound
<1> HIDE DEF x, k
<1>4. v \in Values /\ \A y \in DOMAIN v : v[y].t = Keep
  <2>1. At(Keep, Keep, level) \in Attr /\ At(Keep, Keep, level).t = Keep
    BY DEF At, Attr
  <2>2. v \in [{x} -> Attr] /\ \A y \in {x} : v[y] = At(Keep, Keep, level)
    BY <2>1 DEF Just
  <2>3. {x} \in SUBSET Things
    BY <1>2
  <2> HIDE DEF v
  <2>4. QED
    BY <2>1, <2>2, <2>3 DEF Values
<1> HIDE DEF v
<1>5. /\ made \in Document /\ made.on = doc.on
      /\ \A y \in Things : made.t[y] = doc.t[y]
  BY <1>3, <1>4, PutType
<1> HIDE DEF made
<1>6. made \in Docs(own)
  <2>1. ASSUME NEW j \in Tracks
        PROVE  /\ ToSet(made.on[j]) \subseteq own[j] /\ \A y \in own[j] : made.t[y] \in Int
               /\ InOrder(made.t, made.on[j])
    <3>1. /\ own[j] \subseteq Things /\ ToSet(doc.on[j]) \subseteq own[j]
          /\ (\A y \in own[j] : doc.t[y] \in Int) /\ InOrder(doc.t, doc.on[j])
      BY <1>3, DocsAre
    <3>2. \A i \in DOMAIN doc.on[j] : doc.on[j][i] \in Things
      BY <3>1 DEF ToSet
    <3>3. InOrder(made.t, doc.on[j])
      BY <1>5, <3>1, <3>2 DEF InOrder
    <3>4. QED
      BY <1>5, <3>1, <3>3
  <2>2. QED
    BY <1>5, <2>1 DEF Docs
<1>7. c \in Commands(own)
  <2>1. now \in [{x} -> Int]
    BY <1>2 DEF Just
  <2> HIDE DEF now
  <2>2. QED
    BY <1>2, <2>1, MoveCuesType
<1> HIDE DEF c
<1>8. <<c>> \in Batches(own)
  BY <1>7, BatchOf
<1>9. Sound(own)'
  BY <1>1, <1>6, <1>8, GrownAgain, RunKeeps
<1>10. QED
  BY <1>9

LEMMA ClearFocusKeeps ==
    ASSUME NEW own \in Owners, Sound(own), UNCHANGED <<doc, past, future, key, drag, edits>>
    PROVE  \E more \in Owners : Sound(more)'
<1>1. EditorInv(own)'
  BY DEF Sound, EditorInv, Editor
<1>2. DragInv(own)'
  BY DEF Sound, DragInv
<1>3. KeyInv'
  BY DEF Sound, KeyInv
<1>4. QED
  BY <1>1, <1>2, <1>3 DEF Sound

-----------------------------------------------------------------------------
(* The steps *)

LEMMA ByPointerKeeps ==
    ASSUME NEW own \in Owners, Sound(own), ByPointer
    PROVE  \E more \in Owners : Sound(more)'
<1>1. CASE drag = NoDrag /\ \E k \in ToSet(doc.tracks) : \E x \in On(doc, k), S \in SUBSET On(doc, k),
              part \in {"body", "start", "end", "point"} : Press(part, k, x, S)
  <2>1. PICK k \in ToSet(doc.tracks) : \E x \in On(doc, k), S \in SUBSET On(doc, k),
              part \in {"body", "start", "end", "point"} : Press(part, k, x, S)
    BY <1>1
  <2>2. PICK x \in On(doc, k), S \in SUBSET On(doc, k),
              part \in {"body", "start", "end", "point"} : Press(part, k, x, S)
    BY <2>1
  <2>3. k \in Tracks
    BY TracksShown
  <2>4. Sound(own)'
    BY <1>1, <2>2, <2>3, PressKeeps
  <2>5. QED
    BY <2>4
<1>2. CASE \E to \in 0..Duration, v \in Levels : Drag(to, v)
  <2>1. PICK to \in 0..Duration, v \in Levels : Drag(to, v)
    BY <1>2
  <2>2. to \in Int /\ v \in Int
    BY DEF Levels
  <2>3. UNCHANGED drag
    BY <2>1 DEF Drag
  <2>4. DragBody(to) \/ DragEnd(to) \/ DragStart(to) \/ DragPoints(to, v)
    BY <2>1 DEF Drag
  <2>5. CASE DragBody(to)
    <3>1. Sound(own)'
      BY <2>2, <2>3, <2>5, DragBodyKeeps
    <3>2. QED
      BY <3>1
  <2>6. CASE DragEnd(to)
    <3>1. Sound(own)'
      BY <2>2, <2>3, <2>6, DragEndKeeps
    <3>2. QED
      BY <3>1
  <2>7. CASE DragStart(to)
    <3>1. Sound(own)'
      BY <2>2, <2>3, <2>7, DragStartKeeps
    <3>2. QED
      BY <3>1
  <2>8. CASE DragPoints(to, v)
    <3>1. Sound(own)'
      BY <2>2, <2>3, <2>8, DragPointsKeeps
    <3>2. QED
      BY <3>1
  <2>9. QED
    BY <2>4, <2>5, <2>6, <2>7, <2>8
<1>3. CASE Release
  <2>1. Sound(own)'
    BY <1>3, ReleaseKeeps
  <2>2. QED
    BY <2>1
<1>4. QED
  BY <1>1, <1>2, <1>3 DEF ByPointer

LEMMA ByKeyKeeps ==
    ASSUME NEW own \in Owners, Sound(own), ByKey
    PROVE  \E more \in Owners : Sound(more)'
<1>1. CASE Undo
  <2>1. Sound(own)'
    BY <1>1, UndoKeeps
  <2>2. QED
    BY <2>1
<1>2. CASE Redo
  <2>1. Sound(own)'
    BY <1>2, RedoKeeps
  <2>2. QED
    BY <2>1
<1>3. CASE \E S \in SUBSET Shown(doc) : Cardinality(S) <= MaxSelected /\
               (DeleteSelection(S) \/ \E dt \in {-1, 1} : Nudge(S, dt))
  <2>1. PICK S \in SUBSET Shown(doc) : DeleteSelection(S) \/ \E dt \in {-1, 1} : Nudge(S, dt)
    BY <1>3
  <2>2. CASE DeleteSelection(S)
    BY <2>2, DeleteSelectionKeeps
  <2>3. CASE \E dt \in {-1, 1} : Nudge(S, dt)
    <3>1. PICK dt \in {-1, 1} : Nudge(S, dt)
      BY <2>3
    <3>2. dt \in Int
      OBVIOUS
    <3>3. QED
      BY <3>1, <3>2, NudgeKeeps
  <2>4. QED
    BY <2>1, <2>2, <2>3
<1>4. CASE \E k \in ToSet(doc.tracks) :
               Paste(k, <<0, Duration>>, 0, 0) \/ \E t \in Places : Paste(k, <<t>>, 0, 0)
  <2>1. PICK k \in ToSet(doc.tracks) :
               Paste(k, <<0, Duration>>, 0, 0) \/ \E t \in Places : Paste(k, <<t>>, 0, 0)
    BY <1>4
  <2>2. k \in Tracks /\ 0 \in Int
    BY TracksShown
  <2>3. CASE Paste(k, <<0, Duration>>, 0, 0)
    <3>1. <<0, Duration>> \in Seq(Int)
      BY PlacesType
    <3>2. QED
      BY <2>2, <2>3, <3>1, PasteKeeps
  <2>4. CASE \E t \in Places : Paste(k, <<t>>, 0, 0)
    <3>1. PICK t \in Places : Paste(k, <<t>>, 0, 0)
      BY <2>4
    <3>2. <<t>> \in Seq(Int)
      BY PlacesType
    <3>3. QED
      BY <2>2, <3>1, <3>2, PasteKeeps
  <2>5. QED
    BY <2>1, <2>3, <2>4
<1>5. CASE \E k \in ToSet(doc.tracks) \cap CueTracks :
               \/ \E S \in SUBSET On(doc, k) : Duplicate(k, S)
               \/ \E x \in On(doc, k), at \in Places : Split(k, x, at)
  <2>1. PICK k \in ToSet(doc.tracks) :
               \/ \E S \in SUBSET On(doc, k) : Duplicate(k, S)
               \/ \E x \in On(doc, k), at \in Places : Split(k, x, at)
    BY <1>5
  <2>2. k \in Tracks
    BY TracksShown
  <2>3. CASE \E S \in SUBSET On(doc, k) : Duplicate(k, S)
    BY <2>2, <2>3, DuplicateKeeps
  <2>4. CASE \E x \in On(doc, k), at \in Places : Split(k, x, at)
    <3>1. PICK x \in On(doc, k), at \in Places : Split(k, x, at)
      BY <2>4
    <3>2. at \in Int
      BY PlacesType
    <3>3. QED
      BY <2>2, <3>1, <3>2, SplitKeeps
  <2>5. QED
    BY <2>1, <2>3, <2>4
<1>6. QED
  BY <1>1, <1>2, <1>3, <1>4, <1>5 DEF ByKey

LEMMA ByClickKeeps ==
    ASSUME NEW own \in Owners, Sound(own), ByClick
    PROVE  \E more \in Owners : Sound(more)'
<1>1. CASE \E k \in ToSet(doc.tracks) :
              \/ \E S \in SUBSET On(doc, k) : RemoveSome(k, S)
              \/ \E at \in Places : InsertPreset(k, at, 1, MaxLevel)
  <2>1. PICK k \in ToSet(doc.tracks) :
              \/ \E S \in SUBSET On(doc, k) : RemoveSome(k, S)
              \/ \E at \in Places : InsertPreset(k, at, 1, MaxLevel)
    BY <1>1
  <2>2. k \in Tracks
    BY TracksShown
  <2>3. CASE \E S \in SUBSET On(doc, k) : RemoveSome(k, S)
    BY <2>2, <2>3, RemoveSomeKeeps
  <2>4. CASE \E at \in Places : InsertPreset(k, at, 1, MaxLevel)
    <3>1. PICK at \in Places : InsertPreset(k, at, 1, MaxLevel)
      BY <2>4
    <3>2. at \in Int /\ 1 \in Int /\ MaxLevel \in Int
      BY PlacesType
    <3>3. QED
      BY <2>2, <3>1, <3>2, InsertPresetKeeps
  <2>5. QED
    BY <2>1, <2>3, <2>4
<1>2. CASE \E k \in ToSet(doc.tracks) \cap CueTracks : \E x \in On(doc, k) : ToggleSpan(k, x)
  <2>1. PICK k \in ToSet(doc.tracks) : \E x \in On(doc, k) : ToggleSpan(k, x)
    BY <1>2
  <2>2. k \in Tracks
    BY TracksShown
  <2>3. QED
    BY <2>1, <2>2, ToggleSpanKeeps
<1>3. CASE \E k \in ToSet(doc.tracks) \cap CurveTracks :
              \/ \E t \in Places, v \in Levels : AddPoint(k, t, v)
              \/ \E S \in SUBSET On(doc, k) \ {{}} :
                     SmoothPoints(k, S) \/ \E to \in [S -> Levels] : ScaleAmplitude(k, to)
  <2>1. PICK k \in ToSet(doc.tracks) :
              \/ \E t \in Places, v \in Levels : AddPoint(k, t, v)
              \/ \E S \in SUBSET On(doc, k) \ {{}} :
                     SmoothPoints(k, S) \/ \E to \in [S -> Levels] : ScaleAmplitude(k, to)
    BY <1>3
  <2>2. k \in Tracks
    BY TracksShown
  <2>3. CASE \E t \in Places, v \in Levels : AddPoint(k, t, v)
    <3>1. PICK t \in Places, v \in Levels : AddPoint(k, t, v)
      BY <2>3
    <3>2. t \in Int /\ v \in Int
      BY PlacesType DEF Levels
    <3>3. QED
      BY <2>2, <3>1, <3>2, AddPointKeeps
  <2>4. CASE \E S \in SUBSET On(doc, k) \ {{}} :
                     SmoothPoints(k, S) \/ \E to \in [S -> Levels] : ScaleAmplitude(k, to)
    <3>1. PICK S \in SUBSET On(doc, k) :
                     SmoothPoints(k, S) \/ \E to \in [S -> Levels] : ScaleAmplitude(k, to)
      BY <2>4
    <3>2. CASE SmoothPoints(k, S)
      BY <2>2, <3>2, SmoothPointsKeeps
    <3>3. CASE \E to \in [S -> Levels] : ScaleAmplitude(k, to)
      BY <2>2, <3>1, <3>3, ScaleAmplitudeKeeps
    <3>4. QED
      BY <3>1, <3>2, <3>3
  <2>5. QED
    BY <2>1, <2>3, <2>4
<1>4. CASE \E k \in CurveTracks : AddTrack(k)
  BY <1>4, AddTrackKeeps DEF Tracks
<1>5. CASE \E i \in DOMAIN doc.tracks : RemoveTrack(i)
  BY <1>5, RemoveTrackKeeps
<1>6. CASE ClearFocus
  BY <1>6, ClearFocusKeeps DEF ClearFocus
<1>7. QED
  BY <1>1, <1>2, <1>3, <1>4, <1>5, <1>6 DEF ByClick

LEMMA ByFieldKeeps ==
    ASSUME NEW own \in Owners, Sound(own), ByField, ~astray'
    PROVE  \E more \in Owners : Sound(more)'
<1>1. CASE \E t \in 0..Duration : InspectTime(t)
  <2>1. PICK t \in 0..Duration : InspectTime(t)
    BY <1>1
  <2>2. astray' = (astray \/ focus.thing \notin On(doc, Inspected))
    BY <2>1, Zenon DEF InspectTime, Inspect
  <2>3. t \in Int
    OBVIOUS
  <2>4. focus.thing \in On(doc, Inspected)
    BY <2>2, Zenon
  <2>5. QED
    BY <2>1, <2>3, <2>4, InspectTimeKeeps
<1>2. CASE \E size \in 1..Duration : InspectLength(size)
  <2>1. PICK size \in 1..Duration : InspectLength(size)
    BY <1>2
  <2>2. astray' = (astray \/ focus.thing \notin On(doc, Inspected))
    BY <2>1, Zenon DEF InspectLength, Inspect
  <2>3. size \in Int
    OBVIOUS
  <2>4. focus.thing \in On(doc, Inspected)
    BY <2>2, Zenon
  <2>5. QED
    BY <2>1, <2>3, <2>4, InspectLengthKeeps
<1>3. CASE \E v \in Levels : InspectParam(v) \/ InspectValue(v)
  <2>1. PICK v \in Levels : InspectParam(v) \/ InspectValue(v)
    BY <1>3
  <2>2. v \in Int
    BY DEF Levels
  <2>3. CASE InspectParam(v)
    <3>1. focus.thing \in On(doc, Inspected)
      BY <2>3 DEF InspectParam, Inspect
    <3>2. QED
      BY <2>2, <2>3, <3>1, InspectParamKeeps
  <2>4. CASE InspectValue(v)
    <3>1. focus.thing \in On(doc, Inspected)
      BY <2>4 DEF InspectValue, Inspect
    <3>2. QED
      BY <2>2, <2>4, <3>1, InspectValueKeeps
  <2>5. QED
    BY <2>1, <2>3, <2>4
<1>4. QED
  BY <1>1, <1>2, <1>3 DEF ByField

\* Only the inspector goes astray, and never comes back.
LEMMA AstrayStays ==
    ASSUME Next, astray \in BOOLEAN
    PROVE  astray' \in BOOLEAN /\ (~astray' => ~astray)
<1>1. CASE ByPointer
  <2>1. ASSUME NEW part, NEW k, NEW x, NEW S, Press(part, k, x, S) PROVE UNCHANGED astray
    BY <2>1, Zenon DEF Press
  <2>2. ASSUME NEW to, NEW v, Drag(to, v) PROVE UNCHANGED astray
    BY <2>2, Zenon DEF Drag
  <2>3. ASSUME Release PROVE UNCHANGED astray
    BY <2>3, Zenon DEF Release
  <2>4. QED
    BY <1>1, <2>1, <2>2, <2>3 DEF ByPointer
<1>2. CASE ByKey
  <2>1. ASSUME Undo \/ Redo PROVE UNCHANGED astray
    BY <2>1, Zenon DEF Undo, Redo
  <2>2. ASSUME NEW S, DeleteSelection(S) PROVE UNCHANGED astray
    BY <2>2, Zenon DEF DeleteSelection
  <2>3. ASSUME NEW S, NEW dt, Nudge(S, dt) PROVE UNCHANGED astray
    BY <2>3, Zenon DEF Nudge
  <2>4. ASSUME NEW k, NEW times, NEW size, NEW level, Paste(k, times, size, level) PROVE UNCHANGED astray
    BY <2>4, Zenon DEF Paste
  <2>5. ASSUME NEW k, NEW S, Duplicate(k, S) PROVE UNCHANGED astray
    BY <2>5, Zenon DEF Duplicate
  <2>6. ASSUME NEW k, NEW x, NEW at, Split(k, x, at) PROVE UNCHANGED astray
    BY <2>6, Zenon DEF Split
  <2>7. QED
    BY <1>2, <2>1, <2>2, <2>3, <2>4, <2>5, <2>6 DEF ByKey
<1>3. CASE ByField
  <2>1. ASSUME NEW made, NEW cmds, Inspect(made, cmds) PROVE astray' \in BOOLEAN /\ (~astray' => ~astray)
    BY <2>1 DEF Inspect
  <2>2. ASSUME NEW t, InspectTime(t) PROVE \E made, cmds : Inspect(made, cmds)
    BY <2>2, Zenon DEF InspectTime
  <2>3. ASSUME NEW size, InspectLength(size) PROVE \E made, cmds : Inspect(made, cmds)
    BY <2>3, Zenon DEF InspectLength
  <2>4. ASSUME NEW v, InspectParam(v) \/ InspectValue(v) PROVE \E made, cmds : Inspect(made, cmds)
    BY <2>4, Zenon DEF InspectParam, InspectValue
  <2>5. QED
    BY <1>3, <2>1, <2>2, <2>3, <2>4 DEF ByField
<1>4. CASE ByClick
  <2>1. ASSUME NEW k, NEW S, RemoveSome(k, S) PROVE UNCHANGED astray
    BY <2>1, Zenon DEF RemoveSome
  <2>2. ASSUME NEW k, NEW at, NEW long, NEW level, InsertPreset(k, at, long, level) PROVE UNCHANGED astray
    BY <2>2, Zenon DEF InsertPreset
  <2>3. ASSUME NEW k, NEW x, ToggleSpan(k, x) PROVE UNCHANGED astray
    BY <2>3, Zenon DEF ToggleSpan
  <2>4. ASSUME NEW k, NEW t, NEW level, AddPoint(k, t, level) PROVE UNCHANGED astray
    BY <2>4, Zenon DEF AddPoint
  <2>5. ASSUME NEW k, NEW S, SmoothPoints(k, S) \/ ScaleAmplitude(k, S) PROVE UNCHANGED astray
    BY <2>5, Zenon DEF SmoothPoints, ScaleAmplitude
  <2>6. ASSUME NEW k, AddTrack(k) \/ RemoveTrack(k) PROVE UNCHANGED astray
    BY <2>6, Zenon DEF AddTrack, RemoveTrack
  <2>7. ASSUME ClearFocus PROVE UNCHANGED astray
    BY <2>7, Zenon DEF ClearFocus
  <2>8. QED
    BY <1>4, <2>1, <2>2, <2>3, <2>4, <2>5, <2>6, <2>7 DEF ByClick
<1>5. QED
  BY <1>1, <1>2, <1>3, <1>4 DEF Next

LEMMA NextKeeps ==
    ASSUME InPlace, [Next]_vars
    PROVE  InPlace'
<1>1. CASE Next
  <2>1. astray' \in BOOLEAN /\ (~astray' => ~astray)
    BY <1>1, AstrayStays DEF InPlace
  <2>2. ASSUME ~astray' PROVE \E more \in Owners : Sound(more)'
    <3>1. PICK own \in Owners : Sound(own)
      BY <2>1, <2>2 DEF InPlace
    <3>2. QED
      BY <1>1, <2>2, <3>1, ByPointerKeeps, ByKeyKeeps, ByFieldKeeps, ByClickKeeps DEF Next
  <2>3. QED
    BY <2>1, <2>2 DEF InPlace
<1>2. CASE UNCHANGED vars
  <2>1. UNCHANGED <<doc, past, future, key, drag, edits>> /\ UNCHANGED astray
    BY <1>2 DEF vars
  <2>2. ASSUME ~astray PROVE \E more \in Owners : Sound(more)'
    <3>1. PICK own \in Owners : Sound(own)
      BY <2>2 DEF InPlace
    <3>2. QED
      BY <2>1, <3>1, ClearFocusKeeps
  <2>3. QED
    BY <2>1, <2>2 DEF InPlace
<1>3. QED
  BY <1>1, <1>2

-----------------------------------------------------------------------------
(* At first, and always *)

\* What is on a track at first belongs to it.
LEMMA InitInPlace == ASSUME Init PROVE InPlace
<1> DEFINE own == [k \in Tracks |-> ToSet(First.on[k])]
<1>1. /\ First \in Document /\ First.on \in [Tracks -> Seq(Things)]
      /\ First.t \in [Things -> Int \cup {Keep}]
  BY FirstAssumption DEF Document
<1>2. own \in Owners
  <2>1. \A k \in Tracks : ToSet(First.on[k]) \subseteq Things
    BY <1>1, ToSetOf
  <2>2. \A j, k \in Tracks : j # k => ToSet(First.on[j]) \cap ToSet(First.on[k]) = {}
    BY FirstAssumption
  <2>3. QED
    BY <2>1, <2>2 DEF Owners
<1>3. First \in Docs(own)
  <2> SUFFICES ASSUME NEW k \in Tracks
               PROVE  /\ ToSet(First.on[k]) \subseteq own[k]
                      /\ \A x \in own[k] : First.t[x] \in Int
                      /\ InOrder(First.t, First.on[k])
    BY <1>1 DEF Docs
  <2>1. own[k] = ToSet(First.on[k])
    OBVIOUS
  <2> HIDE DEF own
  <2>2. \A i \in DOMAIN First.on[k] : First.t[First.on[k][i]] \in Int
    BY FirstAssumption
  <2>3. \A x \in ToSet(First.on[k]) : First.t[x] \in Int
    BY <2>2 DEF ToSet
  <2>4. InOrder(First.t, First.on[k])
    BY FirstAssumption DEF InOrder
  <2>5. QED
    BY <2>1, <2>3, <2>4
<1> HIDE DEF own
<1>4. /\ doc = First /\ past = <<>> /\ future = <<>> /\ key = NoKey /\ drag = NoDrag
      /\ edits = 0 /\ astray = FALSE
  BY DEF Init
<1>5. EditorInv(own)
  <2>1. past \in Seq(Entries(own)) /\ future \in Seq(Entries(own))
    BY <1>4, EmptySeq
  <2>2. key \in Keys /\ edits \in Nat /\ doc \in Docs(own)
    BY <1>3, <1>4 DEF Keys
  <2>3. QED
    BY <2>1, <2>2 DEF EditorInv, Editor, Editors
<1>6. DragInv(own) /\ KeyInv
  BY <1>4 DEF DragInv, KeyInv, NoKey
<1>7. QED
  BY <1>2, <1>4, <1>5, <1>6 DEF InPlace, Sound

LEMMA InPlaceSorted == ASSUME InPlace PROVE StaysSorted
<1> SUFFICES ASSUME ~astray, NEW i \in DOMAIN doc.tracks
             PROVE  LET s == doc.on[doc.tracks[i]]
                    IN \A m, n \in DOMAIN s : m < n => doc.t[s[m]] <= doc.t[s[n]]
  BY DEF StaysSorted
<1>1. PICK own \in Owners : Sound(own)
  BY DEF InPlace
<1>2. doc.tracks[i] \in Tracks /\ doc \in Docs(own)
  BY <1>1, TracksShown, EditorIs DEF Sound
<1>3. InOrder(doc.t, doc.on[doc.tracks[i]])
  BY <1>2, DocsAre
<1>4. QED
  BY <1>3 DEF InOrder

\* Whatever is edited, in whatever order, by gestures, menus, keys and fields,
\* undone and done again in between, every track shown is in time order, as the
\* score format requires: as long as the inspector has not written by way of a
\* row that no longer is its thing's (core/history.ts normalise, apply, revert).
THEOREM TracksStayInOrder == Spec => []StaysSorted
<1>1. Init => InPlace
  BY InitInPlace
<1>2. InPlace /\ [Next]_vars => InPlace'
  BY NextKeeps
<1>3. InPlace => StaysSorted
  BY InPlaceSorted
<1>4. QED
  BY <1>1, <1>2, <1>3, PTL DEF Spec

-----------------------------------------------------------------------------
(* What a command does, as the properties see it: which tracks there are,    *)
(* which things are on each, and the attributes of each                      *)

Fields == {"t", "size", "level"}

\* What has been made, and never is unmade.
Made(d) == {x \in Things : d.t[x] # Keep}

\* Documents where what is on a track has been made.
Scores == {d \in Document : \A k \in Tracks : On(d, k) \subseteq Made(d)}

\* Commands, and batches that may be none: the new values are of the same things and
\* attributes as the old ones.
AnyCommands ==
    {c \in [k : Kinds, track : Tracks, was : Values, will : Values, things : Seq(Things), at : Nat] :
        /\ c.k = "removeTrack" => c.at >= 1
        /\ DOMAIN c.was = DOMAIN c.will
        /\ \A x \in DOMAIN c.was : \A f \in Fields : c.was[x][f] = Keep <=> c.will[x][f] = Keep}

\* A command about what has been made.
Known(c, d) == DOMAIN c.was \subseteq Made(d) /\ ToSet(c.things) \subseteq Made(d)

\* One command is run, or taken back; and what it sets when it is.
OneTurn(forth, d, c) == IF forth THEN ApplyOne(d, c) ELSE RevertOne(d, c)
From(forth, c) == IF forth THEN c.was ELSE c.will
To(forth, c) == IF forth THEN c.will ELSE c.was
Puts(forth, c) == c.k = (IF forth THEN "insert" ELSE "remove")
Takes(forth, c) == c.k = (IF forth THEN "remove" ELSE "insert")
Adds(forth, c) == c.k = (IF forth THEN "addTrack" ELSE "removeTrack")
Drops(forth, c) == c.k = (IF forth THEN "removeTrack" ELSE "addTrack")

\* Where the track of a command is to go, or is.
Row(c, s) == IF c.k = "addTrack" \/ c.at > Len(s) THEN Len(s) + 1 ELSE c.at

LEMMA FieldsOf ==
    ASSUME NEW d \in Document, NEW f \in Fields, NEW x \in Things
    PROVE  /\ d["t"] = d.t /\ d["size"] = d.size /\ d["level"] = d.level
           /\ d[f][x] \in Int \cup {Keep} /\ (d[f][x] = Keep => f = "t")
<1>1. /\ d["t"] = d.t /\ d["size"] = d.size /\ d["level"] = d.level
  BY DEF Document
<1>2. d.t[x] \in Int \cup {Keep} /\ d.size[x] \in Int /\ d.level[x] \in Int
  BY DEF Document
<1>3. Keep \notin Int
  BY EditingAssumption
<1>4. f = "t" \/ f = "size" \/ f = "level"
  BY DEF Fields
<1>5. QED
  BY <1>1, <1>2, <1>3, <1>4

\* Two documents that say the same are the same where it is asked.
LEMMA PutIs ==
    ASSUME NEW d \in Document, NEW v \in Values
    PROVE  /\ Put(d, v) \in Document
           /\ Put(d, v).tracks = d.tracks /\ Put(d, v).on = d.on
           /\ \A x \in Things : \A f \in Fields :
                 Put(d, v)[f][x] = IF x \in DOMAIN v /\ v[x][f] # Keep THEN v[x][f] ELSE d[f][x]
<1> DEFINE put(old, f) == [x \in Things |->
               IF x \in DOMAIN v /\ v[x][f] # Keep THEN v[x][f] ELSE old[x]]
           e == Put(d, v)
<1>1. e \in Document /\ e.tracks = d.tracks /\ e.on = d.on
  BY PutType
<1>2. e.t = put(d.t, "t") /\ e.size = put(d.size, "size") /\ e.level = put(d.level, "level")
  <2>1. e = [d EXCEPT !.t = put(d.t, "t"), !.size = put(d.size, "size"), !.level = put(d.level, "level")]
    BY DEF Put, Document
  <2> HIDE DEF put, e
  <2>2. QED
    BY <2>1 DEF Document
<1> HIDE DEF e
<1>3. ASSUME NEW x \in Things, NEW f \in Fields
      PROVE  e[f][x] = IF x \in DOMAIN v /\ v[x][f] # Keep THEN v[x][f] ELSE d[f][x]
  <2>1. /\ e["t"] = e.t /\ e["size"] = e.size /\ e["level"] = e.level
        /\ d["t"] = d.t /\ d["size"] = d.size /\ d["level"] = d.level
    BY <1>1, FieldsOf
  <2>2. \A old : put(old, f)[x] = IF x \in DOMAIN v /\ v[x][f] # Keep THEN v[x][f] ELSE old[x]
    OBVIOUS
  <2> HIDE DEF put
  <2>3. e[f] = put(d[f], f)
    <3>1. CASE f = "t"
      BY <1>2, <2>1, <3>1
    <3>2. CASE f = "size"
      BY <1>2, <2>1, <3>2
    <3>3. CASE f = "level"
      BY <1>2, <2>1, <3>3
    <3>4. QED
      BY <3>1, <3>2, <3>3 DEF Fields
  <2>4. QED
    BY <2>2, <2>3
<1>4. QED
  BY <1>1, <1>3 DEF e

\* What is run leaves.
Effect(forth, d, c, r) ==
    /\ r \in Scores /\ Made(r) = Made(d)
    /\ \A k \in Tracks :
          On(r, k) = IF k = c.track /\ Puts(forth, c) THEN On(d, k) \cup ToSet(c.things)
                     ELSE IF k = c.track /\ Takes(forth, c) THEN On(d, k) \ ToSet(c.things)
                     ELSE On(d, k)
    /\ \A x \in Things : \A f \in Fields :
          r[f][x] = IF c.k \in Sets /\ x \in DOMAIN To(forth, c) /\ To(forth, c)[x][f] # Keep
                    THEN To(forth, c)[x][f] ELSE d[f][x]
    /\ r.tracks = IF Adds(forth, c) THEN InsertAt(d.tracks, Row(c, d.tracks), c.track)
                  ELSE IF Drops(forth, c) THEN Among(d.tracks, Tracks \ {c.track})
                  ELSE d.tracks

LEMMA CommandIs ==
    ASSUME NEW c \in AnyCommands
    PROVE  /\ c.k \in Kinds /\ c.track \in Tracks /\ c.was \in Values /\ c.will \in Values
           /\ c.things \in Seq(Things) /\ c.at \in Nat
           /\ DOMAIN c.was \subseteq Things /\ DOMAIN c.will = DOMAIN c.was
           /\ \A x \in DOMAIN c.was : \A f \in Fields :
                 /\ c.was[x][f] \in Int \cup {Keep} /\ c.will[x][f] \in Int \cup {Keep}
                 /\ c.was[x][f] = Keep <=> c.will[x][f] = Keep
<1>1. /\ c.k \in Kinds /\ c.track \in Tracks /\ c.was \in Values /\ c.will \in Values
      /\ c.things \in Seq(Things) /\ c.at \in Nat /\ DOMAIN c.will = DOMAIN c.was
      /\ \A x \in DOMAIN c.was : \A f \in Fields : c.was[x][f] = Keep <=> c.will[x][f] = Keep
  BY DEF AnyCommands
<1>2. ASSUME NEW v \in Values, NEW x \in DOMAIN v, NEW f \in Fields
      PROVE  v[x][f] \in Int \cup {Keep}
  <2>1. v[x] \in Attr
    BY ValuesType
  <2>2. QED
    BY <2>1 DEF Attr, Fields
<1>3. DOMAIN c.was \subseteq Things
  BY <1>1, ValuesType
<1>4. QED
  BY <1>1, <1>2, <1>3

LEMMA ScoreIs ==
    ASSUME NEW d \in Scores
    PROVE  /\ d \in Document /\ d.tracks \in Seq(Tracks) /\ Made(d) \subseteq Things
           /\ \A x \in Made(d) : d.t[x] \in Int
           /\ \A k \in Tracks : /\ d.on[k] \in Seq(Things) /\ On(d, k) \subseteq Made(d)
                                /\ On(d, k) = ToSet(d.on[k])
  BY DEF Scores, Document, Made, On

\* A list of one track is replaced.
LEMMA ListIs ==
    ASSUME NEW d \in Document, NEW k \in Tracks, NEW s \in Seq(Things),
           NEW e, e = [d EXCEPT !.on[k] = s]
    PROVE  /\ e \in Document /\ On(e, k) = ToSet(s) /\ \A j \in Tracks \ {k} : On(e, j) = On(d, j)
           /\ e.tracks = d.tracks /\ e.t = d.t /\ \A f \in Fields : e[f] = d[f]
<1> DEFINE on == [d.on EXCEPT ![k] = s]
<1>1. d.on \in [Tracks -> Seq(Things)]
  BY DEF Document
<1>2. on \in [Tracks -> Seq(Things)] /\ on[k] = s /\ \A j \in Tracks \ {k} : on[j] = d.on[j]
  BY <1>1
<1>3. e = [tracks |-> d.tracks, on |-> on, t |-> d.t, size |-> d.size, level |-> d.level]
  <2>1. d = [tracks |-> d.tracks, on |-> d.on, t |-> d.t, size |-> d.size, level |-> d.level]
    BY DEF Document
  <2>2. e = [d EXCEPT !.on = on]
    BY <2>1
  <2> HIDE DEF on
  <2>3. QED
    BY <2>1, <2>2
<1> HIDE DEF on
<1> DEFINE q == [tracks |-> d.tracks, on |-> on, t |-> d.t, size |-> d.size, level |-> d.level]
<1>4. e \in Document /\ e.on = on /\ e.t = d.t /\ e.tracks = d.tracks /\ e.size = d.size /\ e.level = d.level
  <2>1. q \in Document /\ q.on = on /\ q.t = d.t /\ q.tracks = d.tracks /\ q.size = d.size /\ q.level = d.level
    BY <1>2 DEF Document
  <2> HIDE DEF q
  <2>2. QED
    BY <1>3, <2>1 DEF q
<1>5. ASSUME NEW f \in Fields PROVE e[f] = d[f]
  <2>1. d.t = d["t"] /\ e.t = e["t"] /\ d.size = d["size"] /\ e.size = e["size"]
        /\ d.level = d["level"] /\ e.level = e["level"]
    BY <1>4 DEF Document
  <2>2. QED
    BY <1>4, <2>1 DEF Fields
<1>6. On(e, k) = ToSet(s) /\ \A j \in Tracks \ {k} : On(e, j) = On(d, j)
  BY <1>2, <1>4 DEF On
<1>7. QED
  BY <1>4, <1>5, <1>6

\* A list is sorted.
LEMMA SortIs ==
    ASSUME NEW t, NEW s \in Seq(Things), \A x \in ToSet(s) : t[x] \in Int
    PROVE  Normalise(t, s) \in Seq(Things) /\ ToSet(Normalise(t, s)) = ToSet(s)
<1>1. ToSet(s) \subseteq Things /\ s \in Seq(ToSet(s))
  <2>1. \A i \in 1..Len(s) : s[i] \in ToSet(s)
    BY ToSetOf
  <2>2. QED
    BY <2>1, ToSetOf
<1>2. Normalise(t, s) \in Seq(ToSet(s)) /\ ToSet(Normalise(t, s)) = ToSet(s)
  BY <1>1, NormaliseSorts
<1>3. QED
  BY <1>1, <1>2, SeqOfMore

LEMMA JoinIs ==
    ASSUME NEW S, NEW s \in Seq(S), NEW r \in Seq(S)
    PROVE  s \o r \in Seq(S) /\ ToSet(s \o r) = ToSet(s) \cup ToSet(r)
<1> DEFINE m == Len(s)
           n == Len(r)
           q == s \o r
<1>1. /\ q \in Seq(S) /\ m \in Nat /\ n \in Nat /\ Len(q) = m + n
      /\ \A i \in 1..m : q[i] = s[i]
      /\ \A i \in (m + 1)..(m + n) : q[i] = r[i - m]
  BY ConcatProperties
<1> HIDE DEF q
<1>2. ToSet(q) = {q[i] : i \in 1..(m + n)} /\ ToSet(s) = {s[i] : i \in 1..m} /\ ToSet(r) = {r[i] : i \in 1..n}
  BY <1>1, ToSetOf
<1> HIDE DEF m, n
<1>3. ASSUME NEW i \in 1..(m + n) PROVE q[i] \in ToSet(s) \cup ToSet(r)
  <2>1. CASE i \in 1..m
    BY <1>1, <1>2, <2>1
  <2>2. CASE i \notin 1..m
    <3>1. i \in (m + 1)..(m + n) /\ i - m \in 1..n
      BY <1>1, <2>2
    <3>2. QED
      BY <1>1, <1>2, <3>1
  <2>3. QED
    BY <2>1, <2>2
<1>4. ASSUME NEW i \in 1..m PROVE s[i] \in ToSet(q)
  <2>1. i \in 1..(m + n) /\ q[i] = s[i]
    BY <1>1
  <2>2. QED
    BY <1>2, <2>1
<1>5. ASSUME NEW i \in 1..n PROVE r[i] \in ToSet(q)
  <2>1. m + i \in (m + 1)..(m + n) /\ m + i - m = i /\ m + i \in 1..(m + n)
    BY <1>1
  <2>2. q[m + i] = r[i]
    BY <1>1, <2>1
  <2>3. QED
    BY <1>2, <2>1, <2>2
<1>6. ToSet(q) \subseteq ToSet(s) \cup ToSet(r)
  <2> HIDE DEF m, n
  <2>1. QED
    BY <1>2, <1>3
<1>7. ToSet(s) \subseteq ToSet(q) /\ ToSet(r) \subseteq ToSet(q)
  BY <1>2, <1>4, <1>5
<1>8. QED
  BY <1>1, <1>6, <1>7 DEF q

\* Nothing is unmade.
LEMMA SetTurn ==
    ASSUME NEW forth \in BOOLEAN, NEW d \in Scores, NEW c \in AnyCommands, Known(c, d), c.k \in Sets
    PROVE  Effect(forth, d, c, OneTurn(forth, d, c))
<1> DEFINE v == To(forth, c)
           e == Put(d, v)
           k == c.track
           s == Normalise(e.t, e.on[k])
           r == OneTurn(forth, d, c)
<1>1. v \in Values /\ k \in Tracks /\ DOMAIN v \subseteq Made(d)
  BY CommandIs DEF To, Known
<1>2. d \in Document /\ \A j \in Tracks : d.on[j] \in Seq(Things) /\ On(d, j) \subseteq Made(d)
  BY ScoreIs
<1>3. /\ e \in Document /\ e.tracks = d.tracks /\ e.on = d.on
      /\ \A x \in Things : \A f \in Fields :
            e[f][x] = IF x \in DOMAIN v /\ v[x][f] # Keep THEN v[x][f] ELSE d[f][x]
  BY <1>1, <1>2, PutIs
<1>4. r = IF c.k = "resizeCues" THEN e ELSE [e EXCEPT !.on[k] = s]
  <2>1. c.k \notin {"insert", "remove", "addTrack", "removeTrack"}
    BY DEF Sets
  <2>2. r = Set(d, c, v)
    BY <2>1 DEF OneTurn, ApplyOne, RevertOne, To
  <2>3. QED
    BY <2>2 DEF Set
<1> HIDE DEF r, e
<1>5. Made(e) = Made(d)
  <2>1. \A x \in Things : e.t[x] = IF x \in DOMAIN v /\ v[x]["t"] # Keep THEN v[x]["t"] ELSE d.t[x]
    BY <1>2, <1>3, FieldsOf DEF Fields
  <2>2. \A x \in DOMAIN v : d.t[x] # Keep
    BY <1>1 DEF Made
  <2>3. QED
    BY <2>1, <2>2 DEF Made
<1>6. s \in Seq(Things) /\ ToSet(s) = On(d, k)
  <2>1. \A x \in ToSet(e.on[k]) : e.t[x] \in Int
    <3>1. \A x \in Made(e) : e.t[x] \in Int
      BY <1>3 DEF Made, Document
    <3>2. QED
      BY <1>1, <1>2, <1>3, <1>5, <3>1 DEF On
  <2>2. QED
    BY <1>1, <1>2, <1>3, <2>1, SortIs DEF On
<1> HIDE DEF s, v
<1>7. /\ r \in Document /\ r.t = e.t /\ r.tracks = d.tracks
      /\ \A f \in Fields : r[f] = e[f]
      /\ \A j \in Tracks : On(r, j) = On(d, j)
  <2>1. CASE c.k = "resizeCues"
    BY <1>3, <1>4, <2>1 DEF On
  <2>2. CASE c.k # "resizeCues"
    <3>1. r = [e EXCEPT !.on[k] = s]
      BY <1>4, <2>2
    <3>2. \A j \in Tracks : On(e, j) = On(d, j)
      BY <1>3 DEF On
    <3>3. QED
      BY <1>1, <1>3, <1>6, <3>1, <3>2, ListIs
  <2>3. QED
    BY <2>1, <2>2
<1>8. Made(r) = Made(d)
  BY <1>5, <1>7 DEF Made
<1>9. r \in Scores
  BY <1>2, <1>7, <1>8 DEF Scores
<1>10. ~Puts(forth, c) /\ ~Takes(forth, c) /\ ~Adds(forth, c) /\ ~Drops(forth, c)
  BY DEF Puts, Takes, Adds, Drops, Sets
<1>11. QED
  BY <1>3, <1>7, <1>8, <1>9, <1>10 DEF Effect, r, v

LEMMA PutTurn ==
    ASSUME NEW forth \in BOOLEAN, NEW d \in Scores, NEW c \in AnyCommands, Known(c, d), Puts(forth, c)
    PROVE  Effect(forth, d, c, OneTurn(forth, d, c))
<1> DEFINE k == c.track
           s == Normalise(d.t, d.on[k] \o c.things)
           r == OneTurn(forth, d, c)
<1>1. k \in Tracks /\ c.things \in Seq(Things) /\ ToSet(c.things) \subseteq Made(d)
  BY CommandIs DEF Known
<1>2. /\ d \in Document /\ \A j \in Tracks : d.on[j] \in Seq(Things) /\ On(d, j) \subseteq Made(d)
      /\ \A x \in Made(d) : d.t[x] \in Int
  BY ScoreIs
<1>3. r = [d EXCEPT !.on[k] = s]
  <2>1. c.k \notin Sets /\ r = PutOn(d, c)
    BY DEF OneTurn, ApplyOne, RevertOne, Puts, Sets
  <2>2. QED
    BY <2>1 DEF PutOn
<1>4. s \in Seq(Things) /\ ToSet(s) = On(d, k) \cup ToSet(c.things)
  <2>1. d.on[k] \o c.things \in Seq(Things) /\ ToSet(d.on[k] \o c.things) = On(d, k) \cup ToSet(c.things)
    BY <1>1, <1>2, JoinIs DEF On
  <2>2. QED
    BY <1>1, <1>2, <2>1, SortIs
<1> HIDE DEF r, s
<1>5. /\ r \in Document /\ r.t = d.t /\ r.tracks = d.tracks
      /\ \A f \in Fields : r[f] = d[f]
      /\ On(r, k) = On(d, k) \cup ToSet(c.things)
      /\ \A j \in Tracks \ {k} : On(r, j) = On(d, j)
  BY <1>1, <1>2, <1>3, <1>4, ListIs
<1>6. Made(r) = Made(d)
  BY <1>5 DEF Made
<1>7. r \in Scores
  BY <1>1, <1>2, <1>5, <1>6 DEF Scores
<1>8. ~Adds(forth, c) /\ ~Drops(forth, c) /\ c.k \notin Sets
  BY DEF Puts, Adds, Drops, Sets
<1>9. QED
  BY <1>5, <1>6, <1>7, <1>8 DEF Effect, r

LEMMA TakeTurn ==
    ASSUME NEW forth \in BOOLEAN, NEW d \in Scores, NEW c \in AnyCommands, Takes(forth, c)
    PROVE  Effect(forth, d, c, OneTurn(forth, d, c))
<1> DEFINE k == c.track
           s == Among(d.on[k], Things \ ToSet(c.things))
           r == OneTurn(forth, d, c)
<1>1. k \in Tracks
  BY CommandIs
<1>2. /\ d \in Document
      /\ \A j \in Tracks : d.on[j] \in Seq(Things) /\ On(d, j) \subseteq Made(d) /\ Made(d) \subseteq Things
  BY ScoreIs
<1>3. r = [d EXCEPT !.on[k] = s]
  <2>1. c.k \notin Sets /\ r = TakeOff(d, c)
    BY DEF OneTurn, ApplyOne, RevertOne, Takes, Sets
  <2>2. QED
    BY <2>1 DEF TakeOff
<1>4. s \in Seq(Things) /\ ToSet(s) = On(d, k) \ ToSet(c.things)
  <2>1. s \in Seq(Things) /\ ToSet(s) = On(d, k) \cap (Things \ ToSet(c.things))
    BY <1>1, <1>2, AmongKeeps DEF On
  <2>2. On(d, k) \subseteq Things
    BY <1>1, <1>2
  <2>3. QED
    BY <2>1, <2>2
<1> HIDE DEF r, s
<1>5. /\ r \in Document /\ r.t = d.t /\ r.tracks = d.tracks
      /\ \A f \in Fields : r[f] = d[f]
      /\ On(r, k) = On(d, k) \ ToSet(c.things)
      /\ \A j \in Tracks \ {k} : On(r, j) = On(d, j)
  BY <1>1, <1>2, <1>3, <1>4, ListIs
<1>6. Made(r) = Made(d)
  BY <1>5 DEF Made
<1>7. r \in Scores
  BY <1>1, <1>2, <1>5, <1>6 DEF Scores
<1>8. ~Adds(forth, c) /\ ~Drops(forth, c) /\ ~Puts(forth, c) /\ c.k \notin Sets
  BY DEF Takes, Puts, Adds, Drops, Sets
<1>9. QED
  BY <1>5, <1>6, <1>7, <1>8 DEF Effect, r

\* What is there once is taken out.
LEMMA TakenAt ==
    ASSUME NEW T, NEW s \in Seq(T), NEW S, NEW p \in 1..Len(s), \A i \in 1..Len(s) : s[i] \in S <=> i # p
    PROVE  /\ Among(s, S) \in Seq(T) /\ Len(Among(s, S)) = Len(s) - 1
           /\ \A j \in 1..(Len(s) - 1) : Among(s, S)[j] = IF j < p THEN s[j] ELSE s[j + 1]
<1> DEFINE n == Len(s)
<1>1. n \in Nat /\ p \in 1..n /\ \A i \in 1..n : s[i] \in T
  OBVIOUS
<1>2. PICK out :
         /\ out[0] = <<>>
         /\ \A i \in 1..n : out[i] = NextAmong(s, S, i, out[i - 1])
         /\ Among(s, S) = out[n]
  BY AmongLoop
<1>3. \A i \in 1..n : s[i] \in S <=> i # p
  OBVIOUS
<1> HIDE DEF n
<1> DEFINE Upto(i) == /\ out[i] \in Seq(T) /\ Len(out[i]) = (IF i < p THEN i ELSE i - 1)
                      /\ \A j \in 1..Len(out[i]) : out[i][j] = IF j < p THEN s[j] ELSE s[j + 1]
           R == {i \in 0..n : Upto(i)}
<1>4. 0 \in R
  <2>1. out[0] \in Seq(T) /\ Len(out[0]) = 0
    BY <1>2, EmptySeq
  <2>2. QED
    BY <1>1, <2>1
<1>5. ASSUME NEW i \in 1..n, i - 1 \in R PROVE i \in R
  <2> DEFINE m == out[i - 1]
  <2>1. /\ m \in Seq(T) /\ Len(m) = (IF i - 1 < p THEN i - 1 ELSE i - 2)
        /\ \A j \in 1..Len(m) : m[j] = IF j < p THEN s[j] ELSE s[j + 1]
    <3>1. Upto(i - 1)
      BY <1>5
    <3>2. i - 1 - 1 = i - 2
      BY <1>1
    <3>3. QED
      BY <3>1, <3>2
  <2>2. out[i] = IF i # p THEN Append(m, s[i]) ELSE m
    BY <1>2, <1>3 DEF NextAmong
  <2> HIDE DEF m
  <2>3. CASE i = p
    <3>1. out[i] = m /\ Len(m) = i - 1
      BY <1>1, <2>1, <2>2, <2>3
    <3>2. Upto(i)
      BY <1>1, <2>1, <2>3, <3>1
    <3>3. QED
      BY <1>1, <3>2
  <2>4. CASE i # p
    <3>1. /\ out[i] \in Seq(T) /\ Len(out[i]) = Len(m) + 1 /\ out[i][Len(m) + 1] = s[i]
          /\ \A j \in 1..Len(m) : out[i][j] = m[j]
      BY <1>1, <2>1, <2>2, <2>4, AppendProperties
    <3>2. Len(m) + 1 = (IF i < p THEN i ELSE i - 1) /\ Len(m) \in Nat
      BY <1>1, <2>1, <2>4
    <3>3. s[i] = IF Len(m) + 1 < p THEN s[Len(m) + 1] ELSE s[Len(m) + 1 + 1]
      BY <1>1, <2>4, <3>2
    <3>4. ASSUME NEW j \in 1..Len(out[i]) PROVE out[i][j] = IF j < p THEN s[j] ELSE s[j + 1]
      <4>1. CASE j \in 1..Len(m)
        BY <2>1, <3>1, <4>1
      <4>2. CASE j \notin 1..Len(m)
        <5>1. j = Len(m) + 1
          BY <3>1, <3>2, <4>2
        <5>2. QED
          BY <3>1, <3>3, <5>1
      <4>3. QED
        BY <4>1, <4>2
    <3>5. Upto(i)
      BY <3>1, <3>2, <3>4
    <3>6. QED
      BY <1>1, <3>5
  <2>5. QED
    BY <2>3, <2>4
<1>6. Upto(n)
  <2>1. 0..n \subseteq R
    <3> HIDE DEF R
    <3>1. QED
      BY <1>1, <1>4, <1>5, StepByStep
  <2>2. QED
    BY <1>1, <2>1
<1> HIDE DEF Upto
<1>7. ~(n < p)
  BY <1>1
<1>8. /\ Among(s, S) \in Seq(T) /\ Len(Among(s, S)) = n - 1
      /\ \A j \in 1..(n - 1) : Among(s, S)[j] = IF j < p THEN s[j] ELSE s[j + 1]
  BY <1>2, <1>6, <1>7 DEF Upto
<1>9. QED
  BY <1>8 DEF n

\* What is put in comes before what was there.
PutIn(T, r, p, x, q) ==
    /\ q \in Seq(T) /\ Len(q) = Len(r) + 1
    /\ \A j \in 1..(Len(r) + 1) : /\ j < p => q[j] = r[j]
                                  /\ j = p => q[j] = x
                                  /\ j > p => q[j] = r[j - 1]

LEMMA Inserting ==
    ASSUME NEW T, NEW r \in Seq(T), NEW p \in 1..(Len(r) + 1), NEW x \in T, NEW q, q = InsertAt(r, p, x)
    PROVE  PutIn(T, r, p, x, q)
<1>1. /\ q \in Seq(T) /\ Len(q) = Len(r) + 1
      /\ \A j \in 1..(Len(r) + 1) : q[j] = IF j < p THEN r[j] ELSE IF j = p THEN x ELSE r[j - 1]
  BY InsertAtIs, SMTT(30)
<1>2. p \in Nat
  OBVIOUS
<1>3. QED
  BY <1>1, <1>2 DEF PutIn

\* Where something can be put in.
Slots(s) == 1..(Len(s) + 1)

\* It is there once.
Alone(s, p, x) == \A i \in 1..Len(s) : s[i] = x <=> i = p

\* Taken out again, what was put in leaves what there was.
LEMMA OutAgain ==
    ASSUME NEW T, NEW u \in Seq(T), NEW x \in T, NEW p \in Slots(u),
           x \notin ToSet(u)
    PROVE  /\ InsertAt(u, p, x) \in Seq(T) /\ Len(InsertAt(u, p, x)) = Len(u) + 1
           /\ Alone(InsertAt(u, p, x), p, x)
           /\ Among(InsertAt(u, p, x), T \ {x}) = u
<1> DEFINE n == Len(u)
           s == InsertAt(u, p, x)
           S == T \ {x}
           q == Among(s, S)
<1>s. s = InsertAt(u, p, x)
  OBVIOUS
<1> HIDE DEF s, S, q
<1>0. /\ s \in Seq(T) /\ Len(s) = Len(u) + 1
      /\ \A j \in 1..(Len(u) + 1) : /\ j < p => s[j] = u[j]
                                    /\ j = p => s[j] = x
                                    /\ j > p => s[j] = u[j - 1]
  <2>1. PutIn(T, u, p, x, s)
    BY <1>s, Inserting DEF Slots
  <2>2. QED
    BY <2>1 DEF PutIn
<1>1. n \in Nat /\ Len(s) = n + 1 /\ p \in 1..(n + 1) /\ \A i \in 1..(n + 1) : s[i] \in T
  BY <1>0 DEF Slots
<1>2. \A i \in 1..n : u[i] # x
  BY ToSetOf
<1>3. \A j \in 1..(n + 1) : /\ j < p => s[j] = u[j]
                            /\ j = p => s[j] = x
                            /\ j > p => s[j] = u[j - 1]
  BY <1>0
<1> HIDE DEF n
<1>4. \A i \in 1..(n + 1) : s[i] = x <=> i = p
  <2> SUFFICES ASSUME NEW i \in 1..(n + 1) PROVE s[i] = x <=> i = p
    OBVIOUS
  <2>1. CASE i < p
    <3>1. i \in 1..n /\ i # p
      BY <1>1, <2>1
    <3>2. QED
      BY <1>2, <1>3, <2>1, <3>1
  <2>2. CASE i = p
    BY <1>1, <1>3, <2>2
  <2>3. CASE i > p
    <3>1. i - 1 \in 1..n /\ s[i] = u[i - 1]
      BY <1>1, <1>3, <2>3
    <3>2. QED
      BY <1>1, <1>2, <2>3, <3>1
  <2>4. QED
    BY <1>1, <2>1, <2>2, <2>3
<1>5. \A i \in 1..(n + 1) : s[i] \in S <=> i # p
  BY <1>1, <1>4 DEF S
<1>6. q \in Seq(T) /\ Len(q) = n /\ \A j \in 1..n : q[j] = IF j < p THEN s[j] ELSE s[j + 1]
  <2>1. p \in 1..Len(s) /\ \A i \in 1..Len(s) : s[i] \in S <=> i # p
    BY <1>1, <1>5
  <2>2. /\ q \in Seq(T) /\ Len(q) = Len(s) - 1
        /\ \A j \in 1..(Len(s) - 1) : q[j] = IF j < p THEN s[j] ELSE s[j + 1]
    <3>1. s \in Seq(T)
      BY <1>0
    <3>2. /\ Among(s, S) \in Seq(T) /\ Len(Among(s, S)) = Len(s) - 1
          /\ \A j \in 1..(Len(s) - 1) : Among(s, S)[j] = IF j < p THEN s[j] ELSE s[j + 1]
      BY <2>1, <3>1, TakenAt, Zenon
    <3>3. QED
      BY <3>2, Zenon DEF q
  <2>3. Len(s) - 1 = n
    BY <1>1
  <2>4. QED
    BY <2>2, <2>3
<1>7. ASSUME NEW j \in 1..n PROVE q[j] = u[j]
  <2>1. j \in 1..(n + 1) /\ j + 1 \in 1..(n + 1) /\ j + 1 - 1 = j
    BY <1>1
  <2>2. CASE j < p
    BY <1>3, <1>6, <2>1, <2>2
  <2>3. CASE ~(j < p)
    <3>1. j + 1 > p
      BY <1>1, <2>3
    <3>2. q[j] = s[j + 1] /\ s[j + 1] = u[j + 1 - 1]
      BY <1>3, <1>6, <2>1, <2>3, <3>1
    <3>3. QED
      BY <2>1, <3>2
  <2>4. QED
    BY <2>2, <2>3
<1>8. q = u
  <2>1. Len(q) = Len(u)
    BY <1>6 DEF n
  <2>2. \A j \in 1..Len(q) : q[j] = u[j]
    BY <1>6, <1>7
  <2>3. QED
    BY <1>6, <2>1, <2>2, SeqEqual
<1>9. Alone(s, p, x)
  BY <1>1, <1>4 DEF Alone
<1>10. QED
  BY <1>0, <1>8, <1>9 DEF q, s, S

\* Put in again where it was, what was taken out leaves what there was.
LEMMA InAgain ==
    ASSUME NEW T, NEW s \in Seq(T), NEW x \in T, NEW p \in 1..Len(s),
           \A i \in 1..Len(s) : s[i] = x <=> i = p
    PROVE  /\ Among(s, T \ {x}) \in Seq(T) /\ Len(Among(s, T \ {x})) = Len(s) - 1
           /\ \A i \in 1..Len(Among(s, T \ {x})) : Among(s, T \ {x})[i] # x
           /\ InsertAt(Among(s, T \ {x}), p, x) = s
<1> DEFINE n == Len(s)
           S == T \ {x}
           r == Among(s, S)
           q == InsertAt(r, p, x)
<1>1. n \in Nat /\ p \in 1..n /\ (\A i \in 1..n : s[i] = x <=> i = p) /\ \A i \in 1..n : s[i] \in T
  OBVIOUS
<1>2. \A i \in 1..Len(s) : s[i] \in S <=> i # p
  BY <1>1
<1> HIDE DEF S
<1>3. r \in Seq(T) /\ Len(r) = Len(s) - 1 /\ \A j \in 1..(Len(s) - 1) : r[j] = IF j < p THEN s[j] ELSE s[j + 1]
  BY <1>2, TakenAt
<1> HIDE DEF r
<1>4. r \in Seq(T) /\ Len(r) = n - 1 /\ \A j \in 1..(n - 1) : r[j] = IF j < p THEN s[j] ELSE s[j + 1]
  BY <1>3
<1> HIDE DEF n
<1>5. \A i \in 1..(n - 1) : r[i] # x
  <2> SUFFICES ASSUME NEW i \in 1..(n - 1) PROVE r[i] # x
    OBVIOUS
  <2>1. i \in 1..n /\ i + 1 \in 1..n /\ (i < p => i # p) /\ (~(i < p) => i + 1 # p)
    BY <1>1
  <2>2. QED
    BY <1>1, <1>4, <2>1
<1>6. p \in 1..(Len(r) + 1) /\ Len(r) + 1 = n
  BY <1>1, <1>4
<1>7. q = InsertAt(r, p, x)
  OBVIOUS
<1> HIDE DEF q
<1>8. /\ q \in Seq(T) /\ Len(q) = Len(r) + 1
      /\ \A j \in 1..(Len(r) + 1) : /\ j < p => q[j] = r[j]
                                    /\ j = p => q[j] = x
                                    /\ j > p => q[j] = r[j - 1]
  <2>1. r \in Seq(T) /\ p \in 1..(Len(r) + 1)
    BY <1>4, <1>6
  <2>2. PutIn(T, r, p, x, q)
    BY <1>7, <2>1, Inserting
  <2>3. QED
    BY <2>2 DEF PutIn
<1>9. ASSUME NEW j \in 1..n PROVE q[j] = s[j]
  <2>1. (j < p => q[j] = r[j]) /\ (j = p => q[j] = x) /\ (j > p => q[j] = r[j - 1])
    BY <1>6, <1>8
  <2>2. CASE j < p
    BY <1>1, <1>4, <2>1, <2>2
  <2>3. CASE j = p
    BY <1>1, <2>1, <2>3
  <2>4. CASE j > p
    <3>1. j - 1 \in 1..(n - 1) /\ ~(j - 1 < p) /\ j - 1 + 1 = j /\ ~(j < p) /\ j # p
      BY <1>1, <2>4
    <3>2. QED
      BY <1>4, <2>1, <3>1
  <2>5. QED
    BY <1>1, <2>2, <2>3, <2>4
<1>10. q = s
  <2>1. Len(q) = Len(s) /\ \A j \in 1..Len(q) : q[j] = s[j]
    BY <1>6, <1>8, <1>9 DEF n
  <2>2. QED
    BY <1>8, <2>1, SeqEqual
<1>11. QED
  BY <1>4, <1>5, <1>10 DEF n, q, r, S

\* The list of tracks is replaced.
LEMMA RowsAre ==
    ASSUME NEW d \in Scores, NEW s \in Seq(Tracks), NEW e, e = [d EXCEPT !.tracks = s]
    PROVE  /\ e \in Scores /\ Made(e) = Made(d) /\ e.tracks = s
           /\ (\A k \in Tracks : On(e, k) = On(d, k)) /\ \A f \in Fields : e[f] = d[f]
<1> DEFINE q == [tracks |-> s, on |-> d.on, t |-> d.t, size |-> d.size, level |-> d.level]
<1>1. d \in Document /\ \A k \in Tracks : On(d, k) \subseteq Made(d)
  BY ScoreIs
<1>2. q \in Document /\ q.on = d.on /\ q.t = d.t /\ q.tracks = s /\ q.size = d.size /\ q.level = d.level
  BY <1>1 DEF Document
<1>3. e = q
  BY <1>1 DEF Document
<1> HIDE DEF q
<1>4. e \in Document /\ e.on = d.on /\ e.t = d.t /\ e.tracks = s /\ e.size = d.size /\ e.level = d.level
  BY <1>2, <1>3
<1>5. Made(e) = Made(d) /\ \A k \in Tracks : On(e, k) = On(d, k)
  BY <1>4 DEF Made, On
<1>6. e \in Scores
  BY <1>1, <1>4, <1>5 DEF Scores
<1>7. ASSUME NEW f \in Fields PROVE e[f] = d[f]
  <2>1. d.t = d["t"] /\ e.t = e["t"] /\ d.size = d["size"] /\ e.size = e["size"]
        /\ d.level = d["level"] /\ e.level = e["level"]
    BY <1>1, <1>4 DEF Document
  <2>2. QED
    BY <1>4, <2>1 DEF Fields
<1>8. QED
  BY <1>4, <1>5, <1>6, <1>7

\* To add last is to put in after all the others.
LEMMA LastIn ==
    ASSUME NEW T, NEW s \in Seq(T), NEW x \in T
    PROVE  InsertAt(s, Len(s) + 1, x) = Append(s, x)
<1> DEFINE p == Len(s) + 1
           q == InsertAt(s, p, x)
           a == Append(s, x)
<1>1. p \in 1..(Len(s) + 1) /\ Len(s) \in Nat /\ \A j \in 1..Len(s) : j < p
  OBVIOUS
<1>2. a \in Seq(T) /\ Len(a) = p /\ a[p] = x /\ \A j \in 1..Len(s) : a[j] = s[j]
  BY AppendProperties
<1>3. q = InsertAt(s, p, x)
  OBVIOUS
<1> HIDE DEF q, a
<1>4. /\ q \in Seq(T) /\ Len(q) = Len(s) + 1
      /\ \A j \in 1..(Len(s) + 1) : q[j] = IF j < p THEN s[j] ELSE IF j = p THEN x ELSE s[j - 1]
  <2> HIDE DEF p
  <2>1. QED
    BY <1>1, <1>3, InsertAtIs, SMTT(30)
<1>5. ASSUME NEW j \in 1..Len(q) PROVE q[j] = a[j]
  <2>1. CASE j = p
    BY <1>1, <1>2, <1>4, <2>1
  <2>2. CASE j # p
    BY <1>1, <1>2, <1>4, <2>2
  <2>3. QED
    BY <2>1, <2>2
<1>6. q = a
  <2>1. Len(q) = Len(a)
    BY <1>2, <1>4
  <2>2. QED
    BY <1>2, <1>4, <1>5, <2>1, SeqEqual
<1>7. QED
  BY <1>6 DEF q, a

LEMMA RowTurn ==
    ASSUME NEW forth \in BOOLEAN, NEW d \in Scores, NEW c \in AnyCommands,
           Adds(forth, c) \/ Drops(forth, c)
    PROVE  Effect(forth, d, c, OneTurn(forth, d, c))
<1> DEFINE s == d.tracks
           x == c.track
           r == OneTurn(forth, d, c)
           q == IF Adds(forth, c) THEN InsertAt(s, Row(c, s), x) ELSE Among(s, Tracks \ {x})
<1>1. x \in Tracks /\ s \in Seq(Tracks) /\ c.at \in Nat /\ (c.k = "removeTrack" => c.at >= 1)
  BY CommandIs, ScoreIs DEF AnyCommands
<1>2. Row(c, s) \in 1..(Len(s) + 1)
  BY <1>1 DEF Row, Adds, Drops
<1>3. r = [d EXCEPT !.tracks = q]
  <2>1. CASE Drops(forth, c)
    <3>1. c.k \notin Sets /\ r = TakeOut(d, c) /\ ~Adds(forth, c)
      BY <2>1 DEF OneTurn, ApplyOne, RevertOne, Drops, Adds, Sets
    <3>2. QED
      BY <3>1 DEF TakeOut
  <2>2. CASE Adds(forth, c) /\ c.k = "addTrack"
    <3>1. c.k \notin Sets /\ r = AddLast(d, c)
      BY <2>2 DEF OneTurn, ApplyOne, RevertOne, Adds, Sets
    <3>2. q = Append(s, x)
      BY <1>1, <2>2, LastIn DEF Row
    <3> HIDE DEF q, r
    <3>3. QED
      BY <3>1, <3>2 DEF AddLast
  <2>3. CASE Adds(forth, c) /\ c.k # "addTrack"
    <3>1. c.k \notin Sets /\ r = PutBack(d, c)
      BY <2>3 DEF OneTurn, ApplyOne, RevertOne, Adds, Sets
    <3>2. q = InsertAt(s, IF c.at > Len(s) THEN Len(s) + 1 ELSE c.at, x)
      BY <2>3 DEF Row
    <3> HIDE DEF q, r
    <3>3. QED
      BY <3>1, <3>2 DEF PutBack
  <2>4. QED
    BY <2>1, <2>2, <2>3
<1>4. q \in Seq(Tracks)
  <2>1. InsertAt(s, Row(c, s), x) \in Seq(Tracks)
    BY <1>1, <1>2, InsertAtIs
  <2>2. Among(s, Tracks \ {x}) \in Seq(Tracks)
    BY <1>1, AmongKeeps
  <2>3. QED
    BY <2>1, <2>2
<1> HIDE DEF r
<1>5. /\ r \in Scores /\ Made(r) = Made(d) /\ r.tracks = q
      /\ (\A k \in Tracks : On(r, k) = On(d, k)) /\ \A f \in Fields : r[f] = d[f]
  <2> HIDE DEF q
  <2>1. QED
    BY <1>3, <1>4, RowsAre
<1>6. ~Puts(forth, c) /\ ~Takes(forth, c) /\ c.k \notin Sets
  BY DEF Puts, Takes, Adds, Drops, Sets
<1>7. r.tracks = IF Adds(forth, c) THEN InsertAt(s, Row(c, s), x)
                 ELSE IF Drops(forth, c) THEN Among(s, Tracks \ {x}) ELSE s
  BY <1>5
<1> HIDE DEF q
<1>8. QED
  BY <1>5, <1>6, <1>7 DEF Effect, r

LEMMA TurnIs ==
    ASSUME NEW forth \in BOOLEAN, NEW d \in Scores, NEW c \in AnyCommands, Known(c, d)
    PROVE  Effect(forth, d, c, OneTurn(forth, d, c))
<1>1. c.k \in Kinds
  BY CommandIs
<1>2. c.k \in Sets \/ Puts(forth, c) \/ Takes(forth, c) \/ Adds(forth, c) \/ Drops(forth, c)
  BY <1>1 DEF Kinds, Puts, Takes, Adds, Drops
<1>3. QED
  BY <1>2, SetTurn, PutTurn, TakeTurn, RowTurn

-----------------------------------------------------------------------------
(* A command taken back *)

\* Undo says nothing of a cue's parameters.
Spoken(f, x) == f = "level" => x \in Points

\* A document looks as another did, in what was made then; or, where values are not
\* promised, has at least the same on the same tracks.
Matches(h, d, e) ==
    /\ d.tracks = e.tracks /\ \A k \in Tracks : On(d, k) = On(e, k)
    /\ Made(e) \subseteq Made(d)
    /\ h => \A x \in Made(e) : \A f \in Fields : Spoken(f, x) => d[f][x] = e[f][x]

Seat(c, s) == IF c.k = "addTrack" THEN Len(s) ELSE c.at

\* A command finds what it says it changes.
Fits(forth, h, c, d) ==
    /\ Known(c, d)
    /\ c.k \in Sets /\ h =>
          \A x \in DOMAIN c.was : \A f \in Fields :
              Spoken(f, x) /\ From(forth, c)[x][f] # Keep => d[f][x] = From(forth, c)[x][f]
    /\ Puts(forth, c) => ToSet(c.things) \cap On(d, c.track) = {}
    /\ Takes(forth, c) => ToSet(c.things) \subseteq On(d, c.track)
    /\ Adds(forth, c) => /\ \A i \in 1..Len(d.tracks) : d.tracks[i] # c.track
                         /\ c.k = "removeTrack" => c.at <= Len(d.tracks) + 1
    /\ Drops(forth, c) => /\ Seat(c, d.tracks) \in 1..Len(d.tracks)
                          /\ \A i \in 1..Len(d.tracks) : d.tracks[i] = c.track <=> i = Seat(c, d.tracks)

LEMMA MatchesSelf ==
    ASSUME NEW h, NEW d PROVE Matches(h, d, d)
  BY DEF Matches

LEMMA MatchesOn ==
    ASSUME NEW h \in BOOLEAN, NEW c, NEW d, NEW e, Matches(h, c, d), Matches(h, d, e)
    PROVE  Matches(h, c, e)
<1>1. h => \A x \in Made(e) : \A f \in Fields : Spoken(f, x) => c[f][x] = e[f][x]
  BY DEF Matches
<1>2. QED
  BY <1>1 DEF Matches

LEMMA MatchesLess ==
    ASSUME NEW h \in BOOLEAN, NEW d, NEW e, Matches(TRUE, d, e)
    PROVE  Matches(h, d, e)
  BY DEF Matches

\* What a command does depends on what the document looks like.
LEMMA MatchTurn ==
    ASSUME NEW forth \in BOOLEAN, NEW h \in BOOLEAN, NEW c \in AnyCommands,
           NEW d \in Scores, NEW e \in Scores, Matches(h, d, e), Fits(forth, h, c, e)
    PROVE  /\ Fits(forth, h, c, d)
           /\ Matches(h, OneTurn(forth, d, c), OneTurn(forth, e, c))
<1> DEFINE p == OneTurn(forth, d, c)
           q == OneTurn(forth, e, c)
<1>1. c.track \in Tracks /\ DOMAIN c.was \subseteq Made(e) /\ Made(e) \subseteq Made(d) /\ Made(e) \subseteq Things
  BY CommandIs, ScoreIs DEF Fits, Known, Matches
<1>2. Known(c, e) /\ Known(c, d)
  BY <1>1 DEF Fits, Known
<1>3. Fits(forth, h, c, d)
  <2>1. d.tracks = e.tracks /\ On(d, c.track) = On(e, c.track)
    BY <1>1 DEF Matches
  <2>2. ASSUME c.k \in Sets, h, NEW x \in DOMAIN c.was, NEW f \in Fields,
               Spoken(f, x), From(forth, c)[x][f] # Keep
        PROVE  d[f][x] = From(forth, c)[x][f]
    <3>1. e[f][x] = From(forth, c)[x][f]
      BY <2>2 DEF Fits
    <3>2. d[f][x] = e[f][x]
      BY <1>1, <2>2 DEF Matches
    <3>3. QED
      BY <3>1, <3>2
  <2>3. /\ Puts(forth, c) => ToSet(c.things) \cap On(d, c.track) = {}
        /\ Takes(forth, c) => ToSet(c.things) \subseteq On(d, c.track)
        /\ Adds(forth, c) => /\ \A i \in 1..Len(d.tracks) : d.tracks[i] # c.track
                             /\ c.k = "removeTrack" => c.at <= Len(d.tracks) + 1
        /\ Drops(forth, c) => /\ Seat(c, d.tracks) \in 1..Len(d.tracks)
                              /\ \A i \in 1..Len(d.tracks) :
                                    d.tracks[i] = c.track <=> i = Seat(c, d.tracks)
    BY <2>1 DEF Fits
  <2>4. QED
    BY <1>2, <2>2, <2>3 DEF Fits
<1>4. Effect(forth, d, c, p) /\ Effect(forth, e, c, q)
  BY <1>2, TurnIs
<1> HIDE DEF p, q
<1>5. p.tracks = q.tracks
  BY <1>4 DEF Effect, Matches
<1>6. \A k \in Tracks : On(p, k) = On(q, k)
  BY <1>4 DEF Effect, Matches
<1>7. Made(p) = Made(d) /\ Made(q) = Made(e)
  BY <1>4 DEF Effect
<1>8. ASSUME h, NEW x \in Made(q), NEW f \in Fields, Spoken(f, x) PROVE p[f][x] = q[f][x]
  <2>1. x \in Made(e) /\ x \in Things
    BY <1>1, <1>7, <1>8
  <2>2. d[f][x] = e[f][x]
    BY <1>8, <2>1 DEF Matches
  <2>3. QED
    BY <1>4, <2>1, <2>2 DEF Effect
<1>9. Matches(h, p, q)
  BY <1>1, <1>5, <1>6, <1>7, <1>8 DEF Matches
<1>10. QED
  BY <1>3, <1>9 DEF p, q

LEMMA OtherWay ==
    ASSUME NEW forth \in BOOLEAN, NEW c
    PROVE  /\ From(~forth, c) = To(forth, c) /\ To(~forth, c) = From(forth, c)
           /\ Puts(~forth, c) = Takes(forth, c) /\ Takes(~forth, c) = Puts(forth, c)
           /\ Adds(~forth, c) = Drops(forth, c) /\ Drops(~forth, c) = Adds(forth, c)
<1>1. CASE forth
  BY <1>1 DEF From, To, Puts, Takes, Adds, Drops
<1>2. CASE ~forth
  BY <1>2 DEF From, To, Puts, Takes, Adds, Drops
<1>3. QED
  BY <1>1, <1>2

\* The tracks are as they were.
LEMMA AddedBack ==
    ASSUME NEW forth \in BOOLEAN, NEW c \in AnyCommands, NEW s \in Seq(Tracks), Adds(forth, c),
           \A i \in 1..Len(s) : s[i] # c.track, c.k = "removeTrack" => c.at <= Len(s) + 1
    PROVE  LET r == InsertAt(s, Row(c, s), c.track)
           IN /\ Seat(c, r) \in 1..Len(r)
              /\ \A i \in 1..Len(r) : r[i] = c.track <=> i = Seat(c, r)
              /\ Among(r, Tracks \ {c.track}) = s
<1> DEFINE x == c.track
           S == Tracks \ {x}
           p == Row(c, s)
           r == InsertAt(s, p, x)
<1>1. c.at \in Nat /\ (c.k = "removeTrack" => c.at >= 1) /\ Len(s) \in Nat
  BY CommandIs DEF AnyCommands
<1>2. c.k = "addTrack" \/ c.k = "removeTrack"
  BY DEF Adds
<1>3. p \in 1..(Len(s) + 1) /\ (c.k = "addTrack" => p = Len(s) + 1) /\ (c.k = "removeTrack" => p = c.at)
  BY <1>1, <1>2 DEF Row
<1>4. x \in Tracks /\ x \notin ToSet(s)
  BY CommandIs, ToSetOf
<1> HIDE DEF x, S, p
<1>5. /\ r \in Seq(Tracks) /\ Len(r) = Len(s) + 1
      /\ Alone(r, p, x)
      /\ Among(r, S) = s
  <2>1. /\ InsertAt(s, p, x) \in Seq(Tracks) /\ Len(InsertAt(s, p, x)) = Len(s) + 1
        /\ Alone(InsertAt(s, p, x), p, x)
        /\ Among(InsertAt(s, p, x), Tracks \ {x}) = s
    <3>1. ASSUME NEW y \in Tracks, NEW b \in Slots(s), y \notin ToSet(s)
          PROVE  /\ InsertAt(s, b, y) \in Seq(Tracks) /\ Len(InsertAt(s, b, y)) = Len(s) + 1
                 /\ Alone(InsertAt(s, b, y), b, y)
                 /\ Among(InsertAt(s, b, y), Tracks \ {y}) = s
      BY <3>1, OutAgain, Zenon
    <3>2. p \in Slots(s)
      BY <1>3 DEF Slots
    <3>3. QED
      BY <1>4, <3>1, <3>2, Zenon
  <2>2. QED
    BY <2>1, Zenon DEF S
<1> HIDE DEF r
<1>6. Seat(c, r) = p /\ p \in 1..Len(r)
  BY <1>1, <1>2, <1>3, <1>5 DEF Seat
<1>7. QED
  BY <1>5, <1>6 DEF r, p, x, S, Alone

LEMMA DroppedBack ==
    ASSUME NEW forth \in BOOLEAN, NEW c \in AnyCommands, NEW s \in Seq(Tracks), Drops(forth, c),
           Seat(c, s) \in 1..Len(s), \A i \in 1..Len(s) : s[i] = c.track <=> i = Seat(c, s)
    PROVE  LET r == Among(s, Tracks \ {c.track})
           IN /\ \A i \in 1..Len(r) : r[i] # c.track
              /\ c.k = "removeTrack" => c.at <= Len(r) + 1
              /\ InsertAt(r, Row(c, r), c.track) = s
<1> DEFINE x == c.track
           S == Tracks \ {x}
           p == Seat(c, s)
           r == Among(s, S)
<1>1. c.at \in Nat /\ Len(s) \in Nat
  BY CommandIs
<1>2. c.k = "addTrack" \/ c.k = "removeTrack"
  BY DEF Drops
<1>3. /\ p \in 1..Len(s) /\ (c.k = "addTrack" => p = Len(s)) /\ (c.k = "removeTrack" => p = c.at)
      /\ \A i \in 1..Len(s) : s[i] = x <=> i = p
  BY DEF Seat
<1>4. x \in Tracks /\ \A y \in Tracks : y \in S <=> y # x
  BY CommandIs
<1> HIDE DEF x, S, p
<1>5. /\ r \in Seq(Tracks) /\ Len(r) = Len(s) - 1
      /\ (\A i \in 1..Len(r) : r[i] # x) /\ InsertAt(r, p, x) = s
  <2>1. /\ Among(s, Tracks \ {x}) \in Seq(Tracks) /\ Len(Among(s, Tracks \ {x})) = Len(s) - 1
        /\ \A i \in 1..Len(Among(s, Tracks \ {x})) : Among(s, Tracks \ {x})[i] # x
        /\ InsertAt(Among(s, Tracks \ {x}), p, x) = s
    <3>1. ASSUME NEW y \in Tracks, NEW b \in 1..Len(s), \A i \in 1..Len(s) : s[i] = y <=> i = b
          PROVE  /\ Among(s, Tracks \ {y}) \in Seq(Tracks) /\ Len(Among(s, Tracks \ {y})) = Len(s) - 1
                 /\ \A i \in 1..Len(Among(s, Tracks \ {y})) : Among(s, Tracks \ {y})[i] # y
                 /\ InsertAt(Among(s, Tracks \ {y}), b, y) = s
      BY <3>1, InAgain, Zenon
    <3>2. QED
      BY <1>3, <1>4, <3>1, Zenon
  <2>2. QED
    BY <2>1, Zenon DEF S
<1> HIDE DEF r
<1>6. Row(c, r) = p /\ (c.k = "removeTrack" => c.at <= Len(r) + 1)
  BY <1>1, <1>2, <1>3, <1>5 DEF Row
<1>7. QED
  BY <1>5, <1>6 DEF r, x, S

\* A command that found what it says can be taken back, and what is left is what it found.
LEMMA BackTurn ==
    ASSUME NEW forth \in BOOLEAN, NEW h \in BOOLEAN, NEW c \in AnyCommands, NEW d \in Scores,
           Fits(forth, h, c, d), NEW r, r = OneTurn(forth, d, c)
    PROVE  /\ r \in Scores /\ Fits(~forth, h, c, r)
           /\ Matches(h, OneTurn(~forth, r, c), d)
<1> DEFINE q == OneTurn(~forth, r, c)
<1>1. Known(c, d)
  BY DEF Fits
<1>2. Effect(forth, d, c, r)
  BY <1>1, TurnIs
<1>3. r \in Scores /\ Made(r) = Made(d)
  BY <1>2 DEF Effect
<1>4. Known(c, r)
  BY <1>1, <1>3 DEF Known
<1>5. Effect(~forth, r, c, q)
  BY <1>3, <1>4, TurnIs
<1> HIDE DEF q
<1>6. /\ c.track \in Tracks /\ c.k \in Kinds /\ DOMAIN c.was \subseteq Things /\ DOMAIN c.will = DOMAIN c.was
      /\ \A x \in DOMAIN c.was : \A f \in Fields : c.was[x][f] = Keep <=> c.will[x][f] = Keep
  BY CommandIs
<1>7. /\ DOMAIN From(forth, c) = DOMAIN c.was /\ DOMAIN To(forth, c) = DOMAIN c.was
      /\ \A x \in DOMAIN c.was : \A f \in Fields : From(forth, c)[x][f] = Keep <=> To(forth, c)[x][f] = Keep
  BY <1>6 DEF From, To
<1>8. /\ From(~forth, c) = To(forth, c) /\ To(~forth, c) = From(forth, c)
      /\ Puts(~forth, c) = Takes(forth, c) /\ Takes(~forth, c) = Puts(forth, c)
      /\ Adds(~forth, c) = Drops(forth, c) /\ Drops(~forth, c) = Adds(forth, c)
  BY OtherWay
<1>9. ASSUME c.k \in Sets, NEW x \in DOMAIN c.was, NEW f \in Fields, From(~forth, c)[x][f] # Keep
      PROVE  r[f][x] = From(~forth, c)[x][f]
  BY <1>2, <1>6, <1>7, <1>8, <1>9 DEF Effect
<1>10. /\ Takes(forth, c) => ToSet(c.things) \cap On(r, c.track) = {}
       /\ Puts(forth, c) => ToSet(c.things) \subseteq On(r, c.track)
  <2>1. Takes(forth, c) => ~Puts(forth, c)
    BY DEF Takes, Puts
  <2>2. Puts(forth, c) => On(r, c.track) = On(d, c.track) \cup ToSet(c.things)
    BY <1>2, <1>6 DEF Effect
  <2>3. Takes(forth, c) => On(r, c.track) = On(d, c.track) \ ToSet(c.things)
    BY <1>2, <1>6, <2>1 DEF Effect
  <2>4. QED
    BY <2>2, <2>3
<1>11. \A k \in Tracks : On(q, k) = On(d, k)
  <2> SUFFICES ASSUME NEW k \in Tracks PROVE On(q, k) = On(d, k)
    OBVIOUS
  <2>1. Takes(forth, c) => ~Puts(forth, c)
    BY DEF Takes, Puts
  <2>2. CASE k = c.track /\ Puts(forth, c)
    <3>1. On(r, k) = On(d, k) \cup ToSet(c.things) /\ ToSet(c.things) \cap On(d, k) = {}
      BY <1>2, <2>2 DEF Effect, Fits
    <3>2. On(q, k) = On(r, k) \ ToSet(c.things)
      BY <1>5, <1>8, <2>1, <2>2 DEF Effect
    <3>3. QED
      BY <3>1, <3>2
  <2>3. CASE k = c.track /\ Takes(forth, c)
    <3>1. On(r, k) = On(d, k) \ ToSet(c.things) /\ ToSet(c.things) \subseteq On(d, k)
      BY <1>2, <2>1, <2>3 DEF Effect, Fits
    <3>2. On(q, k) = On(r, k) \cup ToSet(c.things)
      BY <1>5, <1>8, <2>3 DEF Effect
    <3>3. QED
      BY <3>1, <3>2
  <2>4. CASE ~(k = c.track /\ (Puts(forth, c) \/ Takes(forth, c)))
    <3>1. On(r, k) = On(d, k)
      BY <1>2, <2>4 DEF Effect
    <3>2. On(q, k) = On(r, k)
      BY <1>5, <1>8, <2>4 DEF Effect
    <3>3. QED
      BY <3>1, <3>2
  <2>5. QED
    BY <2>2, <2>3, <2>4
<1>12. /\ q.tracks = d.tracks
       /\ Drops(forth, c) => /\ \A i \in 1..Len(r.tracks) : r.tracks[i] # c.track
                             /\ c.k = "removeTrack" => c.at <= Len(r.tracks) + 1
       /\ Adds(forth, c) => /\ Seat(c, r.tracks) \in 1..Len(r.tracks)
                            /\ \A i \in 1..Len(r.tracks) : r.tracks[i] = c.track <=> i = Seat(c, r.tracks)
  <2>1. Drops(forth, c) => ~Adds(forth, c)
    BY DEF Adds, Drops
  <2>2. /\ r.tracks = IF Adds(forth, c) THEN InsertAt(d.tracks, Row(c, d.tracks), c.track)
                      ELSE IF Drops(forth, c) THEN Among(d.tracks, Tracks \ {c.track}) ELSE d.tracks
        /\ q.tracks = IF Drops(forth, c) THEN InsertAt(r.tracks, Row(c, r.tracks), c.track)
                      ELSE IF Adds(forth, c) THEN Among(r.tracks, Tracks \ {c.track}) ELSE r.tracks
    BY <1>2, <1>5, <1>8 DEF Effect
  <2>3. CASE ~Adds(forth, c) /\ ~Drops(forth, c)
    BY <2>2, <2>3
  <2>4. CASE Adds(forth, c) \/ Drops(forth, c)
    <3> DEFINE s == d.tracks
               u == r.tracks
    <3>1. s \in Seq(Tracks)
      BY ScoreIs
    <3>2. /\ Adds(forth, c) => /\ \A i \in 1..Len(s) : s[i] # c.track
                               /\ c.k = "removeTrack" => c.at <= Len(s) + 1
                               /\ u = InsertAt(s, Row(c, s), c.track)
          /\ Drops(forth, c) => /\ Seat(c, s) \in 1..Len(s)
                                /\ \A i \in 1..Len(s) : s[i] = c.track <=> i = Seat(c, s)
                                /\ u = Among(s, Tracks \ {c.track})
      BY <2>1, <2>2 DEF Fits
    <3> HIDE DEF s, u
    <3>3. CASE Adds(forth, c)
      <4> DEFINE w == InsertAt(s, Row(c, s), c.track)
      <4>1. u = w
        BY <3>2, <3>3
      <4>2. (\A i \in 1..Len(s) : s[i] # c.track) /\ (c.k = "removeTrack" => c.at <= Len(s) + 1)
        BY <3>2, <3>3
      <4>3. /\ Seat(c, w) \in 1..Len(w) /\ (\A i \in 1..Len(w) : w[i] = c.track <=> i = Seat(c, w))
            /\ Among(w, Tracks \ {c.track}) = s
        BY <3>1, <3>3, <4>2, AddedBack, ZenonT(60)
      <4> HIDE DEF w
      <4>4. QED
        BY <2>1, <2>2, <3>3, <4>1, <4>3 DEF s, u
    <3>4. CASE Drops(forth, c)
      <4>1. /\ (\A i \in 1..Len(u) : u[i] # c.track) /\ (c.k = "removeTrack" => c.at <= Len(u) + 1)
            /\ InsertAt(u, Row(c, u), c.track) = s
        BY <3>1, <3>2, <3>4, DroppedBack, Zenon
      <4>2. QED
        BY <2>1, <2>2, <3>4, <4>1 DEF s, u
    <3>5. QED
      BY <2>4, <3>3, <3>4
  <2>5. QED
    BY <2>3, <2>4
<1>13. Fits(~forth, h, c, r)
  BY <1>4, <1>8, <1>9, <1>10, <1>12 DEF Fits
<1>14. ASSUME h, NEW x \in Made(d), NEW f \in Fields, Spoken(f, x) PROVE q[f][x] = d[f][x]
  <2>1. x \in Things
    BY <1>14 DEF Made
  <2>2. CASE c.k \in Sets /\ x \in DOMAIN c.was /\ From(forth, c)[x][f] # Keep
    <3>1. q[f][x] = From(forth, c)[x][f]
      BY <1>5, <1>7, <1>8, <2>1, <2>2 DEF Effect
    <3>2. d[f][x] = From(forth, c)[x][f]
      BY <1>14, <2>2 DEF Fits
    <3>3. QED
      BY <3>1, <3>2
  <2>3. CASE ~(c.k \in Sets /\ x \in DOMAIN c.was /\ From(forth, c)[x][f] # Keep)
    <3>1. r[f][x] = d[f][x]
      BY <1>2, <1>7, <2>1, <2>3 DEF Effect
    <3>2. q[f][x] = r[f][x]
      BY <1>5, <1>7, <1>8, <2>1, <2>3 DEF Effect
    <3>3. QED
      BY <3>1, <3>2
  <2>4. QED
    BY <2>2, <2>3
<1>15. Made(q) = Made(d)
  BY <1>3, <1>5 DEF Effect
<1>16. Matches(h, q, d)
  BY <1>11, <1>12, <1>14, <1>15 DEF Matches
<1>17. QED
  BY <1>3, <1>13, <1>16 DEF q

-----------------------------------------------------------------------------
(* Batches *)

Turn(forth, cmds, i) == IF forth THEN cmds[i] ELSE cmds[Len(cmds) + 1 - i]
Outcome(forth, d, cmds) == IF forth THEN Apply(d, cmds) ELSE Revert(d, cmds)

\* The documents on the way, where each command finds what it says.
Course(forth, h, cmds, d, way) ==
    /\ way[0] = d
    /\ \A i \in 1..Len(cmds) :
          /\ Fits(forth, h, Turn(forth, cmds, i), way[i - 1])
          /\ way[i] = OneTurn(forth, way[i - 1], Turn(forth, cmds, i))

Goes(forth, h, cmds, d) == \E way \in [0..Len(cmds) -> Scores] : Course(forth, h, cmds, d, way)

LEMMA TurnsOf ==
    ASSUME NEW cmds \in Seq(AnyCommands), NEW forth \in BOOLEAN, NEW i \in 1..Len(cmds)
    PROVE  /\ Turn(forth, cmds, i) \in AnyCommands
           /\ Len(cmds) + 1 - i \in 1..Len(cmds)
           /\ Turn(~forth, cmds, i) = Turn(forth, cmds, Len(cmds) + 1 - i)
<1>1. Len(cmds) + 1 - i \in 1..Len(cmds) /\ Len(cmds) + 1 - (Len(cmds) + 1 - i) = i
  OBVIOUS
<1>2. cmds[i] \in AnyCommands /\ cmds[Len(cmds) + 1 - i] \in AnyCommands
  BY <1>1
<1>3. CASE forth
  BY <1>1, <1>2, <1>3 DEF Turn
<1>4. CASE ~forth
  BY <1>1, <1>2, <1>4 DEF Turn
<1>5. QED
  BY <1>3, <1>4

\* What is left at the end of the course is what the batch leaves.
LEMMA OutcomeIs ==
    ASSUME NEW forth \in BOOLEAN, NEW h \in BOOLEAN, NEW cmds \in Seq(AnyCommands), NEW d \in Scores,
           NEW way \in [0..Len(cmds) -> Scores], Course(forth, h, cmds, d, way)
    PROVE  Outcome(forth, d, cmds) = way[Len(cmds)]
<1> DEFINE n == Len(cmds)
<1>1. /\ n \in Nat /\ way \in [0..n -> Scores] /\ way[0] = d
      /\ \A i \in 1..n : way[i] = OneTurn(forth, way[i - 1], Turn(forth, cmds, i))
  BY DEF Course
<1>2. PICK out :
         /\ out[0] = d /\ \A i \in 1..n : out[i] = OneTurn(forth, out[i - 1], Turn(forth, cmds, i))
         /\ Outcome(forth, d, cmds) = out[n]
  <2>1. CASE forth
    <3> DEFINE Runs(out) == out = [i \in 0..n |-> IF i = 0 THEN d ELSE ApplyOne(out[i - 1], cmds[i])]
               out0 == CHOOSE out : Runs(out)
    <3>1. Outcome(forth, d, cmds) = out0[n]
      BY <2>1 DEF Outcome, Apply
    <3>2. \A i \in 1..n : way[i] = ApplyOne(way[i - 1], cmds[i])
      BY <1>1, <2>1 DEF OneTurn, Turn
    <3> HIDE DEF n
    <3>3. Runs(way)
      BY <1>1, <3>2
    <3>4. Runs(out0)
      <4> HIDE DEF Runs
      <4>1. QED
        BY <3>3
    <3> HIDE DEF out0
    <3>5. out0[0] = d /\ \A i \in 1..n : out0[i] = ApplyOne(out0[i - 1], cmds[i])
      BY <1>1, <3>4
    <3>6. \A i \in 1..n : out0[i] = OneTurn(forth, out0[i - 1], Turn(forth, cmds, i))
      BY <2>1, <3>5 DEF OneTurn, Turn
    <3>7. QED
      BY <3>1, <3>5, <3>6
  <2>2. CASE ~forth
    <3> DEFINE Runs(out) == out = [i \in 0..n |-> IF i = 0 THEN d ELSE RevertOne(out[i - 1], cmds[n + 1 - i])]
               out0 == CHOOSE out : Runs(out)
    <3>1. Outcome(forth, d, cmds) = out0[n]
      BY <2>2 DEF Outcome, Revert
    <3>2. \A i \in 1..n : way[i] = RevertOne(way[i - 1], cmds[n + 1 - i])
      BY <1>1, <2>2 DEF OneTurn, Turn
    <3>0. \A i : Turn(forth, cmds, i) = cmds[n + 1 - i]
      BY <2>2 DEF Turn
    <3> HIDE DEF n
    <3>3. Runs(way)
      BY <1>1, <3>2
    <3>4. Runs(out0)
      <4> HIDE DEF Runs
      <4>1. QED
        BY <3>3
    <3> HIDE DEF out0
    <3>5. out0[0] = d /\ \A i \in 1..n : out0[i] = RevertOne(out0[i - 1], cmds[n + 1 - i])
      BY <1>1, <3>4
    <3>6. \A i \in 1..n : out0[i] = OneTurn(forth, out0[i - 1], Turn(forth, cmds, i))
      BY <2>2, <3>0, <3>5 DEF OneTurn
    <3>7. QED
      BY <3>1, <3>5, <3>6
  <2>3. QED
    BY <2>1, <2>2
<1> HIDE DEF n
<1> DEFINE S == {i \in 0..n : out[i] = way[i]}
<1>3. 0 \in S
  BY <1>1, <1>2
<1>4. \A i \in 1..n : i - 1 \in S => i \in S
  BY <1>1, <1>2
<1>5. 0..n \subseteq S
  <2> HIDE DEF S
  <2>1. QED
    BY <1>1, <1>3, <1>4, StepByStep
<1>6. QED
  BY <1>1, <1>2, <1>5 DEF n

\* A batch can be tried on any document.
LEMMA Tried ==
    ASSUME NEW forth \in BOOLEAN, NEW cmds \in Seq(AnyCommands), NEW d \in Scores
    PROVE  \E way \in [0..Len(cmds) -> Scores] :
              /\ way[0] = d
              /\ \A i \in 1..Len(cmds) :
                    LET r == OneTurn(forth, way[i - 1], Turn(forth, cmds, i))
                    IN r \in Scores => way[i] = r
<1> DEFINE n == Len(cmds)
           one(e, i) == OneTurn(forth, e, Turn(forth, cmds, i))
           step == [p \in (1..n) \X Scores |-> IF one(p[2], p[1]) \in Scores THEN one(p[2], p[1]) ELSE p[2]]
<1>1. n \in Nat
  OBVIOUS
<1> HIDE DEF n, one
<1>2. step \in [(1..n) \X Scores -> Scores]
  OBVIOUS
<1>3. \A i \in 1..n : \A e \in Scores : one(e, i) \in Scores => step[<<i, e>>] = one(e, i)
  OBVIOUS
<1> HIDE DEF step
<1>4. PICK way \in [0..n -> Scores] : way[0] = d /\ \A i \in 1..n : way[i] = step[<<i, way[i - 1]>>]
  <2>1. \E out \in [0..n -> Scores] : Turns(n, d, step, out)
    BY <1>1, <1>2, LoopExists
  <2>2. QED
    BY <2>1 DEF Turns
<1>5. ASSUME NEW i \in 1..n, one(way[i - 1], i) \in Scores PROVE way[i] = one(way[i - 1], i)
  <2>1. way[i - 1] \in Scores
    BY <1>1, <1>4
  <2>2. QED
    BY <1>3, <1>4, <1>5, <2>1
<1>6. QED
  BY <1>4, <1>5 DEF n, one

\* What a batch does depends on what the document looks like.
LEMMA BatchMatch ==
    ASSUME NEW forth \in BOOLEAN, NEW h \in BOOLEAN, NEW cmds \in Seq(AnyCommands),
           NEW d \in Scores, NEW e \in Scores, Matches(h, d, e), Goes(forth, h, cmds, e)
    PROVE  /\ Goes(forth, h, cmds, d)
           /\ Outcome(forth, d, cmds) \in Scores /\ Outcome(forth, e, cmds) \in Scores
           /\ Matches(h, Outcome(forth, d, cmds), Outcome(forth, e, cmds))
<1> DEFINE n == Len(cmds)
           C(i) == Turn(forth, cmds, i)
<1>1. n \in Nat /\ \A i \in 1..n : C(i) \in AnyCommands
  BY TurnsOf
<1>2. PICK was \in [0..n -> Scores] : Course(forth, h, cmds, e, was)
  BY DEF Goes
<1>3. /\ was[0] = e
      /\ \A i \in 1..n : Fits(forth, h, C(i), was[i - 1]) /\ was[i] = OneTurn(forth, was[i - 1], C(i))
  BY <1>2 DEF Course
<1>4. PICK way \in [0..n -> Scores] :
         /\ way[0] = d
         /\ \A i \in 1..n : OneTurn(forth, way[i - 1], C(i)) \in Scores => way[i] = OneTurn(forth, way[i - 1], C(i))
  BY Tried
<1> HIDE DEF n, C
<1>5. ASSUME NEW i \in 1..n, Matches(h, way[i - 1], was[i - 1])
      PROVE  /\ Fits(forth, h, C(i), way[i - 1]) /\ way[i] = OneTurn(forth, way[i - 1], C(i))
             /\ Matches(h, way[i], was[i])
  <2>1. C(i) \in AnyCommands /\ way[i - 1] \in Scores /\ was[i - 1] \in Scores /\ Fits(forth, h, C(i), was[i - 1])
    BY <1>1, <1>3
  <2>2. /\ Fits(forth, h, C(i), way[i - 1])
        /\ Matches(h, OneTurn(forth, way[i - 1], C(i)), OneTurn(forth, was[i - 1], C(i)))
    BY <1>5, <2>1, MatchTurn
  <2>3. OneTurn(forth, way[i - 1], C(i)) \in Scores
    <3>1. Effect(forth, way[i - 1], C(i), OneTurn(forth, way[i - 1], C(i)))
      BY <2>1, <2>2, TurnIs DEF Fits
    <3>2. QED
      BY <3>1 DEF Effect
  <2>4. QED
    BY <1>3, <1>4, <2>2, <2>3
<1> DEFINE S == {i \in 0..n : Matches(h, way[i], was[i])}
<1>6. 0..n \subseteq S
  <2>1. 0 \in S
    BY <1>1, <1>3, <1>4
  <2>2. \A i \in 1..n : i - 1 \in S => i \in S
    BY <1>1, <1>5
  <2> HIDE DEF S
  <2>3. QED
    BY <1>1, <2>1, <2>2, StepByStep
<1>7. \A i \in 1..n : i - 1 \in 0..n
  BY <1>1
<1>8. \A i \in 1..n : Fits(forth, h, C(i), way[i - 1]) /\ way[i] = OneTurn(forth, way[i - 1], C(i))
  BY <1>5, <1>6, <1>7
<1>9. Course(forth, h, cmds, d, way)
  BY <1>4, <1>8 DEF Course, C, n
<1>10. n \in 0..n
  BY <1>1
<1>11. Matches(h, way[n], was[n]) /\ way[n] \in Scores /\ was[n] \in Scores
  BY <1>6, <1>10
<1>12. Outcome(forth, d, cmds) = way[n] /\ Outcome(forth, e, cmds) = was[n]
  BY <1>2, <1>9, OutcomeIs DEF n
<1>13. QED
  BY <1>9, <1>11, <1>12 DEF Goes, n

\* A batch whose commands found what they say can be taken back, and what is left is
\* what it found.
LEMMA BatchBack ==
    ASSUME NEW forth \in BOOLEAN, NEW h \in BOOLEAN, NEW cmds \in Seq(AnyCommands),
           NEW d \in Scores, Goes(forth, h, cmds, d)
    PROVE  LET r == Outcome(forth, d, cmds)
           IN /\ r \in Scores /\ Goes(~forth, h, cmds, r)
              /\ Outcome(~forth, r, cmds) \in Scores /\ Matches(h, Outcome(~forth, r, cmds), d)
<1> DEFINE n == Len(cmds)
           C(i) == Turn(forth, cmds, i)
           B(i) == Turn(~forth, cmds, i)
<1>0. (~forth) \in BOOLEAN
  BY Zenon
<1>1. /\ n \in Nat
      /\ \A i \in 1..n : /\ C(i) \in AnyCommands /\ B(i) \in AnyCommands
                         /\ n + 1 - i \in 1..n /\ B(i) = C(n + 1 - i)
  <2>1. ASSUME NEW i \in 1..n
        PROVE  C(i) \in AnyCommands /\ n + 1 - i \in 1..n /\ B(i) = C(n + 1 - i)
    BY <2>1, TurnsOf
  <2>2. n \in Nat
    OBVIOUS
  <2> HIDE DEF n, C, B
  <2>3. QED
    BY <2>1, <2>2
<1>2. PICK was \in [0..n -> Scores] : Course(forth, h, cmds, d, was)
  BY DEF Goes
<1>3. /\ was[0] = d
      /\ \A i \in 1..n : Fits(forth, h, C(i), was[i - 1]) /\ was[i] = OneTurn(forth, was[i - 1], C(i))
  BY <1>2 DEF Course
<1>4. was[n] \in Scores /\ Outcome(forth, d, cmds) = was[n]
  BY <1>1, <1>2, OutcomeIs
<1>5. PICK way \in [0..n -> Scores] :
         /\ way[0] = was[n]
         /\ \A i \in 1..n : OneTurn(~forth, way[i - 1], B(i)) \in Scores => way[i] = OneTurn(~forth, way[i - 1], B(i))
  BY <1>0, <1>4, Tried
<1> HIDE DEF n, C, B
<1>6. ASSUME NEW i \in 1..n, Matches(h, way[i - 1], was[n - (i - 1)])
      PROVE  /\ Fits(~forth, h, B(i), way[i - 1]) /\ way[i] = OneTurn(~forth, way[i - 1], B(i))
             /\ Matches(h, way[i], was[n - i])
  <2> DEFINE j == n + 1 - i
             c == B(i)
  <2>1. /\ j \in 1..n /\ j - 1 = n - i /\ n - (i - 1) = j /\ i - 1 \in 0..n /\ j - 1 \in 0..n /\ j \in 0..n
        /\ c = C(j) /\ c \in AnyCommands
    BY <1>1
  <2> HIDE DEF j, c
  <2>2. way[i - 1] \in Scores /\ was[j] \in Scores /\ was[j - 1] \in Scores
    BY <1>2, <1>5, <2>1
  <2>3. Fits(forth, h, c, was[j - 1]) /\ was[j] = OneTurn(forth, was[j - 1], c)
    BY <1>3, <2>1
  <2>4. Fits(~forth, h, c, was[j]) /\ Matches(h, OneTurn(~forth, was[j], c), was[j - 1])
    BY <2>1, <2>2, <2>3, BackTurn
  <2>5. Matches(h, way[i - 1], was[j])
    BY <1>6, <2>1
  <2>6. /\ Fits(~forth, h, c, way[i - 1])
        /\ Matches(h, OneTurn(~forth, way[i - 1], c), OneTurn(~forth, was[j], c))
    BY <1>0, <2>1, <2>2, <2>4, <2>5, MatchTurn
  <2>7. OneTurn(~forth, way[i - 1], c) \in Scores
    <3>1. Effect(~forth, way[i - 1], c, OneTurn(~forth, way[i - 1], c))
      BY <1>0, <2>1, <2>2, <2>6, TurnIs DEF Fits
    <3>2. QED
      BY <3>1 DEF Effect
  <2>8. way[i] = OneTurn(~forth, way[i - 1], c)
    BY <1>5, <2>7 DEF c
  <2>9. Matches(h, way[i], was[j - 1])
    BY <2>4, <2>6, <2>8, MatchesOn
  <2>10. QED
    BY <2>1, <2>6, <2>8, <2>9 DEF c
<1> DEFINE S == {i \in 0..n : Matches(h, way[i], was[n - i])}
<1>7. 0..n \subseteq S
  <2>1. 0 \in S
    <3>1. n - 0 = n /\ 0 \in 0..n
      BY <1>1
    <3>2. Matches(h, way[0], was[n])
      BY <1>5, MatchesSelf
    <3>3. QED
      BY <3>1, <3>2
  <2>2. \A i \in 1..n : i - 1 \in S => i \in S
    BY <1>1, <1>6
  <2> HIDE DEF S
  <2>3. QED
    BY <1>1, <2>1, <2>2, StepByStep
<1>8. \A i \in 1..n : Fits(~forth, h, B(i), way[i - 1]) /\ way[i] = OneTurn(~forth, way[i - 1], B(i))
  <2>1. \A i \in 1..n : i - 1 \in 0..n
    BY <1>1
  <2>2. QED
    BY <1>6, <1>7, <2>1
<1>9. Course(~forth, h, cmds, was[n], way)
  BY <1>5, <1>8 DEF Course, B, n
<1>10. Matches(h, way[n], was[0]) /\ way[n] \in Scores
  <2>1. n \in 0..n /\ n - n = 0
    BY <1>1
  <2>2. QED
    BY <1>5, <1>7, <2>1
<1>11. Outcome(~forth, was[n], cmds) = way[n]
  BY <1>0, <1>4, <1>9, OutcomeIs DEF n
<1>12. QED
  BY <1>3, <1>4, <1>9, <1>10, <1>11 DEF Goes, n

LEMMA GoesLess ==
    ASSUME NEW forth \in BOOLEAN, NEW h \in BOOLEAN, NEW cmds \in Seq(AnyCommands), NEW d, Goes(forth, h, cmds, d)
    PROVE  Goes(forth, FALSE, cmds, d)
<1>1. \A c, e : Fits(forth, h, c, e) => Fits(forth, FALSE, c, e)
  BY DEF Fits
<1>2. PICK way \in [0..Len(cmds) -> Scores] : Course(forth, h, cmds, d, way)
  BY DEF Goes
<1>3. Course(forth, FALSE, cmds, d, way)
  BY <1>1, <1>2 DEF Course
<1>4. QED
  BY <1>3 DEF Goes

\* A batch of one.
LEMMA GoesOne ==
    ASSUME NEW forth \in BOOLEAN, NEW h \in BOOLEAN, NEW c \in AnyCommands, NEW d \in Scores, Fits(forth, h, c, d)
    PROVE  /\ <<c>> \in Seq(AnyCommands) /\ Goes(forth, h, <<c>>, d)
           /\ Outcome(forth, d, <<c>>) = OneTurn(forth, d, c)
<1> DEFINE cmds == <<c>>
           r == OneTurn(forth, d, c)
           way == [i \in 0..1 |-> IF i = 0 THEN d ELSE r]
<1>1. cmds \in Seq(AnyCommands) /\ Len(cmds) = 1 /\ cmds[1] = c
  OBVIOUS
<1>2. Turn(forth, cmds, 1) = c
  BY <1>1 DEF Turn
<1>3. r \in Scores
  <2>1. Effect(forth, d, c, r)
    BY TurnIs DEF Fits
  <2>2. QED
    BY <2>1 DEF Effect
<1>r. r = OneTurn(forth, d, c)
  OBVIOUS
<1> HIDE DEF cmds, r
<1>4. way \in [0..1 -> Scores] /\ way[0] = d /\ way[1] = r
  BY <1>3
<1> HIDE DEF way
<1>5. \A i \in 1..1 : Fits(forth, h, Turn(forth, cmds, i), way[i - 1]) /\ way[i] = OneTurn(forth, way[i - 1], Turn(forth, cmds, i))
  <2>1. Fits(forth, h, Turn(forth, cmds, 1), way[0]) /\ way[1] = OneTurn(forth, way[0], Turn(forth, cmds, 1))
    BY <1>2, <1>4, <1>r
  <2>2. \A i \in 1..1 : i = 1 /\ i - 1 = 0
    OBVIOUS
  <2>3. QED
    BY <2>1, <2>2
<1>6. Course(forth, h, cmds, d, way)
  BY <1>1, <1>4, <1>5 DEF Course
<1>7. way \in [0..Len(cmds) -> Scores] /\ way[Len(cmds)] = r
  BY <1>1, <1>4
<1>8. Outcome(forth, d, cmds) = r
  BY <1>1, <1>6, <1>7, OutcomeIs
<1>9. Goes(forth, h, cmds, d)
  BY <1>6, <1>7 DEF Goes
<1>10. QED
  BY <1>1, <1>8, <1>9 DEF cmds, r

LEMMA GoesNone ==
    ASSUME NEW h \in BOOLEAN, NEW d \in Scores
    PROVE  <<>> \in Seq(AnyCommands) /\ Goes(TRUE, h, <<>>, d) /\ Apply(d, <<>>) = d
<1> DEFINE cmds == <<>>
           way == [i \in 0..0 |-> d]
<1>1. cmds \in Seq(AnyCommands) /\ Len(cmds) = 0
  OBVIOUS
<1> HIDE DEF cmds
<1>2. way \in [0..Len(cmds) -> Scores] /\ way[0] = d /\ way[Len(cmds)] = d
  BY <1>1
<1> HIDE DEF way
<1>3. Course(TRUE, h, cmds, d, way)
  BY <1>1, <1>2 DEF Course
<1>4. Outcome(TRUE, d, cmds) = d
  BY <1>1, <1>2, <1>3, OutcomeIs
<1>5. Goes(TRUE, h, cmds, d)
  BY <1>2, <1>3 DEF Goes
<1>6. Apply(d, cmds) = d
  BY <1>4 DEF Outcome
<1>7. QED
  BY <1>1, <1>5, <1>6 DEF cmds

\* One command more.
LEMMA GoesMore ==
    ASSUME NEW h \in BOOLEAN, NEW cmds \in Seq(AnyCommands), NEW c \in AnyCommands, NEW d \in Scores,
           Goes(TRUE, h, cmds, d), Fits(TRUE, h, c, Apply(d, cmds))
    PROVE  /\ Append(cmds, c) \in Seq(AnyCommands) /\ Goes(TRUE, h, Append(cmds, c), d)
           /\ Apply(d, cmds) \in Scores
           /\ Apply(d, Append(cmds, c)) = ApplyOne(Apply(d, cmds), c)
<1> DEFINE n == Len(cmds)
           more == Append(cmds, c)
<1>1. PICK was \in [0..n -> Scores] : Course(TRUE, h, cmds, d, was)
  BY DEF Goes
<1>2. was[0] = d /\ \A i \in 1..n : Fits(TRUE, h, cmds[i], was[i - 1]) /\ was[i] = OneTurn(TRUE, was[i - 1], cmds[i])
  BY <1>1 DEF Course, Turn
<1>3. Apply(d, cmds) = was[n]
  BY <1>1, OutcomeIs DEF Outcome
<1>4. /\ n \in Nat /\ more \in Seq(AnyCommands) /\ Len(more) = n + 1 /\ more[n + 1] = c
      /\ \A i \in 1..n : more[i] = cmds[i]
  BY AppendProperties
<1>5. Fits(TRUE, h, c, was[n])
  BY <1>3
<1> DEFINE r == OneTurn(TRUE, was[n], c)
           way == [i \in 0..(n + 1) |-> IF i = n + 1 THEN r ELSE was[i]]
<1>6. was[n] \in Scores
  BY <1>1, <1>4
<1>7. r \in Scores
  <2>1. Effect(TRUE, was[n], c, r)
    BY <1>5, <1>6, TurnIs DEF Fits
  <2>2. QED
    BY <2>1 DEF Effect
<1>r. r = OneTurn(TRUE, was[n], c) /\ r = ApplyOne(was[n], c)
  BY DEF OneTurn
<1> HIDE DEF n, more, r
<1>8. way \in [0..(n + 1) -> Scores] /\ way[n + 1] = r /\ \A i \in 0..n : way[i] = was[i]
  BY <1>1, <1>4, <1>7
<1> HIDE DEF way
<1>9. \A i \in 1..(n + 1) : Fits(TRUE, h, more[i], way[i - 1]) /\ way[i] = OneTurn(TRUE, way[i - 1], more[i])
  <2> SUFFICES ASSUME NEW i \in 1..(n + 1)
               PROVE  Fits(TRUE, h, more[i], way[i - 1]) /\ way[i] = OneTurn(TRUE, way[i - 1], more[i])
    OBVIOUS
  <2>1. i - 1 \in 0..n /\ way[i - 1] = was[i - 1]
    BY <1>4, <1>8
  <2>2. CASE i = n + 1
    <3>1. i - 1 = n
      BY <1>4, <2>2
    <3>2. QED
      BY <1>4, <1>5, <1>8, <1>r, <2>1, <2>2, <3>1
  <2>3. CASE i # n + 1
    <3>1. i \in 1..n /\ i \in 0..n
      BY <1>4, <2>3
    <3>2. QED
      BY <1>2, <1>4, <1>8, <2>1, <3>1
  <2>4. QED
    BY <2>2, <2>3
<1>10. way[0] = d
  <2>1. 0 \in 0..n
    BY <1>4
  <2>2. QED
    BY <1>2, <1>8, <2>1
<1>11. Course(TRUE, h, more, d, way)
  BY <1>4, <1>9, <1>10 DEF Course, Turn
<1>12. way \in [0..Len(more) -> Scores] /\ way[Len(more)] = r
  BY <1>4, <1>8
<1>13. Outcome(TRUE, d, more) = r
  BY <1>4, <1>11, <1>12, OutcomeIs
<1>14. Goes(TRUE, h, more, d)
  BY <1>11, <1>12 DEF Goes
<1>15. Apply(d, more) = ApplyOne(Apply(d, cmds), c)
  BY <1>3, <1>13, <1>r DEF Outcome
<1>16. QED
  BY <1>3, <1>4, <1>6, <1>14, <1>15 DEF more

-----------------------------------------------------------------------------
(* The undo stack and the other way *)

\* A document that can be saved, but for curves of one point that was pasted: no track
\* is there twice, and nothing is on two tracks.
Ok(d, P) ==
    /\ d \in Scores
    /\ \A i, j \in 1..Len(d.tracks) : d.tracks[i] = d.tracks[j] => i = j
    /\ \A i \in Tracks : \A j \in Tracks \ {i} : On(d, i) \cap On(d, j) = {}
    /\ \A k \in CurveTracks : \A x \in Things : On(d, k) = {x} => x \in P

\* An entry leads from a document to the one it was run on, or taken back from.
Link(forth, P, e, d) ==
    /\ Ok(e.of, P) /\ Goes(forth, e.honest, e.cmds, d)
    /\ Matches(e.honest, Outcome(forth, d, e.cmds), e.of)

Items == [cmds : Seq(AnyCommands), of : Scores, honest : BOOLEAN]

\* What an entry is to be taken back from, when the later ones have been.
After(s, i, d) == IF i = Len(s) THEN d ELSE s[i + 1].of

\* The stack leads from the document to each of those its entries were run on.
Held(forth, P, s, d) == s \in Seq(Items) /\ \A i \in 1..Len(s) : Link(forth, P, s[i], After(s, i, d))

LEMMA ItemIs ==
    ASSUME NEW e \in Items
    PROVE  e.cmds \in Seq(AnyCommands) /\ e.of \in Scores /\ e.honest \in BOOLEAN
  BY DEF Items

LEMMA OkAlike ==
    ASSUME NEW P, NEW Q, P \subseteq Q, NEW h, NEW d \in Scores, NEW e, Ok(e, P), Matches(h, d, e)
    PROVE  Ok(d, Q)
<1>1. d.tracks = e.tracks /\ \A k \in Tracks : On(d, k) = On(e, k)
  BY DEF Matches
<1>2. CurveTracks \subseteq Tracks
  BY DEF Tracks
<1>3. \A i, j \in 1..Len(d.tracks) : d.tracks[i] = d.tracks[j] => i = j
  BY <1>1 DEF Ok
<1>4. \A i \in Tracks : \A j \in Tracks \ {i} : On(d, i) \cap On(d, j) = {}
  BY <1>1 DEF Ok
<1>5. \A k \in CurveTracks : \A x \in Things : On(d, k) = {x} => x \in Q
  BY <1>1, <1>2 DEF Ok
<1>6. QED
  BY <1>3, <1>4, <1>5 DEF Ok

LEMMA OkGrown ==
    ASSUME NEW P, NEW Q, P \subseteq Q, NEW d, Ok(d, P)
    PROVE  Ok(d, Q)
  BY DEF Ok

LEMMA LinkGrown ==
    ASSUME NEW forth, NEW P, NEW Q, P \subseteq Q, NEW e, NEW d, Link(forth, P, e, d)
    PROVE  Link(forth, Q, e, d)
  BY OkGrown DEF Link

\* From a document that looks the same.
LEMMA LinkAlike ==
    ASSUME NEW forth \in BOOLEAN, NEW P, NEW e \in Items, NEW a \in Scores, NEW b \in Scores,
           Link(forth, P, e, a), NEW h \in BOOLEAN, Matches(h, b, a), e.honest => h
    PROVE  Link(forth, P, e, b)
<1>1. e.cmds \in Seq(AnyCommands) /\ e.honest \in BOOLEAN
  BY ItemIs
<1>2. Matches(e.honest, b, a)
  BY DEF Matches
<1>3. Goes(forth, e.honest, e.cmds, a) /\ Matches(e.honest, Outcome(forth, a, e.cmds), e.of) /\ Ok(e.of, P)
  BY DEF Link
<1>4. /\ Goes(forth, e.honest, e.cmds, b)
      /\ Matches(e.honest, Outcome(forth, b, e.cmds), Outcome(forth, a, e.cmds))
  BY <1>1, <1>2, <1>3, BatchMatch
<1>5. Matches(e.honest, Outcome(forth, b, e.cmds), e.of)
  BY <1>1, <1>3, <1>4, MatchesOn
<1>6. QED
  BY <1>3, <1>4, <1>5 DEF Link

\* Of an entry that is disowned less is promised.
LEMMA LinkLess ==
    ASSUME NEW forth \in BOOLEAN, NEW P, NEW e \in Items, NEW a, Link(forth, P, e, a),
           NEW f, f = [e EXCEPT !.honest = FALSE]
    PROVE  f \in Items /\ f.of = e.of /\ f.honest = FALSE /\ Link(forth, P, f, a)
<1>1. f \in Items /\ f.of = e.of /\ f.cmds = e.cmds /\ f.honest = FALSE
  BY DEF Items
<1>2. e.cmds \in Seq(AnyCommands) /\ e.honest \in BOOLEAN
  BY ItemIs
<1>3. Goes(forth, e.honest, e.cmds, a) /\ Matches(e.honest, Outcome(forth, a, e.cmds), e.of) /\ Ok(e.of, P)
  BY DEF Link
<1>4. Goes(forth, FALSE, e.cmds, a)
  BY <1>2, <1>3, GoesLess
<1>5. Matches(FALSE, Outcome(forth, a, e.cmds), e.of)
  BY <1>3 DEF Matches
<1>6. QED
  BY <1>1, <1>3, <1>4, <1>5 DEF Link

\* An entry is taken back, or done again, and is then an entry of the other stack.
LEMMA LinkTurned ==
    ASSUME NEW forth \in BOOLEAN, NEW P, NEW e \in Items, NEW d, Ok(d, P), Link(forth, P, e, d),
           NEW f, f = [e EXCEPT !.of = d], NEW r, r = Outcome(forth, d, e.cmds)
    PROVE  /\ r \in Scores /\ Ok(r, P) /\ Matches(e.honest, r, e.of)
           /\ f \in Items /\ f.of = d /\ Link(~forth, P, f, r)
<1>1. e.cmds \in Seq(AnyCommands) /\ e.honest \in BOOLEAN /\ d \in Scores
  BY ItemIs DEF Ok
<1>2. f \in Items /\ f.of = d /\ f.cmds = e.cmds /\ f.honest = e.honest
  BY <1>1 DEF Items
<1>3. Goes(forth, e.honest, e.cmds, d) /\ Matches(e.honest, r, e.of) /\ Ok(e.of, P)
  BY DEF Link
<1>4. r \in Scores /\ Goes(~forth, e.honest, e.cmds, r) /\ Matches(e.honest, Outcome(~forth, r, e.cmds), d)
  BY <1>1, <1>3, BatchBack, Zenon
<1>5. Ok(r, P)
  BY <1>3, <1>4, OkAlike
<1>6. QED
  BY <1>2, <1>3, <1>4, <1>5 DEF Link

LEMMA HeldNone ==
    ASSUME NEW forth, NEW P, NEW d PROVE Held(forth, P, <<>>, d)
<1>1. <<>> \in Seq(Items) /\ \A i \in 1..Len(<<>>) : FALSE
  OBVIOUS
<1>2. QED
  BY <1>1 DEF Held

LEMMA HeldGrown ==
    ASSUME NEW forth, NEW P, NEW Q, P \subseteq Q, NEW s, NEW d, Held(forth, P, s, d)
    PROVE  Held(forth, Q, s, d)
  BY LinkGrown DEF Held

LEMMA HeldAlike ==
    ASSUME NEW forth \in BOOLEAN, NEW P, NEW s, NEW a \in Scores, NEW b \in Scores,
           Held(forth, P, s, a), Matches(TRUE, b, a)
    PROVE  Held(forth, P, s, b)
<1>1. s \in Seq(Items) /\ \A i \in 1..Len(s) : Link(forth, P, s[i], After(s, i, a))
  BY DEF Held
<1>2. ASSUME NEW i \in 1..Len(s) PROVE Link(forth, P, s[i], After(s, i, b))
  <2>1. CASE i = Len(s)
    <3>1. s[i] \in Items /\ Link(forth, P, s[i], a) /\ After(s, i, b) = b
      BY <1>1, <2>1 DEF After
    <3>2. Link(forth, P, s[i], b)
      BY <3>1, LinkAlike
    <3>3. QED
      BY <3>1, <3>2
  <2>2. CASE i # Len(s)
    BY <1>1, <2>2 DEF After
  <2>3. QED
    BY <2>1, <2>2
<1>3. QED
  BY <1>1, <1>2 DEF Held

LEMMA HeldPush ==
    ASSUME NEW forth \in BOOLEAN, NEW P, NEW s, NEW e \in Items, NEW d,
           Held(forth, P, s, e.of), Link(forth, P, e, d)
    PROVE  Held(forth, P, Append(s, e), d)
<1> DEFINE n == Len(s)
           more == Append(s, e)
<1>1. s \in Seq(Items) /\ \A i \in 1..n : Link(forth, P, s[i], After(s, i, e.of))
  BY DEF Held
<1>2. /\ n \in Nat /\ more \in Seq(Items) /\ Len(more) = n + 1 /\ more[n + 1] = e
      /\ \A i \in 1..n : more[i] = s[i]
  BY <1>1, AppendProperties
<1>3. \A i \in 1..n : After(s, i, e.of) = IF i = n THEN e.of ELSE s[i + 1].of
  BY DEF After
<1> HIDE DEF n, more
<1>4. ASSUME NEW i \in 1..(n + 1) PROVE Link(forth, P, more[i], After(more, i, d))
  <2>1. CASE i = n + 1
    BY <1>2, <2>1 DEF After
  <2>2. CASE i # n + 1
    <3>1. i \in 1..n /\ i # Len(more) /\ (i # n => i + 1 \in 1..n)
      BY <1>2, <2>2
    <3>2. After(more, i, d) = more[i + 1].of
      BY <3>1 DEF After
    <3>3. more[i + 1].of = After(s, i, e.of)
      BY <1>2, <1>3, <3>1
    <3>4. more[i] = s[i]
      BY <1>2, <3>1
    <3>5. QED
      BY <1>1, <3>1, <3>2, <3>3, <3>4
  <2>3. QED
    BY <2>1, <2>2
<1>5. Held(forth, P, more, d)
  BY <1>2, <1>4 DEF Held
<1>6. QED
  BY <1>5 DEF more

LEMMA HeldTop ==
    ASSUME NEW forth \in BOOLEAN, NEW P, NEW s, NEW d, Held(forth, P, s, d), s # <<>>
    PROVE  Len(s) \in Nat \ {0} /\ Last(s) = s[Len(s)] /\ Last(s) \in Items /\ Link(forth, P, Last(s), d)
<1>1. s \in Seq(Items) /\ \A i \in 1..Len(s) : Link(forth, P, s[i], After(s, i, d))
  BY DEF Held
<1>2. Len(s) \in Nat \ {0} /\ Len(s) \in 1..Len(s) /\ s[Len(s)] \in Items
  BY <1>1
<1>3. Last(s) = s[Len(s)]
  BY DEF Last
<1>4. After(s, Len(s), d) = d
  BY DEF After
<1>5. QED
  BY <1>1, <1>2, <1>3, <1>4

LEMMA FrontIs ==
    ASSUME NEW T, NEW s \in Seq(T), s # <<>>
    PROVE  /\ Front(s) \in Seq(T) /\ Len(Front(s)) = Len(s) - 1
           /\ \A i \in 1..(Len(s) - 1) : Front(s)[i] = s[i]
<1> DEFINE n == Len(s)
<1>1. n \in Nat \ {0} /\ \A i \in 1..n : s[i] \in T
  OBVIOUS
<1>2. Front(s) = SubSeq(s, 1, n - 1)
  BY DEF Front
<1>3. SubSeq(s, 1, n - 1) = [i \in 1..(n - 1) |-> s[i]]
  BY <1>1
<1> HIDE DEF n
<1>4. Front(s) = [i \in 1..(n - 1) |-> s[i]] /\ n - 1 \in Nat
  BY <1>1, <1>2, <1>3
<1>5. \A i \in 1..(n - 1) : s[i] \in T
  BY <1>1
<1>6. QED
  BY <1>4, <1>5 DEF n

LEMMA HeldPop ==
    ASSUME NEW forth \in BOOLEAN, NEW P, NEW s, NEW d, Held(forth, P, s, d), s # <<>>,
           NEW b \in Scores, Matches(Last(s).honest, b, Last(s).of)
    PROVE  Held(forth, P, IF Last(s).honest THEN Front(s) ELSE Disowned(Front(s)), b)
<1> DEFINE n == Len(s)
           e == Last(s)
           rest == Front(s)
<1>1. s \in Seq(Items) /\ \A i \in 1..n : Link(forth, P, s[i], After(s, i, d))
  BY DEF Held
<1>2. n \in Nat \ {0} /\ e = s[n] /\ e \in Items
  BY HeldTop
<1>3. \A i \in 1..n : i # n => After(s, i, d) = s[i + 1].of
  BY DEF After
<1>4. rest \in Seq(Items) /\ Len(rest) = n - 1 /\ \A i \in 1..(n - 1) : rest[i] = s[i]
  BY <1>1, FrontIs
<1>5. e.honest \in BOOLEAN /\ e.of \in Scores
  BY <1>2, ItemIs
<1>e. Matches(e.honest, b, e.of)
  OBVIOUS
<1> HIDE DEF n, e, rest
<1>6. ASSUME NEW i \in 1..(n - 1) PROVE Link(forth, P, rest[i], After(rest, i, e.of))
  <2>1. i \in 1..n /\ i # n /\ i + 1 \in 1..n
    BY <1>2
  <2>2. Link(forth, P, s[i], s[i + 1].of) /\ rest[i] = s[i]
    BY <1>1, <1>3, <1>4, <2>1
  <2>3. CASE i = n - 1
    <3>1. i + 1 = n /\ After(rest, i, e.of) = e.of
      BY <1>2, <1>4, <2>3 DEF After
    <3>2. QED
      BY <1>2, <2>2, <3>1
  <2>4. CASE i # n - 1
    <3>1. i + 1 \in 1..(n - 1) /\ After(rest, i, e.of) = rest[i + 1].of
      BY <1>2, <1>4, <2>4 DEF After
    <3>2. QED
      BY <1>4, <2>2, <3>1
  <2>5. QED
    BY <2>3, <2>4
<1>7. Held(forth, P, rest, e.of)
  BY <1>4, <1>6 DEF Held
<1>8. CASE e.honest
  <2>1. Matches(TRUE, b, e.of)
    BY <1>8, <1>5, <1>e
  <2>2. Held(forth, P, rest, b)
    BY <1>5, <1>7, <2>1, HeldAlike
  <2>3. QED
    BY <1>8, <2>2 DEF e, rest
<1>9. CASE ~e.honest
  <2> DEFINE less == Disowned(rest)
             m == Len(rest)
  <2>1. m \in Nat /\ DOMAIN rest = 1..m /\ \A i \in 1..m : rest[i] \in Items
    BY <1>4
  <2>2. \A i \in 1..m : Link(forth, P, rest[i], After(rest, i, e.of))
    BY <1>7 DEF Held
  <2>3. less = [i \in 1..m |-> [rest[i] EXCEPT !.honest = FALSE]]
    BY <2>1 DEF Disowned
  <2> HIDE DEF m
  <2>4. ASSUME NEW i \in 1..m
        PROVE  /\ less[i] \in Items /\ less[i].of = rest[i].of /\ less[i].honest = FALSE
               /\ Link(forth, P, less[i], After(rest, i, e.of))
    <3>1. less[i] = [rest[i] EXCEPT !.honest = FALSE]
      BY <2>3
    <3> HIDE DEF less
    <3>2. rest[i] \in Items /\ Link(forth, P, rest[i], After(rest, i, e.of))
      BY <2>1, <2>2
    <3>3. QED
      BY <3>1, <3>2, LinkLess
  <2>5. less \in Seq(Items) /\ Len(less) = m
    <3>1. less \in [1..m -> Items]
      BY <2>3, <2>4
    <3> HIDE DEF less
    <3>2. QED
      BY <2>1, <3>1
  <2> HIDE DEF less
  <2>6. ASSUME NEW i \in 1..m PROVE Link(forth, P, less[i], After(less, i, b))
    <3>1. CASE i = m
      <4>1. After(rest, i, e.of) = e.of /\ After(less, i, b) = b
        BY <2>5, <3>1 DEF After, m
      <4>2. less[i] \in Items /\ Link(forth, P, less[i], e.of) /\ less[i].honest = FALSE
        BY <2>4, <4>1
      <4>3. Matches(FALSE, b, e.of)
        BY <1>9, <1>5, <1>e
      <4>4. Link(forth, P, less[i], b)
        BY <1>5, <4>2, <4>3, LinkAlike
      <4>5. QED
        BY <4>1, <4>4
    <3>2. CASE i # m
      <4>1. i + 1 \in 1..m /\ After(rest, i, e.of) = rest[i + 1].of /\ After(less, i, b) = less[i + 1].of
        BY <2>1, <2>5, <3>2 DEF After, m
      <4>2. After(less, i, b) = After(rest, i, e.of)
        BY <2>4, <4>1
      <4>3. QED
        BY <2>4, <4>2
    <3>3. QED
      BY <3>1, <3>2
  <2>7. Held(forth, P, less, b)
    BY <2>5, <2>6 DEF Held
  <2>8. QED
    BY <1>9, <2>7 DEF e, rest, less
<1>10. QED
  BY <1>5, <1>8, <1>9

\* A newer command of the same gesture runs into the one on top: what it set then, it
\* sets now, and it starts from where the older did.
Alike(c, b) ==
    /\ c.k \in Sets /\ b.k \in Sets /\ DOMAIN c.was = DOMAIN b.was
    /\ \A x \in DOMAIN c.was : \A f \in Fields : c.was[x][f] = Keep <=> b.was[x][f] = Keep

LEMMA MergeIs ==
    ASSUME NEW c \in AnyCommands, NEW b \in AnyCommands, Alike(c, b)
    PROVE  /\ Merge(c, b) \in AnyCommands /\ Merge(c, b).k = b.k
           /\ Merge(c, b).was = c.was /\ Merge(c, b).will = b.will /\ Merge(c, b).things = b.things
<1> DEFINE old == [x \in DOMAIN b.was |-> IF x \in DOMAIN c.was THEN c.was[x] ELSE b.was[x]]
           m == Merge(c, b)
<1>1. /\ b.k \in Kinds /\ b.track \in Tracks /\ b.was \in Values /\ b.will \in Values
      /\ b.things \in Seq(Things) /\ b.at \in Nat /\ DOMAIN b.will = DOMAIN b.was
      /\ c.was \in Values /\ DOMAIN c.was = DOMAIN b.was /\ b.k \in Sets
      /\ \A x \in DOMAIN b.was : \A f \in Fields : b.was[x][f] = Keep <=> b.will[x][f] = Keep
  BY CommandIs DEF Alike
<1>2. \A x \in DOMAIN b.was : \A f \in Fields : c.was[x][f] = Keep <=> b.will[x][f] = Keep
  BY <1>1 DEF Alike
<1>3. old = c.was
  <2>1. c.was = [x \in DOMAIN c.was |-> c.was[x]]
    BY <1>1 DEF Values
  <2>2. QED
    BY <1>1, <2>1
<1>4. m = [b EXCEPT !.was = old]
  BY DEF Merge
<1>5. m = [b EXCEPT !.was = c.was]
  <2> HIDE DEF old
  <2>1. QED
    BY <1>3, <1>4
<1> HIDE DEF m
<1>6. b \in [k : Kinds, track : Tracks, was : Values, will : Values, things : Seq(Things), at : Nat]
  BY DEF AnyCommands
<1>7. /\ m \in [k : Kinds, track : Tracks, was : Values, will : Values, things : Seq(Things), at : Nat]
      /\ m.k = b.k /\ m.was = c.was /\ m.will = b.will /\ m.things = b.things
  <2> DEFINE q == [k |-> b.k, track |-> b.track, was |-> c.was, will |-> b.will,
                   things |-> b.things, at |-> b.at]
  <2>1. m = q
    BY <1>5, <1>6
  <2>2. q \in [k : Kinds, track : Tracks, was : Values, will : Values, things : Seq(Things), at : Nat]
    BY <1>1
  <2>3. q.k = b.k /\ q.was = c.was /\ q.will = b.will /\ q.things = b.things
    OBVIOUS
  <2> HIDE DEF q
  <2>4. QED
    BY <2>1, <2>2, <2>3
<1>8. m.k # "removeTrack"
  BY <1>1, <1>7 DEF Sets
<1>9. m \in AnyCommands
  BY <1>1, <1>2, <1>7, <1>8 DEF AnyCommands
<1>10. QED
  BY <1>7, <1>9 DEF m

\* What a change of attributes sets.
SetTo(v, d, f, x) == IF x \in DOMAIN v /\ v[x][f] # Keep THEN v[x][f] ELSE d[f][x]

Reset(v, d, r) ==
    /\ r \in Scores /\ Made(r) = Made(d) /\ r.tracks = d.tracks
    /\ \A k \in Tracks : On(r, k) = On(d, k)
    /\ \A x \in Things : \A f \in Fields : r[f][x] = SetTo(v, d, f, x)

LEMMA SetIs ==
    ASSUME NEW forth \in BOOLEAN, NEW d \in Scores, NEW c \in AnyCommands, Known(c, d), c.k \in Sets
    PROVE  Reset(To(forth, c), d, OneTurn(forth, d, c))
<1> DEFINE r == OneTurn(forth, d, c)
<1>1. Effect(forth, d, c, r)
  BY TurnIs
<1> HIDE DEF r
<1>2. ~Puts(forth, c) /\ ~Takes(forth, c) /\ ~Adds(forth, c) /\ ~Drops(forth, c)
  BY DEF Puts, Takes, Adds, Drops, Sets
<1>3. \A k \in Tracks : On(r, k) = On(d, k)
  BY <1>1, <1>2 DEF Effect
<1>4. r \in Scores /\ Made(r) = Made(d) /\ r.tracks = d.tracks
  BY <1>1, <1>2 DEF Effect
<1>5. \A x \in Things : \A f \in Fields : r[f][x] = SetTo(To(forth, c), d, f, x)
  BY <1>1 DEF Effect, SetTo
<1>6. QED
  BY <1>3, <1>4, <1>5 DEF r, Reset

\* The merged command taken back leaves what the older one taken back would have.
LEMMA MergedBack ==
    ASSUME NEW c \in AnyCommands, NEW b \in AnyCommands, Alike(c, b), NEW d \in Scores,
           Known(c, d), Known(b, d), b.things = <<>>, NEW h \in BOOLEAN
    PROVE  LET r == ApplyOne(d, b)
               m == Merge(c, b)
           IN /\ r \in Scores /\ Fits(FALSE, h, m, r)
              /\ Matches(h, OneTurn(FALSE, r, m), OneTurn(FALSE, d, c))
<1> DEFINE r == ApplyOne(d, b)
           m == Merge(c, b)
           q == OneTurn(FALSE, r, m)
           p == OneTurn(FALSE, d, c)
<1>1. /\ m \in AnyCommands /\ m.k = b.k /\ m.was = c.was /\ m.will = b.will /\ m.things = <<>>
      /\ c.k \in Sets /\ b.k \in Sets /\ DOMAIN c.was = DOMAIN b.was
      /\ \A x \in DOMAIN c.was : \A f \in Fields : c.was[x][f] = Keep <=> b.was[x][f] = Keep
  BY MergeIs DEF Alike
<1>2. m.k \in Sets
  BY <1>1
<1> HIDE DEF m
<1>3. To(TRUE, b) = b.will /\ To(FALSE, c) = c.was /\ To(FALSE, m) = c.was /\ From(FALSE, m) = b.will
  BY <1>1 DEF To, From
<1>4. r = OneTurn(TRUE, d, b)
  BY DEF OneTurn
<1> HIDE DEF r
<1>5. /\ r \in Scores /\ Made(r) = Made(d) /\ r.tracks = d.tracks
      /\ \A k \in Tracks : On(r, k) = On(d, k)
      /\ \A x \in Things : \A f \in Fields : r[f][x] = SetTo(b.will, d, f, x)
  <2>1. Reset(To(TRUE, b), d, OneTurn(TRUE, d, b))
    BY <1>1, SetIs
  <2>2. QED
    BY <1>3, <1>4, <2>1 DEF Reset
<1>6. Known(m, r)
  BY <1>1, <1>5 DEF Known
<1>7. /\ Made(p) = Made(d) /\ p.tracks = d.tracks
      /\ \A k \in Tracks : On(p, k) = On(d, k)
      /\ \A x \in Things : \A f \in Fields : p[f][x] = SetTo(c.was, d, f, x)
  <2>1. Reset(To(FALSE, c), d, p)
    BY <1>1, SetIs
  <2> HIDE DEF p
  <2>2. QED
    BY <1>3, <2>1 DEF Reset
<1>8. /\ Made(q) = Made(r) /\ q.tracks = r.tracks
      /\ \A k \in Tracks : On(q, k) = On(r, k)
      /\ \A x \in Things : \A f \in Fields : q[f][x] = SetTo(c.was, r, f, x)
  <2>1. Reset(To(FALSE, m), r, q)
    BY <1>1, <1>2, <1>5, <1>6, SetIs
  <2> HIDE DEF q
  <2>2. QED
    BY <1>3, <2>1 DEF Reset
<1> HIDE DEF p, q
<1>9. /\ DOMAIN b.will = DOMAIN c.was /\ DOMAIN c.was \subseteq Things /\ DOMAIN m.was = DOMAIN c.was
      /\ \A x \in DOMAIN c.was : \A f \in Fields : b.will[x][f] = Keep <=> c.was[x][f] = Keep
  BY <1>1, CommandIs
<1>10. ASSUME NEW x \in Things, NEW f \in Fields PROVE q[f][x] = p[f][x]
  <2>1. q[f][x] = SetTo(c.was, r, f, x) /\ p[f][x] = SetTo(c.was, d, f, x) /\ r[f][x] = SetTo(b.will, d, f, x)
    BY <1>5, <1>7, <1>8
  <2>2. CASE x \in DOMAIN c.was /\ c.was[x][f] # Keep
    BY <2>1, <2>2 DEF SetTo
  <2>3. CASE ~(x \in DOMAIN c.was /\ c.was[x][f] # Keep)
    <3>1. ~(x \in DOMAIN b.will /\ b.will[x][f] # Keep)
      BY <1>9, <2>3
    <3>2. QED
      BY <2>1, <2>3, <3>1 DEF SetTo
  <2>4. QED
    BY <2>2, <2>3
<1>11. Matches(h, q, p)
  <2>1. Made(p) \subseteq Things
    BY <1>7, ScoreIs
  <2>2. h => \A x \in Made(p) : \A f \in Fields : Spoken(f, x) => q[f][x] = p[f][x]
    BY <1>10, <2>1
  <2>3. QED
    BY <1>5, <1>7, <1>8, <2>2 DEF Matches
<1>12. Fits(FALSE, h, m, r)
  <2>1. ASSUME NEW x \in DOMAIN m.was, NEW f \in Fields, From(FALSE, m)[x][f] # Keep
        PROVE  r[f][x] = From(FALSE, m)[x][f]
    BY <1>3, <1>5, <1>9, <2>1 DEF SetTo
  <2>2. ~Puts(FALSE, m) /\ ~Takes(FALSE, m) /\ ~Adds(FALSE, m) /\ ~Drops(FALSE, m)
    BY <1>2 DEF Puts, Takes, Adds, Drops, Sets
  <2>3. QED
    BY <1>6, <2>1, <2>2 DEF Fits
<1>13. QED
  BY <1>5, <1>11, <1>12 DEF r, m, p, q

LEMMA LinkMerged ==
    ASSUME NEW P, NEW e \in Items, NEW d \in Scores, Link(FALSE, P, e, d), NEW b \in AnyCommands,
           Len(e.cmds) = 1, Alike(e.cmds[1], b), DOMAIN b.was \subseteq Made(d), b.things = <<>>,
           NEW f \in Items, f.of = e.of, f.honest = e.honest, f.cmds = <<Merge(e.cmds[1], b)>>
    PROVE  ApplyOne(d, b) \in Scores /\ Link(FALSE, P, f, ApplyOne(d, b))
<1> DEFINE c == e.cmds[1]
           m == Merge(c, b)
           r == ApplyOne(d, b)
           h == e.honest
<1>1. e.cmds \in Seq(AnyCommands) /\ h \in BOOLEAN /\ e.of \in Scores
  BY ItemIs
<1>2. c \in AnyCommands /\ e.cmds = <<c>> /\ Alike(c, b)
  BY <1>1
<1>3. m \in AnyCommands
  BY <1>2, MergeIs
<1>4. f.of = e.of /\ f.honest = h /\ f.cmds = <<m>>
  OBVIOUS
<1>m. m = Merge(c, b) /\ r = ApplyOne(d, b)
  OBVIOUS
<1> HIDE DEF c, m, r, h
<1>5. Goes(FALSE, h, <<c>>, d) /\ Matches(h, Outcome(FALSE, d, <<c>>), e.of) /\ Ok(e.of, P)
  BY <1>2 DEF Link, h
<1>6. Fits(FALSE, h, c, d)
  <2>1. PICK way \in [0..Len(<<c>>) -> Scores] : Course(FALSE, h, <<c>>, d, way)
    BY <1>5 DEF Goes
  <2>2. 1 \in 1..Len(<<c>>) /\ Turn(FALSE, <<c>>, 1) = c /\ 1 - 1 = 0
    BY DEF Turn
  <2>3. Fits(FALSE, h, Turn(FALSE, <<c>>, 1), way[1 - 1]) /\ way[0] = d
    BY <2>1, <2>2 DEF Course
  <2>4. QED
    BY <2>2, <2>3
<1>7. Outcome(FALSE, d, <<c>>) = OneTurn(FALSE, d, c)
  BY <1>1, <1>2, <1>6, GoesOne
<1>8. Known(b, d) /\ Known(c, d)
  <2>1. ToSet(<<>>) = {}
    BY DEF ToSet
  <2>2. QED
    BY <1>6, <2>1 DEF Known, Fits
<1>9. r \in Scores /\ Fits(FALSE, h, m, r) /\ Matches(h, OneTurn(FALSE, r, m), OneTurn(FALSE, d, c))
  BY <1>1, <1>2, <1>8, <1>m, MergedBack
<1>10. Matches(h, OneTurn(FALSE, r, m), e.of)
  BY <1>1, <1>5, <1>7, <1>9, MatchesOn
<1>11. Goes(FALSE, h, <<m>>, r) /\ Outcome(FALSE, r, <<m>>) = OneTurn(FALSE, r, m)
  BY <1>1, <1>3, <1>9, GoesOne
<1>12. Link(FALSE, P, f, r)
  BY <1>4, <1>5, <1>10, <1>11 DEF Link
<1>13. QED
  BY <1>9, <1>12 DEF r

\* Nothing is made or unmade by a batch.
LEMMA OutcomeMade ==
    ASSUME NEW forth \in BOOLEAN, NEW h \in BOOLEAN, NEW cmds \in Seq(AnyCommands), NEW d \in Scores,
           Goes(forth, h, cmds, d)
    PROVE  Outcome(forth, d, cmds) \in Scores /\ Made(Outcome(forth, d, cmds)) = Made(d)
<1> DEFINE n == Len(cmds)
<1>1. PICK way \in [0..n -> Scores] : Course(forth, h, cmds, d, way)
  BY DEF Goes
<1>2. n \in Nat /\ \A i \in 1..n : Turn(forth, cmds, i) \in AnyCommands
  BY TurnsOf
<1>3. /\ way[0] = d
      /\ \A i \in 1..n : /\ Fits(forth, h, Turn(forth, cmds, i), way[i - 1])
                         /\ way[i] = OneTurn(forth, way[i - 1], Turn(forth, cmds, i))
  BY <1>1 DEF Course
<1>4. Outcome(forth, d, cmds) = way[n]
  BY <1>1, OutcomeIs
<1> HIDE DEF n
<1> DEFINE S == {i \in 0..n : Made(way[i]) = Made(d)}
<1>5. 0 \in S
  BY <1>2, <1>3
<1>6. ASSUME NEW i \in 1..n, i - 1 \in S PROVE i \in S
  <2>1. i - 1 \in 0..n /\ i \in 0..n /\ way[i - 1] \in Scores /\ Made(way[i - 1]) = Made(d)
    BY <1>1, <1>2, <1>6
  <2>2. Effect(forth, way[i - 1], Turn(forth, cmds, i), way[i])
    BY <1>2, <1>3, <2>1, TurnIs DEF Fits
  <2>3. QED
    BY <2>1, <2>2 DEF Effect
<1>7. 0..n \subseteq S
  <2> HIDE DEF S
  <2>1. QED
    BY <1>2, <1>5, <1>6, StepByStep
<1>8. n \in 0..n
  BY <1>2
<1>9. QED
  BY <1>1, <1>4, <1>7, <1>8

-----------------------------------------------------------------------------
(* The stacks stay whole *)

\* The document may be saved, and both stacks lead from it.
Whole(P, e) == Ok(e.doc, P) /\ Held(FALSE, P, e.past, e.doc) /\ Held(TRUE, P, e.future, e.doc)

\* The commands of the entry on top.
OnTop(s) == s[Len(s)].cmds

\* An entry is pushed.
Pushed(P, e, cmds, k, h, r) ==
    /\ Whole(P, r) /\ r.key = k /\ r.doc = Apply(e.doc, cmds) /\ r.future = <<>>
    /\ r.past = Append(e.past, Entry(cmds, e.doc, h)) /\ Made(r.doc) = Made(e.doc)
    /\ Len(r.past) = Len(e.past) + 1 /\ OnTop(r.past) = cmds

LEMMA RunOnPush ==
    ASSUME NEW P, NEW e, Whole(P, e), NEW cmds \in Seq(AnyCommands), NEW k, NEW h \in BOOLEAN,
           ~(k # NoKey /\ e.key = k /\ Len(e.past) > 0),
           Goes(TRUE, h, cmds, e.doc), Ok(Apply(e.doc, cmds), P),
           NEW r, r = RunOn(e, cmds, k, h)
    PROVE  Pushed(P, e, cmds, k, h, r)
<1> DEFINE d == e.doc
           w == Apply(e.doc, cmds)
           new == Entry(cmds, d, h)
           pushed == Append(e.past, new)
<1>1. r.key = k /\ r.doc = w /\ r.future = <<>> /\ r.past = pushed
  BY DEF RunOn
<1>2. d \in Scores /\ Ok(d, P) /\ Held(FALSE, P, e.past, d) /\ e.past \in Seq(Items)
  BY DEF Whole, Ok, Held
<1>3. w = Outcome(TRUE, d, cmds)
  BY DEF Outcome
<1>4. new \in Items /\ new.of = d /\ new.cmds = cmds /\ new.honest = h
  BY <1>2 DEF Entry, Items
<1>d. Goes(TRUE, h, cmds, d) /\ Ok(w, P)
  OBVIOUS
<1> HIDE DEF new, pushed, w, d
<1>5. w \in Scores /\ Made(w) = Made(d)
  <2>1. Outcome(TRUE, d, cmds) \in Scores /\ Made(Outcome(TRUE, d, cmds)) = Made(d)
    BY <1>2, <1>d, OutcomeMade, Zenon
  <2>2. QED
    BY <1>3, <2>1
<1>6. Goes(FALSE, h, cmds, w) /\ Matches(h, Outcome(FALSE, w, cmds), d)
  <2>1. Goes(~TRUE, h, cmds, w) /\ Matches(h, Outcome(~TRUE, w, cmds), d)
    BY <1>2, <1>3, <1>d, BatchBack, Zenon
  <2>2. QED
    BY <2>1
<1>7. Link(FALSE, P, new, w)
  BY <1>2, <1>4, <1>6 DEF Link
<1>8. Held(FALSE, P, pushed, w)
  BY <1>2, <1>4, <1>7, HeldPush DEF pushed
<1>9. Held(TRUE, P, <<>>, w)
  BY HeldNone
<1>10. Whole(P, r)
  BY <1>1, <1>8, <1>9, <1>d DEF Whole
<1>11. Len(pushed) = Len(e.past) + 1 /\ pushed[Len(pushed)] = new
  BY <1>2, <1>4, AppendProperties DEF pushed
<1>12. QED
  BY <1>1, <1>4, <1>5, <1>10, <1>11 DEF new, pushed, w, d, OnTop, Pushed

\* The entry on top is replaced.
Swapped(s, f) == [s EXCEPT ![Len(s)] = f]

\* An entry is replaced by one that leads to the same document.
LEMMA HeldSwap ==
    ASSUME NEW P, NEW s, NEW d, Held(FALSE, P, s, d), Len(s) > 0, NEW f \in Items,
           f.of = s[Len(s)].of, NEW b, Link(FALSE, P, f, b)
    PROVE  Held(FALSE, P, Swapped(s, f), b) /\ Len(Swapped(s, f)) = Len(s) /\ Swapped(s, f)[Len(s)] = f
<1> DEFINE n == Len(s)
           q == Swapped(s, f)
<1>1. s \in Seq(Items) /\ \A i \in 1..n : Link(FALSE, P, s[i], After(s, i, d))
  BY DEF Held
<1>2. n \in Nat \ {0}
  BY <1>1
<1>3. q \in Seq(Items) /\ Len(q) = n /\ q[n] = f /\ \A i \in 1..(n - 1) : q[i] = s[i]
  BY <1>1, <1>2 DEF Swapped
<1>f. f.of = s[n].of
  OBVIOUS
<1> HIDE DEF n, q
<1>4. ASSUME NEW i \in 1..n PROVE Link(FALSE, P, q[i], After(q, i, b))
  <2>1. CASE i = n
    BY <1>3, <2>1 DEF After
  <2>2. CASE i # n
    <3>0. i \in 1..(n - 1)
      BY <1>2, <2>2
    <3>1. i \in 1..(n - 1) /\ After(q, i, b) = q[i + 1].of /\ After(s, i, d) = s[i + 1].of
      <4>1. i # Len(q) /\ i # Len(s)
        BY <1>3, <2>2 DEF n
      <4>2. After(q, i, b) = q[i + 1].of
        BY <4>1, Zenon DEF After
      <4>3. After(s, i, d) = s[i + 1].of
        BY <4>1, Zenon DEF After
      <4>4. QED
        BY <3>0, <4>2, <4>3
    <3>2. q[i + 1].of = s[i + 1].of
      <4>1. CASE i + 1 = n
        BY <1>3, <1>f, <4>1
      <4>2. CASE i + 1 # n
        <5>1. i + 1 \in 1..(n - 1)
          BY <1>2, <3>1, <4>2
        <5>2. QED
          BY <1>3, <5>1
      <4>3. QED
        BY <4>1, <4>2
    <3>3. QED
      BY <1>1, <1>3, <3>1, <3>2
  <2>3. QED
    BY <2>1, <2>2
<1>5. QED
  BY <1>3, <1>4 DEF Held, n, q

\* A move of a gesture is merged into the entry of the ones before.
Merged(P, e, c, b, k, r) ==
    /\ Whole(P, r) /\ r.key = k /\ r.doc = ApplyOne(e.doc, b) /\ r.future = <<>>
    /\ Made(r.doc) = Made(e.doc) /\ Len(r.past) = Len(e.past) /\ OnTop(r.past) = <<Merge(c, b)>>

LEMMA RunOnMerge ==
    ASSUME NEW P, NEW e, Whole(P, e), NEW b \in AnyCommands, NEW k, NEW h \in BOOLEAN,
           k # NoKey, e.key = k, Len(e.past) > 0, NEW c, OnTop(e.past) = <<c>>, Alike(c, b),
           DOMAIN b.was \subseteq Made(e.doc), b.things = <<>>,
           NEW r, r = RunOn(e, <<b>>, k, h)
    PROVE  Merged(P, e, c, b, k, r)
<1> DEFINE d == e.doc
           s == e.past
           n == Len(s)
           top == s[n]
           m == Merge(top.cmds[1], b)
           f == [top EXCEPT !.cmds = <<m>>]
           q == [s EXCEPT ![n] = f]
           w == ApplyOne(d, b)
<1>1. s \in Seq(Items) /\ d \in Scores /\ Ok(d, P) /\ Held(FALSE, P, s, d)
  BY DEF Whole, Ok, Held
<1>2. n \in Nat \ {0} /\ n \in 1..n /\ top \in Items
  BY <1>1
<1>3. Link(FALSE, P, top, d)
  <2>1. Link(FALSE, P, s[n], After(s, n, d))
    BY <1>1, <1>2 DEF Held
  <2>2. After(s, n, d) = d
    BY DEF After
  <2>3. QED
    BY <2>1, <2>2
<1>4. /\ r.key = k /\ r.doc = Apply(d, <<b>>) /\ r.future = <<>>
      /\ r.past = [s EXCEPT ![n].cmds = <<Merge(@[1], <<b>>[1])>>]
  BY DEF RunOn
<1>5. r.past = q
  <2>1. <<b>>[1] = b
    OBVIOUS
  <2>2. QED
    BY <1>1, <1>2, <1>4, <2>1
<1>6. /\ Len(top.cmds) = 1 /\ Alike(top.cmds[1], b) /\ DOMAIN b.was \subseteq Made(d) /\ b.things = <<>>
      /\ top.cmds[1] = c
  <2>1. top.cmds = <<c>>
    BY DEF OnTop
  <2> HIDE DEF top
  <2>2. Len(top.cmds) = 1 /\ top.cmds[1] = c
    BY <2>1
  <2>3. QED
    BY <2>2
<1>7. f \in Items /\ f.of = top.of /\ f.honest = top.honest /\ f.cmds = <<m>> /\ q = Swapped(s, f)
  <2>1. top \in [cmds : Seq(AnyCommands), of : Scores, honest : BOOLEAN]
    BY <1>2 DEF Items
  <2> DEFINE g == [cmds |-> <<m>>, of |-> top.of, honest |-> top.honest]
  <2>2. f = g
    BY <2>1
  <2>3. <<m>> \in Seq(AnyCommands)
    <3>1. top.cmds \in Seq(AnyCommands) /\ Len(top.cmds) = 1
      BY <1>6, <2>1
    <3>2. top.cmds[1] \in AnyCommands
      BY <3>1
    <3>3. m \in AnyCommands
      BY <1>6, <3>2, MergeIs
    <3> HIDE DEF m
    <3>4. QED
      BY <3>3
  <2>4. g \in Items
    <3> HIDE DEF m
    <3>1. QED
      BY <2>1, <2>3 DEF Items
  <2>5. g.of = top.of /\ g.honest = top.honest /\ g.cmds = <<m>>
    OBVIOUS
  <2>6. q = Swapped(s, f)
    BY DEF Swapped
  <2> HIDE DEF g, f, top, q, m
  <2>7. QED
    BY <2>2, <2>4, <2>5, <2>6
<1>t. top = s[Len(s)] /\ m = Merge(top.cmds[1], b) /\ w = ApplyOne(d, b) /\ n = Len(s)
  OBVIOUS
<1> HIDE DEF f, q, m, d, top, w, n, s
<1>8. w \in Scores /\ Link(FALSE, P, f, w)
  <2>1. f.cmds = <<Merge(top.cmds[1], b)>>
    BY <1>7, <1>t, Zenon
  <2>2. ApplyOne(d, b) \in Scores /\ Link(FALSE, P, f, ApplyOne(d, b))
    BY <1>1, <1>2, <1>3, <1>6, <1>7, <2>1, LinkMerged, Zenon
  <2>3. QED
    BY <1>t, <2>2, Zenon
<1>9. Held(FALSE, P, q, w) /\ Len(q) = n /\ q[n] = f
  <2>1. Len(s) > 0
    BY <1>2, <1>t
  <2>2. f.of = s[Len(s)].of
    BY <1>7, <1>t, Zenon
  <2>3. Held(FALSE, P, Swapped(s, f), w) /\ Len(Swapped(s, f)) = Len(s) /\ Swapped(s, f)[Len(s)] = f
    BY <1>1, <1>7, <1>8, <2>1, <2>2, HeldSwap, Zenon
  <2>4. QED
    BY <1>7, <1>t, <2>3, Zenon
<1>10. Effect(TRUE, d, b, w)
  <2>1. Known(b, d)
    <3>1. ToSet(<<>>) = {}
      BY DEF ToSet
    <3>2. QED
      BY <1>6, <3>1 DEF Known
  <2>2. QED
    BY <1>1, <1>t, <2>1, TurnIs DEF OneTurn
<1>11. Matches(FALSE, w, d) /\ Made(w) = Made(d)
  <2>1. b.k \in Sets
    BY <1>6 DEF Alike
  <2>2. ~Puts(TRUE, b) /\ ~Takes(TRUE, b) /\ ~Adds(TRUE, b) /\ ~Drops(TRUE, b)
    BY <2>1 DEF Puts, Takes, Adds, Drops, Sets
  <2>3. QED
    BY <1>10, <2>2 DEF Effect, Matches
<1>12. Ok(w, P)
  BY <1>1, <1>8, <1>11, OkAlike
<1>13. Apply(d, <<b>>) = w
  <2>1. Known(b, d) /\ b.k \in Sets
    <3>1. ToSet(<<>>) = {}
      BY DEF ToSet
    <3>2. QED
      BY <1>6, <3>1 DEF Known, Alike
  <2>2. Fits(TRUE, FALSE, b, d)
    BY <2>1 DEF Fits, Puts, Takes, Adds, Drops, Sets
  <2>3. Outcome(TRUE, d, <<b>>) = OneTurn(TRUE, d, b)
    BY <1>1, <2>2, GoesOne
  <2>4. QED
    BY <1>t, <2>3 DEF Outcome, OneTurn
<1>14. Whole(P, r)
  <2>1. Held(TRUE, P, <<>>, w)
    BY HeldNone
  <2>2. QED
    BY <1>4, <1>5, <1>9, <1>12, <1>13, <2>1 DEF Whole
<1>15. /\ r.key = k /\ r.doc = w /\ r.future = <<>> /\ Made(r.doc) = Made(d) /\ Len(r.past) = n
       /\ OnTop(r.past) = <<m>>
  <2>1. r.doc = w /\ r.key = k /\ r.future = <<>>
    BY <1>4, <1>13
  <2>2. Len(r.past) = n /\ r.past[Len(r.past)] = f
    BY <1>5, <1>9
  <2>3. QED
    BY <1>7, <1>11, <2>1, <2>2 DEF OnTop
<1>m. m = Merge(c, b)
  BY <1>6, <1>t
<1>16. QED
  BY <1>14, <1>15, <1>m DEF n, s, d, w, Merged

-----------------------------------------------------------------------------
(* What holds of the page *)

StackInv == Ok(doc, pasted) /\ Held(FALSE, pasted, past, doc) /\ Held(TRUE, pasted, future, doc)

\* The attributes a drag sets.
Dragging(part) == IF part = "end" THEN {"size"} ELSE IF part = "point" THEN {"t", "level"} ELSE {"t"}

\* A command of the gesture under way.
Own(d, c) ==
    /\ c.k \in Sets
    /\ DOMAIN c.was = IF d.part = "end" THEN {d.lead} ELSE DOMAIN d.was
    /\ \A x \in DOMAIN c.was : \A f \in Fields : c.was[x][f] # Keep <=> f \in Dragging(d.part)

\* The document is as it was when the drag began, in what it has hold of.
Agrees(was, d) == \A x \in DOMAIN was : \A f \in Fields : was[x][f] = d[f][x]

Grip == [part : {"body", "start", "end", "point"}, track : Tracks, lead : Things,
         was : Values, depth : Nat, stirred : BOOLEAN]

\* A gesture merges into its own entry only, and has read the document it changes, unless
\* another edit came between.
GripInv ==
    /\ drag \in Grip
    /\ DOMAIN drag.was \subseteq Made(doc) /\ drag.lead \in DOMAIN drag.was
    /\ \A x \in DOMAIN drag.was : \A f \in Fields : drag.was[x][f] \in Int
    /\ key \in Keys
    /\ key = "g" => /\ drag.part # "start" /\ Len(past) > 0 /\ Len(past[Len(past)].cmds) = 1
                    /\ Own(drag, past[Len(past)].cmds[1])
    /\ key = "gr" => drag.part = "start"
    /\ ~drag.stirred /\ drag.part # "start" /\ key = NoKey => Agrees(drag.was, doc)
    /\ ~drag.stirred /\ drag.part = "start" =>
          /\ Len(past) >= drag.depth
          /\ Len(past) = drag.depth => Agrees(drag.was, doc)

GestureInv == IF drag = NoDrag THEN key = NoKey ELSE GripInv

\* What the inspector speaks of has been made.
FocusInv == focus = NoFocus \/ focus.thing \in Made(doc)

PageInv == StackInv /\ GestureInv /\ FocusInv

LEMMA Stirred ==
    ASSUME GestureInv, Stir, key' = NoKey, Made(doc) \subseteq Made(doc)'
    PROVE  GestureInv'
<1>1. CASE drag = NoDrag
  BY <1>1 DEF Stir, GestureInv
<1>2. CASE drag # NoDrag
  <2>1. GripInv /\ drag' = [drag EXCEPT !.stirred = TRUE]
    BY <1>2 DEF Stir, GestureInv
  <2>2. drag \in Grip
    BY <2>1 DEF GripInv
  <2>3. drag' \in Grip /\ drag'.was = drag.was /\ drag'.lead = drag.lead /\ drag'.stirred = TRUE
    BY <2>1, <2>2 DEF Grip
  <2>4. drag' # NoDrag
    <3>1. drag'.part \in {"body", "start", "end", "point"} /\ NoDrag.part = "none"
      BY <2>3 DEF Grip, NoDrag
    <3>2. QED
      BY <3>1
  <2>5. /\ DOMAIN drag.was \subseteq Made(doc)' /\ drag.lead \in DOMAIN drag.was
        /\ \A x \in DOMAIN drag.was : \A f \in Fields : drag.was[x][f] \in Int
    BY <2>1 DEF GripInv
  <2>6. key' \in Keys /\ key' # "g" /\ key' # "gr"
    BY DEF Keys, NoKey
  <2>7. GripInv'
    BY <2>3, <2>5, <2>6 DEF GripInv
  <2>8. QED
    BY <2>4, <2>7 DEF GestureInv
<1>3. QED
  BY <1>1, <1>2

LEMMA FocusStays ==
    ASSUME FocusInv, focus' = focus \/ focus' = NoFocus, Made(doc) \subseteq Made(doc)'
    PROVE  FocusInv'
<1>1. CASE focus' = NoFocus
  BY <1>1 DEF FocusInv
<1>2. CASE focus' = focus
  BY <1>2 DEF FocusInv
<1>3. QED
  BY <1>1, <1>2

\* One command more is taken back, or done again.
LEMMA Turned ==
    ASSUME NEW forth \in BOOLEAN, NEW P, NEW s, NEW o, NEW d, Ok(d, P), Held(forth, P, s, d),
           Held(~forth, P, o, d), s # <<>>,
           NEW r, r = Outcome(forth, d, Last(s).cmds)
    PROVE  /\ Ok(r, P) /\ Made(r) = Made(d)
           /\ Held(forth, P, IF Last(s).honest THEN Front(s) ELSE Disowned(Front(s)), r)
           /\ Held(~forth, P, Append(o, [Last(s) EXCEPT !.of = d]), r)
<1> DEFINE e == Last(s)
           f == [e EXCEPT !.of = d]
<1>1. e \in Items /\ Link(forth, P, e, d) /\ d \in Scores
  BY HeldTop DEF Ok
<1>2. e.cmds \in Seq(AnyCommands) /\ e.honest \in BOOLEAN /\ r = Outcome(forth, d, e.cmds)
  BY <1>1, ItemIs
<1>f. f = [e EXCEPT !.of = d]
  OBVIOUS
<1>e. e = Last(s)
  OBVIOUS
<1> HIDE DEF e, f
<1>3. /\ r \in Scores /\ Ok(r, P) /\ Matches(e.honest, r, e.of)
      /\ f \in Items /\ f.of = d /\ Link(~forth, P, f, r)
  BY <1>1, <1>2, <1>f, LinkTurned
<1>4. Made(r) = Made(d)
  <2>1. Goes(forth, e.honest, e.cmds, d)
    BY <1>1 DEF Link
  <2>2. QED
    BY <1>1, <1>2, <2>1, OutcomeMade
<1>5. Held(forth, P, IF Last(s).honest THEN Front(s) ELSE Disowned(Front(s)), r)
  BY <1>3, <1>e, HeldPop
<1>6. Held(~forth, P, Append(o, f), r)
  <2>1. (~forth) \in BOOLEAN
    BY Zenon
  <2>2. Held(~forth, P, o, f.of)
    BY <1>3
  <2>3. QED
    BY <1>3, <2>1, <2>2, HeldPush
<1>7. QED
  BY <1>3, <1>4, <1>5, <1>6, <1>f, <1>e

LEMMA UndoHolds ==
    ASSUME PageInv, Undo
    PROVE  PageInv'
<1>1. Ok(doc, pasted) /\ Held(FALSE, pasted, past, doc) /\ Held(TRUE, pasted, future, doc)
  BY DEF PageInv, StackInv
<1>2. /\ past # <<>> /\ doc' = Revert(doc, Last(past).cmds)
      /\ past' = IF Last(past).honest THEN Front(past) ELSE Disowned(Front(past))
      /\ future' = Append(future, [Last(past) EXCEPT !.of = doc])
      /\ key' = NoKey /\ Stir /\ focus' = focus /\ pasted' = pasted
  BY DEF Undo
<1>3. /\ Ok(doc', pasted) /\ Made(doc') = Made(doc)
      /\ Held(FALSE, pasted, past', doc') /\ Held(TRUE, pasted, future', doc')
  <2>1. doc' = Outcome(FALSE, doc, Last(past).cmds)
    BY <1>2 DEF Outcome
  <2>2. Held(~FALSE, pasted, future, doc) /\ FALSE \in BOOLEAN
    BY <1>1
  <2>3. /\ Ok(doc', pasted) /\ Made(doc') = Made(doc)
        /\ Held(FALSE, pasted, IF Last(past).honest THEN Front(past) ELSE Disowned(Front(past)), doc')
        /\ Held(~FALSE, pasted, Append(future, [Last(past) EXCEPT !.of = doc]), doc')
    BY <1>1, <1>2, <2>1, <2>2, Turned
  <2>4. QED
    BY <1>2, <2>3
<1>4. StackInv'
  BY <1>2, <1>3 DEF StackInv
<1>5. Made(doc)' = Made(doc)
  BY <1>3 DEF Made
<1>6. QED
  BY <1>2, <1>4, <1>5, Stirred, FocusStays DEF PageInv

LEMMA RedoHolds ==
    ASSUME PageInv, Redo
    PROVE  PageInv'
<1>1. Ok(doc, pasted) /\ Held(FALSE, pasted, past, doc) /\ Held(TRUE, pasted, future, doc)
  BY DEF PageInv, StackInv
<1>2. /\ future # <<>> /\ doc' = Apply(doc, Last(future).cmds)
      /\ future' = IF Last(future).honest THEN Front(future) ELSE Disowned(Front(future))
      /\ past' = Append(past, [Last(future) EXCEPT !.of = doc])
      /\ key' = NoKey /\ Stir /\ focus' = focus /\ pasted' = pasted
  BY DEF Redo
<1>3. /\ Ok(doc', pasted) /\ Made(doc') = Made(doc)
      /\ Held(FALSE, pasted, past', doc') /\ Held(TRUE, pasted, future', doc')
  <2>1. doc' = Outcome(TRUE, doc, Last(future).cmds)
    BY <1>2 DEF Outcome
  <2>2. Held(~TRUE, pasted, past, doc) /\ TRUE \in BOOLEAN
    BY <1>1
  <2>3. /\ Ok(doc', pasted) /\ Made(doc') = Made(doc)
        /\ Held(TRUE, pasted, IF Last(future).honest THEN Front(future) ELSE Disowned(Front(future)), doc')
        /\ Held(~TRUE, pasted, Append(past, [Last(future) EXCEPT !.of = doc]), doc')
    BY <1>1, <1>2, <2>1, <2>2, Turned
  <2>4. QED
    BY <1>2, <2>3
<1>4. StackInv'
  BY <1>2, <1>3 DEF StackInv
<1>5. Made(doc)' = Made(doc)
  BY <1>3 DEF Made
<1>6. QED
  BY <1>2, <1>4, <1>5, Stirred, FocusStays DEF PageInv

\* One edit of a menu, a key or a field.
LEMMA RunIs ==
    ASSUME NEW made, NEW cmds, Run(made, cmds)
    PROVE  /\ doc' = Apply(made, cmds) /\ past' = Append(past, Entry(cmds, made, TRUE)) /\ future' = <<>>
           /\ key' = NoKey /\ Stir /\ cmds # <<>>
<1> DEFINE e == [Editor EXCEPT !.doc = made]
           r == RunOn(e, cmds, NoKey, TRUE)
           q == [r EXCEPT !.key = NoKey]
<1>1. e.doc = made /\ e.past = past
  BY DEF Editor
<1>2. Become(q) /\ Stir /\ cmds # <<>>
  BY DEF Run
<1> HIDE DEF e
<1>3. q.doc = Apply(made, cmds) /\ q.past = Append(past, Entry(cmds, made, TRUE)) /\ q.future = <<>> /\ q.key = NoKey
  BY <1>1 DEF RunOn
<1> HIDE DEF r, q
<1>4. QED
  BY <1>2, <1>3 DEF Become

LEMMA RunHolds ==
    ASSUME PageInv, NEW made \in Scores, NEW cmds \in Seq(AnyCommands), Run(made, cmds),
           Matches(TRUE, made, doc), Goes(TRUE, TRUE, cmds, made), pasted \subseteq pasted',
           Ok(Apply(made, cmds), pasted'), focus' = focus
    PROVE  PageInv'
<1> DEFINE P == pasted'
           w == Apply(made, cmds)
           new == Entry(cmds, made, TRUE)
<1>1. /\ Ok(doc, pasted) /\ Held(FALSE, pasted, past, doc) /\ doc \in Scores
      /\ pasted \subseteq P /\ Ok(w, P)
  BY DEF PageInv, StackInv, Ok
<1>2. doc' = w /\ past' = Append(past, new) /\ future' = <<>> /\ key' = NoKey /\ Stir
  BY RunIs
<1>w. w = Outcome(TRUE, made, cmds)
  BY DEF Outcome
<1>n. new \in Items /\ new.of = made /\ new.cmds = cmds /\ new.honest = TRUE
  BY DEF Entry, Items
<1> HIDE DEF P, w, new
<1>3. Held(FALSE, P, past, new.of)
  <2>1. Held(FALSE, P, past, doc)
    BY <1>1, HeldGrown
  <2>2. QED
    BY <1>1, <1>n, <2>1, HeldAlike
<1>4. Ok(made, P)
  BY <1>1, OkAlike
<1>5. /\ w \in Scores /\ Made(w) = Made(made)
      /\ Goes(FALSE, TRUE, cmds, w) /\ Matches(TRUE, Outcome(FALSE, w, cmds), made)
  <2>1. w \in Scores /\ Made(w) = Made(made)
    BY <1>w, OutcomeMade
  <2>2. Goes(~TRUE, TRUE, cmds, w) /\ Matches(TRUE, Outcome(~TRUE, w, cmds), made)
    BY <1>w, BatchBack
  <2>3. QED
    BY <2>1, <2>2
<1>6. Link(FALSE, P, new, w)
  BY <1>4, <1>5, <1>n DEF Link
<1>7. Held(FALSE, P, Append(past, new), w)
  BY <1>3, <1>6, <1>n, HeldPush
<1>8. Held(TRUE, P, <<>>, w)
  BY HeldNone
<1>9. StackInv'
  BY <1>1, <1>2, <1>7, <1>8 DEF StackInv, P
<1>10. Made(doc) \subseteq Made(doc)'
  <2>1. Made(doc) \subseteq Made(made)
    BY DEF Matches
  <2>2. Made(doc)' = Made(w)
    BY <1>2 DEF Made
  <2>3. QED
    BY <1>5, <2>1, <2>2
<1>11. QED
  BY <1>2, <1>9, <1>10, Stirred, FocusStays DEF PageInv

-----------------------------------------------------------------------------
(* The commands that change attributes *)

LEMMA AtIs ==
    ASSUME NEW t \in Int \cup {Keep}, NEW size \in Nat \cup {Keep}, NEW level \in Int \cup {Keep}
    PROVE  /\ At(t, size, level) \in Attr
           /\ At(t, size, level)["t"] = t /\ At(t, size, level)["size"] = size
           /\ At(t, size, level)["level"] = level
BY DEF At, Attr

LEMMA FieldByField ==
    ASSUME NEW a, NEW b, a["t"] = Keep <=> b["t"] = Keep, a["size"] = Keep <=> b["size"] = Keep,
           a["level"] = Keep <=> b["level"] = Keep
    PROVE  \A f \in Fields : a[f] = Keep <=> b[f] = Keep
<1> TAKE f \in Fields
<1>1. CASE f = "t"
  BY <1>1
<1>2. CASE f = "size"
  BY <1>2
<1>3. CASE f = "level"
  BY <1>3
<1>4. QED
  BY <1>1, <1>2, <1>3 DEF Fields

\* What a document says.
Says(v, d) == \A x \in DOMAIN v : \A f \in Fields : v[x][f] # Keep => v[x][f] = d[f][x]

\* A change of attributes of things, and what it says they were.
Changes(c, k, was) ==
    /\ c \in AnyCommands /\ c.k \in Sets /\ c.track = k /\ c.things = <<>> /\ c.was = was

LEMMA SetCommandIs ==
    ASSUME NEW kind \in Sets, NEW k \in Tracks, NEW D, D \subseteq Things,
           NEW was \in [D -> Attr], NEW will \in [D -> Attr],
           \A x \in D : \A f \in Fields : was[x][f] = Keep <=> will[x][f] = Keep
    PROVE  Changes(SetCommand(kind, k, was, will), k, was)
<1> DEFINE c == SetCommand(kind, k, was, will)
<1>1. c = [k |-> kind, track |-> k, was |-> was, will |-> will, things |-> <<>>, at |-> 0]
  BY DEF SetCommand
<1>2. was \in Values /\ will \in Values
  BY DEF Values
<1>3. <<>> \in Seq(Things)
  BY EmptySeq
<1>4. kind \in Kinds /\ kind # "removeTrack"
  BY DEF Kinds, Sets
<1>5. c \in [k : Kinds, track : Tracks, was : Values, will : Values, things : Seq(Things), at : Nat]
  BY <1>1, <1>2, <1>3, <1>4
<1>6. /\ c.k = kind /\ c.track = k /\ c.was = was /\ c.will = will /\ c.things = <<>>
      /\ DOMAIN c.was = D /\ DOMAIN c.will = D
  BY <1>1
<1> HIDE DEF c
<1>7. c \in AnyCommands
  BY <1>4, <1>5, <1>6 DEF AnyCommands
<1>8. QED
  BY <1>6, <1>7 DEF Changes, c

LEMMA MoveCuesIs ==
    ASSUME NEW k \in Tracks, NEW D, D \subseteq Things, NEW from \in [D -> Int], NEW to \in [D -> Int]
    PROVE  Changes(MoveCues(k, from, to), k, [x \in D |-> At(from[x], Keep, Keep)])
<1> DEFINE was == [x \in D |-> At(from[x], Keep, Keep)]
           will == [x \in D |-> At(to[x], Keep, Keep)]
<1>1. \A x \in D : At(from[x], Keep, Keep) \in Attr /\ At(to[x], Keep, Keep) \in Attr
  BY AtIs
<1>2. was \in [D -> Attr] /\ will \in [D -> Attr]
  BY <1>1
<1>3. \A x \in D : \A f \in Fields : was[x][f] = Keep <=> will[x][f] = Keep
  <2> TAKE x \in D
  <2>1. /\ was[x] = At(from[x], Keep, Keep) /\ will[x] = At(to[x], Keep, Keep)
        /\ from[x] \in Int /\ to[x] \in Int
    OBVIOUS
  <2> HIDE DEF was, will
  <2>2. /\ was[x]["t"] = from[x] /\ was[x]["size"] = Keep /\ was[x]["level"] = Keep
        /\ will[x]["t"] = to[x] /\ will[x]["size"] = Keep /\ will[x]["level"] = Keep
    BY <2>1 DEF At
  <2>3. Keep \notin Int
    BY EditingAssumption
  <2>4. /\ was[x]["t"] # Keep /\ will[x]["t"] # Keep
    BY <2>1, <2>2, <2>3
  <2>5. /\ was[x]["t"] = Keep <=> will[x]["t"] = Keep
        /\ was[x]["size"] = Keep <=> will[x]["size"] = Keep
        /\ was[x]["level"] = Keep <=> will[x]["level"] = Keep
    BY <2>2, <2>4
  <2>6. QED
    BY <2>5, FieldByField
<1>4. MoveCues(k, from, to) = SetCommand("moveCues", k, was, will)
  BY DEF MoveCues
<1>5. "moveCues" \in Sets
  BY DEF Sets
<1> HIDE DEF was, will
<1>6. Changes(MoveCues(k, from, to), k, was)
  BY <1>2, <1>3, <1>4, <1>5, SetCommandIs
<1>7. QED
  BY <1>6 DEF was

LEMMA ResizeCuesIs ==
    ASSUME NEW k \in Tracks, NEW x \in Things, NEW from \in Nat, NEW to \in Int, NEW min \in Nat
    PROVE  Changes(ResizeCues(k, x, from, to, min), k, [y \in {x} |-> At(Keep, from, Keep)])
<1> DEFINE was == [y \in {x} |-> At(Keep, from, Keep)]
           will == [y \in {x} |-> At(Keep, Larger(min, to), Keep)]
<1>m. min \in Int
  OBVIOUS
<1>1. Larger(min, to) \in Nat /\ Keep \in Int \cup {Keep}
  BY <1>m, LargerType
<1>2. At(Keep, from, Keep) \in Attr /\ At(Keep, Larger(min, to), Keep) \in Attr
  BY <1>1, AtIs
<1>3. was \in [{x} -> Attr] /\ will \in [{x} -> Attr]
  BY <1>2
<1>4. \A y \in {x} : \A f \in Fields : was[y][f] = Keep <=> will[y][f] = Keep
  <2> TAKE y \in {x}
  <2>1. was[y] = At(Keep, from, Keep) /\ will[y] = At(Keep, Larger(min, to), Keep)
    OBVIOUS
  <2> HIDE DEF was, will
  <2>2. /\ was[y]["size"] = from /\ was[y]["t"] = Keep /\ was[y]["level"] = Keep
        /\ will[y]["size"] = Larger(min, to) /\ will[y]["t"] = Keep /\ will[y]["level"] = Keep
    BY <2>1 DEF At
  <2>3. Keep \notin Int
    BY EditingAssumption
  <2>4. /\ was[y]["size"] # Keep /\ will[y]["size"] # Keep
    BY <1>1, <2>2, <2>3
  <2>5. /\ was[y]["t"] = Keep <=> will[y]["t"] = Keep
        /\ was[y]["size"] = Keep <=> will[y]["size"] = Keep
        /\ was[y]["level"] = Keep <=> will[y]["level"] = Keep
    BY <2>2, <2>4
  <2>6. QED
    BY <2>5, FieldByField
<1>5. ResizeCues(k, x, from, to, min) = SetCommand("resizeCues", k, was, will)
  BY DEF ResizeCues
<1>6. "resizeCues" \in Sets
  BY DEF Sets
<1> HIDE DEF was, will
<1>7. Changes(ResizeCues(k, x, from, to, min), k, was)
  BY <1>3, <1>4, <1>5, <1>6, SetCommandIs
<1>8. QED
  BY <1>7 DEF was

LEMMA MovePointsIs ==
    ASSUME NEW k \in Tracks, NEW D, D \subseteq Things,
           NEW was \in [D -> Attr], NEW will \in [D -> Attr],
           \A x \in D : \A f \in Fields : was[x][f] = Keep <=> will[x][f] = Keep
    PROVE  Changes(MovePoints(k, was, will), k, was)
<1>1. "movePoints" \in Sets /\ MovePoints(k, was, will) = SetCommand("movePoints", k, was, will)
  BY DEF Sets, MovePoints
<1>2. QED
  BY <1>1, SetCommandIs

\* It can be run, and taken back.
LEMMA ChangeFits ==
    ASSUME NEW h \in BOOLEAN, NEW c, NEW k, NEW was, Changes(c, k, was), NEW d \in Scores,
           DOMAIN was \subseteq Made(d), h => Says(was, d)
    PROVE  Fits(TRUE, h, c, d) /\ Known(c, d)
<1>1. c \in AnyCommands /\ c.k \in Sets /\ c.things = <<>> /\ c.was = was
  BY DEF Changes
<1>2. Known(c, d)
  <2>1. ToSet(<<>>) = {}
    BY DEF ToSet
  <2>2. QED
    BY <1>1, <2>1 DEF Known
<1>3. h => \A x \in DOMAIN c.was : \A f \in Fields :
              Spoken(f, x) /\ From(TRUE, c)[x][f] # Keep => d[f][x] = From(TRUE, c)[x][f]
  BY <1>1 DEF Says, From
<1>4. ~Puts(TRUE, c) /\ ~Takes(TRUE, c) /\ ~Adds(TRUE, c) /\ ~Drops(TRUE, c)
  BY <1>1 DEF Puts, Takes, Adds, Drops, Sets
<1>5. QED
  BY <1>2, <1>3, <1>4 DEF Fits

LEMMA ChangeOk ==
    ASSUME NEW c, NEW k, NEW was, Changes(c, k, was), NEW d, DOMAIN was \subseteq Made(d), NEW P, Ok(d, P)
    PROVE  ApplyOne(d, c) \in Scores /\ Ok(ApplyOne(d, c), P) /\ Made(ApplyOne(d, c)) = Made(d)
           /\ \A j \in Tracks : On(ApplyOne(d, c), j) = On(d, j)
<1>1. c \in AnyCommands /\ c.k \in Sets /\ d \in Scores /\ FALSE \in BOOLEAN
  BY DEF Changes, Ok
<1>2. Known(c, d)
  BY <1>1, ChangeFits
<1>3. Reset(To(TRUE, c), d, OneTurn(TRUE, d, c))
  BY <1>1, <1>2, SetIs
<1>4. OneTurn(TRUE, d, c) = ApplyOne(d, c)
  BY DEF OneTurn
<1>5. Reset(To(TRUE, c), d, ApplyOne(d, c))
  BY <1>3, <1>4
<1>6. /\ ApplyOne(d, c) \in Scores /\ Made(ApplyOne(d, c)) = Made(d)
      /\ \A j \in Tracks : On(ApplyOne(d, c), j) = On(d, j)
      /\ ApplyOne(d, c).tracks = d.tracks
  BY <1>5 DEF Reset
<1>7. Matches(FALSE, ApplyOne(d, c), d)
  BY <1>6 DEF Matches
<1>8. Ok(ApplyOne(d, c), P)
  BY <1>6, <1>7, OkAlike
<1>9. QED
  BY <1>6, <1>8

\* A change of attributes, from a menu, a key or a field.
LEMMA ChangeHolds ==
    ASSUME PageInv, NEW made \in Scores, Matches(TRUE, made, doc),
           NEW c, NEW k, NEW was, Changes(c, k, was), DOMAIN was \subseteq Made(made), Says(was, made),
           Run(made, <<c>>), pasted' = pasted, focus' = focus
    PROVE  PageInv'
<1>1. c \in AnyCommands /\ Ok(doc, pasted) /\ doc \in Scores
  BY DEF Changes, PageInv, StackInv, Ok
<1>2. Ok(made, pasted)
  BY <1>1, OkAlike
<1>3. Fits(TRUE, TRUE, c, made)
  BY ChangeFits
<1>4. /\ <<c>> \in Seq(AnyCommands) /\ Goes(TRUE, TRUE, <<c>>, made)
      /\ Outcome(TRUE, made, <<c>>) = OneTurn(TRUE, made, c)
  BY <1>1, <1>3, GoesOne
<1>5. Apply(made, <<c>>) = ApplyOne(made, c)
  BY <1>4 DEF Outcome, OneTurn
<1>6. Ok(Apply(made, <<c>>), pasted')
  BY <1>2, <1>5, ChangeOk
<1>7. QED
  BY <1>4, <1>6, RunHolds

LEMMA SaysIf ==
    ASSUME NEW v, NEW d \in Document,
           \A x \in DOMAIN v : /\ v[x]["t"] \in {Keep, d.t[x]}
                               /\ v[x]["size"] \in {Keep, d.size[x]}
                               /\ v[x]["level"] \in {Keep, d.level[x]}
    PROVE  Says(v, d)
<1>1. d["t"] = d.t /\ d["size"] = d.size /\ d["level"] = d.level
  BY FieldsOf DEF Document
<1> SUFFICES ASSUME NEW x \in DOMAIN v, NEW f \in Fields, v[x][f] # Keep PROVE v[x][f] = d[f][x]
  BY DEF Says
<1>2. CASE f = "t"
  BY <1>1, <1>2
<1>3. CASE f = "size"
  BY <1>1, <1>3
<1>4. CASE f = "level"
  BY <1>1, <1>4
<1>5. QED
  BY <1>2, <1>3, <1>4 DEF Fields

LEMMA MoveSays ==
    ASSUME NEW D, NEW from, NEW d \in Document, \A x \in D : from[x] = d.t[x]
    PROVE  LET was == [x \in D |-> At(from[x], Keep, Keep)] IN Says(was, d) /\ DOMAIN was = D
<1> DEFINE was == [x \in D |-> At(from[x], Keep, Keep)]
<1>1. \A x \in D : was[x]["t"] = from[x] /\ was[x]["size"] = Keep /\ was[x]["level"] = Keep
  BY DEF At
<1>2. DOMAIN was = D
  OBVIOUS
<1> HIDE DEF was
<1>3. Says(was, d)
  BY <1>1, <1>2, SaysIf
<1>4. QED
  BY <1>2, <1>3 DEF was

LEMMA ResizeSays ==
    ASSUME NEW x, NEW from, NEW d \in Document, from = d.size[x]
    PROVE  LET was == [y \in {x} |-> At(Keep, from, Keep)] IN Says(was, d) /\ DOMAIN was = {x}
<1> DEFINE was == [y \in {x} |-> At(Keep, from, Keep)]
<1>1. \A y \in {x} : was[y]["size"] = from /\ was[y]["t"] = Keep /\ was[y]["level"] = Keep
  BY DEF At
<1>2. DOMAIN was = {x}
  OBVIOUS
<1> HIDE DEF was
<1>3. Says(was, d)
  BY <1>1, <1>2, SaysIf
<1>4. QED
  BY <1>2, <1>3 DEF was

LEMMA PageIs ==
    ASSUME PageInv
    PROVE  /\ doc \in Scores /\ doc \in Document /\ Made(doc) \subseteq Things /\ Ok(doc, pasted)
           /\ \A x \in Made(doc) : doc.t[x] \in Int
           /\ \A x \in Things : doc.size[x] \in Nat /\ doc.level[x] \in Int
           /\ \A k \in Tracks : On(doc, k) \subseteq Made(doc)
           /\ \A i \in DOMAIN doc.tracks : doc.tracks[i] \in Tracks
           /\ ToSet(doc.tracks) \subseteq Tracks
           /\ \A h : Matches(h, doc, doc)
<1>1. doc \in Scores /\ Ok(doc, pasted)
  BY DEF PageInv, StackInv, Ok
<1>2. doc \in Document /\ doc.tracks \in Seq(Tracks)
  BY <1>1 DEF Scores, Document
<1>3. \A x \in Things : doc.size[x] \in Nat /\ doc.level[x] \in Int
  BY <1>2 DEF Document
<1>4. \A i \in DOMAIN doc.tracks : doc.tracks[i] \in Tracks
  BY <1>2
<1>5. ToSet(doc.tracks) \subseteq Tracks
  BY <1>2, ToSetOf
<1>6. \A h : Matches(h, doc, doc)
  BY MatchesSelf
<1>7. QED
  BY <1>1, <1>2, <1>3, <1>4, <1>5, <1>6, ScoreIs

\* Nothing is written past the undo stack.
LEMMA PlainChangeHolds ==
    ASSUME PageInv,
           NEW c, NEW k, NEW was, Changes(c, k, was), DOMAIN was \subseteq Made(doc), Says(was, doc),
           Run(doc, <<c>>), pasted' = pasted, focus' = focus
    PROVE  PageInv'
BY PageIs, ChangeHolds

\* The inspector's thing, whichever track its row now is.
LEMMA InspectedMade ==
    ASSUME PageInv, focus # NoFocus, focus.row \in DOMAIN doc.tracks
    PROVE  /\ Inspected \in Tracks /\ focus.thing \in Made(doc) /\ focus.thing \in Things
           /\ {focus.thing} \subseteq Things /\ {focus.thing} \subseteq Made(doc)
           /\ doc.t[focus.thing] \in Int /\ doc.size[focus.thing] \in Nat
           /\ doc.level[focus.thing] \in Int
<1>1. focus.thing \in Made(doc)
  BY DEF PageInv, FocusInv
<1>2. QED
  BY <1>1, PageIs DEF Inspected

LEMMA InspectTimeHolds ==
    ASSUME PageInv, NEW t \in Int, InspectTime(t)
    PROVE  PageInv'
<1> DEFINE x == focus.thing
<1>1. focus # NoFocus /\ focus.row \in DOMAIN doc.tracks /\ focus' = focus /\ pasted' = pasted
  BY DEF InspectTime, Inspect
<1>2. /\ Inspected \in Tracks /\ x \in Made(doc) /\ x \in Things
      /\ {x} \subseteq Things /\ {x} \subseteq Made(doc) /\ doc.t[x] \in Int /\ doc \in Document
  BY <1>1, InspectedMade, PageIs
<1>3. CASE x \in Cues
  <2> DEFINE from == Just(x, doc.t[x])
             to == Just(x, t)
             was == [y \in {x} |-> At(from[y], Keep, Keep)]
             c == MoveCues(Inspected, from, to)
  <2>1. from \in [{x} -> Int] /\ to \in [{x} -> Int] /\ \A y \in {x} : from[y] = doc.t[y]
    BY <1>2 DEF Just
  <2>2. Run(doc, <<c>>)
    BY <1>3 DEF InspectTime, Inspect
  <2> HIDE DEF from, to
  <2>3. Changes(c, Inspected, was)
    BY <1>2, <2>1, MoveCuesIs
  <2>4. Says(was, doc) /\ DOMAIN was = {x}
    BY <1>2, <2>1, MoveSays
  <2> HIDE DEF was, c
  <2>5. QED
    BY <1>1, <1>2, <2>2, <2>3, <2>4, PlainChangeHolds
<1>4. CASE x \notin Cues
  <2> DEFINE was == Just(x, At(doc.t[x], Keep, Keep))
             will == Just(x, At(t, Keep, Keep))
             c == MovePoints(Inspected, was, will)
  <2>1. At(doc.t[x], Keep, Keep) \in Attr /\ At(t, Keep, Keep) \in Attr
    BY <1>2, AtIs
  <2>2. was \in [{x} -> Attr] /\ will \in [{x} -> Attr] /\ DOMAIN was = {x}
    BY <2>1 DEF Just
  <2>3. \A y \in {x} : /\ was[y]["t"] = doc.t[y] /\ was[y]["size"] = Keep /\ was[y]["level"] = Keep
                       /\ will[y]["t"] = t /\ will[y]["size"] = Keep /\ will[y]["level"] = Keep
    BY DEF Just, At
  <2>4. Run(doc, <<c>>)
    BY <1>4 DEF InspectTime, Inspect
  <2> HIDE DEF was, will
  <2>5. \A y \in {x} : \A f \in Fields : was[y][f] = Keep <=> will[y][f] = Keep
    <3> TAKE y \in {x}
    <3>1. was[y]["t"] # Keep /\ will[y]["t"] # Keep
      BY <1>2, <2>3, EditingAssumption
    <3>2. QED
      BY <2>3, <3>1, FieldByField
  <2>6. Changes(c, Inspected, was)
    BY <1>2, <2>2, <2>5, MovePointsIs
  <2>7. Says(was, doc)
    BY <1>2, <2>2, <2>3, SaysIf
  <2> HIDE DEF c
  <2>8. QED
    BY <1>1, <1>2, <2>2, <2>4, <2>6, <2>7, PlainChangeHolds
<1>5. QED
  BY <1>3, <1>4

LEMMA InspectLengthHolds ==
    ASSUME PageInv, NEW size \in Int, InspectLength(size)
    PROVE  PageInv'
<1> DEFINE x == focus.thing
           was == [y \in {x} |-> At(Keep, doc.size[x], Keep)]
           c == ResizeCues(Inspected, x, doc.size[x], size, MinLength)
<1>1. /\ focus # NoFocus /\ focus.row \in DOMAIN doc.tracks /\ focus' = focus /\ pasted' = pasted
      /\ Run(doc, <<c>>)
  BY DEF InspectLength, Inspect
<1>2. /\ Inspected \in Tracks /\ x \in Made(doc) /\ x \in Things
      /\ {x} \subseteq Made(doc) /\ doc.size[x] \in Nat /\ doc \in Document /\ MinLength \in Nat
  BY <1>1, InspectedMade, PageIs, EditingAssumption
<1>3. Changes(c, Inspected, was)
  BY <1>2, ResizeCuesIs
<1>4. Says(was, doc) /\ DOMAIN was = {x}
  BY <1>2, ResizeSays
<1> HIDE DEF was, c
<1>5. QED
  BY <1>1, <1>2, <1>3, <1>4, PlainChangeHolds

LEMMA ToggleSpanHolds ==
    ASSUME PageInv, NEW k \in Tracks, NEW x \in On(doc, k), ToggleSpan(k, x)
    PROVE  PageInv'
<1>1. x \in Made(doc) /\ x \in Things /\ {x} \subseteq Made(doc) /\ doc.size[x] \in Nat /\ doc \in Document
  BY PageIs
<1>2. 0 \in Nat /\ 0 \in Int /\ DefaultLength \in Int /\ MinLength \in Nat
  BY EditingAssumption
<1>3. focus' = focus /\ pasted' = pasted
  BY DEF ToggleSpan
<1>4. CASE IsSpan(doc, x)
  <2> DEFINE was == [y \in {x} |-> At(Keep, doc.size[x], Keep)]
             c == ResizeCues(k, x, doc.size[x], 0, 0)
  <2>1. Run(doc, <<c>>)
    BY <1>4 DEF ToggleSpan
  <2>2. Changes(c, k, was)
    BY <1>1, <1>2, ResizeCuesIs
  <2>3. Says(was, doc) /\ DOMAIN was = {x}
    BY <1>1, ResizeSays
  <2> HIDE DEF was, c
  <2>4. QED
    BY <1>1, <1>3, <2>1, <2>2, <2>3, PlainChangeHolds
<1>5. CASE ~IsSpan(doc, x)
  <2> DEFINE was == [y \in {x} |-> At(Keep, doc.size[x], Keep)]
             c == ResizeCues(k, x, doc.size[x], DefaultLength, MinLength)
  <2>1. doc.size[x] = 0
    BY <1>1, <1>5 DEF IsSpan
  <2>2. Run(doc, <<ResizeCues(k, x, 0, DefaultLength, MinLength)>>)
    BY <1>5 DEF ToggleSpan
  <2>3. Run(doc, <<c>>)
    BY <2>1, <2>2
  <2>4. Changes(c, k, was)
    BY <1>1, <1>2, ResizeCuesIs
  <2>5. Says(was, doc) /\ DOMAIN was = {x}
    BY <1>1, ResizeSays
  <2> HIDE DEF was, c
  <2>6. QED
    BY <1>1, <1>3, <2>3, <2>4, <2>5, PlainChangeHolds
<1>6. QED
  BY <1>4, <1>5

\* Points are set to other levels where they are.
LEMMA LevelsHold ==
    ASSUME PageInv, NEW k \in Tracks, NEW D, D \subseteq Made(doc), NEW to \in [D -> Int],
           Run(doc, <<MovePoints(k, [x \in D |-> At(doc.t[x], Keep, doc.level[x])],
                                    [x \in D |-> At(doc.t[x], Keep, to[x])])>>),
           pasted' = pasted, focus' = focus
    PROVE  PageInv'
<1> DEFINE was == [x \in D |-> At(doc.t[x], Keep, doc.level[x])]
           will == [x \in D |-> At(doc.t[x], Keep, to[x])]
           c == MovePoints(k, was, will)
<1>1. /\ D \subseteq Things /\ doc \in Document
      /\ \A x \in D : x \in Things /\ doc.t[x] \in Int /\ doc.level[x] \in Int
  BY PageIs
<1>2. \A x \in D : At(doc.t[x], Keep, doc.level[x]) \in Attr /\ At(doc.t[x], Keep, to[x]) \in Attr
  BY <1>1, AtIs
<1>3. was \in [D -> Attr] /\ will \in [D -> Attr] /\ DOMAIN was = D
  BY <1>2
<1>4. \A x \in D : /\ was[x]["t"] = doc.t[x] /\ was[x]["size"] = Keep /\ was[x]["level"] = doc.level[x]
                   /\ will[x]["t"] = doc.t[x] /\ will[x]["size"] = Keep /\ will[x]["level"] = to[x]
  BY DEF At
<1>5. Run(doc, <<c>>)
  OBVIOUS
<1> HIDE DEF was, will
<1>6. \A x \in D : \A f \in Fields : was[x][f] = Keep <=> will[x][f] = Keep
  <2> TAKE x \in D
  <2>1. to[x] \in Int /\ doc.t[x] \in Int /\ doc.level[x] \in Int /\ Keep \notin Int
    BY <1>1, EditingAssumption
  <2>2. was[x]["t"] # Keep /\ will[x]["t"] # Keep /\ was[x]["level"] # Keep /\ will[x]["level"] # Keep
    BY <1>4, <2>1
  <2>3. QED
    BY <1>4, <2>2, FieldByField
<1>7. Changes(c, k, was)
  BY <1>1, <1>3, <1>6, MovePointsIs
<1>8. Says(was, doc)
  BY <1>1, <1>3, <1>4, SaysIf
<1> HIDE DEF c
<1>9. QED
  BY <1>3, <1>5, <1>7, <1>8, PlainChangeHolds

LEMMA SetLevelsHolds ==
    ASSUME PageInv, NEW k \in Tracks, NEW D, D \subseteq Made(doc), NEW to \in [D -> Int],
           SetLevels(k, to), pasted' = pasted, focus' = focus
    PROVE  PageInv'
<1>1. DOMAIN to = D
  OBVIOUS
<1>2. Run(doc, <<MovePoints(k, [x \in D |-> At(doc.t[x], Keep, doc.level[x])],
                               [x \in D |-> At(doc.t[x], Keep, to[x])])>>)
  BY <1>1 DEF SetLevels
<1>3. QED
  BY <1>2, LevelsHold

LEMMA ScaleAmplitudeHolds ==
    ASSUME PageInv, NEW k \in Tracks, NEW D, D \subseteq On(doc, k), NEW to \in [D -> Levels], ScaleAmplitude(k, to)
    PROVE  PageInv'
<1>1. D \subseteq Made(doc)
  BY PageIs
<1>2. SetLevels(k, to) /\ pasted' = pasted /\ focus' = focus
  BY DEF ScaleAmplitude
<1>3. to \in [D -> Int]
  BY DEF Levels
<1>4. QED
  BY <1>1, <1>2, <1>3, SetLevelsHolds

LEMMA SmoothPointsHolds ==
    ASSUME PageInv, NEW k \in Tracks, NEW S, SmoothPoints(k, S)
    PROVE  PageInv'
<1> DEFINE s == doc.on[k]
           inner == {i \in 2..(Len(s) - 1) : s[i] \in S}
           mean(i) == (doc.level[s[i - 1]] + 2 * doc.level[s[i]] + doc.level[s[i + 1]]) \div 4
           place(x) == CHOOSE i \in inner : s[i] = x
           T == {s[i] : i \in inner}
           to == [x \in T |-> mean(place(x))]
<1>1. SetLevels(k, to) /\ pasted' = pasted /\ focus' = focus
  BY Zenon DEF SmoothPoints
<1>2. s \in Seq(Things) /\ doc.level \in [Things -> Int] /\ On(doc, k) \subseteq Made(doc)
  BY PageIs DEF Document
<1>3. Len(s) \in Nat /\ DOMAIN s = 1..Len(s) /\ \A i \in 1..Len(s) : doc.level[s[i]] \in Int
  BY <1>2
<1>4. \A i \in inner : mean(i) \in Int
  <2> SUFFICES ASSUME NEW i \in inner PROVE mean(i) \in Int
    OBVIOUS
  <2>1. i \in 1..Len(s) /\ i - 1 \in 1..Len(s) /\ i + 1 \in 1..Len(s)
    BY <1>3
  <2> DEFINE a == doc.level[s[i - 1]]
             m == doc.level[s[i]]
             z == doc.level[s[i + 1]]
  <2>2. a \in Int /\ m \in Int /\ z \in Int
    BY <1>3, <2>1
  <2> HIDE DEF a, m, z
  <2>3. (a + 2 * m + z) \div 4 \in Int
    BY <2>2
  <2>4. QED
    BY <2>3 DEF a, m, z
<1>5. \A x \in T : place(x) \in inner
  OBVIOUS
<1>6. T \subseteq On(doc, k)
  <2>1. \A i \in inner : i \in DOMAIN s
    BY <1>3
  <2>2. QED
    BY <2>1 DEF On, ToSet
<1> HIDE DEF mean, place, T
<1>7. to \in [T -> Int]
  <2>1. \A x \in T : mean(place(x)) \in Int
    BY <1>4, <1>5, Zenon
  <2>2. QED
    BY <2>1
<1> HIDE DEF to
<1>8. T \subseteq Made(doc)
  BY <1>2, <1>6
<1>9. QED
  BY <1>1, <1>7, <1>8, SetLevelsHolds

LEMMA InspectValueHolds ==
    ASSUME PageInv, NEW level \in Int, InspectValue(level)
    PROVE  PageInv'
<1> DEFINE x == focus.thing
           was == Just(x, At(doc.t[x], Keep, doc.level[x]))
           will == Just(x, At(doc.t[x], Keep, level))
           c == MovePoints(Inspected, was, will)
<1>1. /\ focus # NoFocus /\ focus.row \in DOMAIN doc.tracks /\ focus' = focus /\ pasted' = pasted
      /\ Run(doc, <<c>>)
  BY DEF InspectValue, Inspect
<1>2. /\ Inspected \in Tracks /\ x \in Made(doc) /\ x \in Things /\ doc \in Document
      /\ {x} \subseteq Things /\ {x} \subseteq Made(doc) /\ doc.t[x] \in Int /\ doc.level[x] \in Int
  BY <1>1, InspectedMade, PageIs
<1>3. At(doc.t[x], Keep, doc.level[x]) \in Attr /\ At(doc.t[x], Keep, level) \in Attr
  BY <1>2, AtIs
<1>4. was \in [{x} -> Attr] /\ will \in [{x} -> Attr] /\ DOMAIN was = {x}
  BY <1>3 DEF Just
<1>5. \A y \in {x} : /\ was[y]["t"] = doc.t[y] /\ was[y]["size"] = Keep /\ was[y]["level"] = doc.level[y]
                     /\ will[y]["t"] = doc.t[y] /\ will[y]["size"] = Keep /\ will[y]["level"] = level
  BY DEF Just, At
<1> HIDE DEF was, will
<1>6. \A y \in {x} : \A f \in Fields : was[y][f] = Keep <=> will[y][f] = Keep
  <2> TAKE y \in {x}
  <2>1. doc.t[y] \in Int /\ doc.level[y] \in Int /\ Keep \notin Int
    BY <1>2, EditingAssumption
  <2>2. was[y]["t"] # Keep /\ will[y]["t"] # Keep /\ was[y]["level"] # Keep /\ will[y]["level"] # Keep
    BY <1>5, <2>1
  <2>3. QED
    BY <1>5, <2>2, FieldByField
<1>7. Changes(c, Inspected, was)
  BY <1>2, <1>4, <1>6, MovePointsIs
<1>8. Says(was, doc)
  BY <1>2, <1>4, <1>5, SaysIf
<1> HIDE DEF c
<1>9. QED
  BY <1>1, <1>2, <1>4, <1>7, <1>8, PlainChangeHolds

\* A parameter of a cue is written to the document itself; undo says nothing of it.
LEMMA InspectParamHolds ==
    ASSUME PageInv, NEW level \in Int, InspectParam(level)
    PROVE  PageInv'
<1> DEFINE x == focus.thing
           v == Just(x, At(Keep, Keep, level))
           made == Put(doc, v)
           now == Just(x, doc.t[x])
           was == [y \in {x} |-> At(now[y], Keep, Keep)]
           c == MoveCues(Inspected, now, now)
<1>1. /\ focus # NoFocus /\ focus.row \in DOMAIN doc.tracks /\ focus' = focus /\ pasted' = pasted
      /\ Run(made, <<c>>) /\ x \in Cues
  BY DEF InspectParam, Inspect
<1>2. /\ Inspected \in Tracks /\ x \in Made(doc) /\ x \in Things /\ doc \in Document /\ doc \in Scores
      /\ {x} \subseteq Things /\ {x} \subseteq Made(doc) /\ doc.t[x] \in Int /\ Made(doc) \subseteq Things
      /\ \A k \in Tracks : On(doc, k) \subseteq Made(doc)
  BY <1>1, InspectedMade, PageIs
<1>3. v \in Values /\ DOMAIN v = {x}
  <2>1. At(Keep, Keep, level) \in Attr
    BY AtIs
  <2>2. v \in [{x} -> Attr] /\ DOMAIN v = {x}
    BY <2>1 DEF Just
  <2> HIDE DEF v
  <2>3. QED
    BY <1>2, <2>2 DEF Values
<1>4. v[x]["t"] = Keep /\ v[x]["size"] = Keep
  BY DEF Just, At
<1> HIDE DEF v
<1>5. /\ made \in Document /\ made.tracks = doc.tracks /\ made.on = doc.on
      /\ \A y \in Things : \A f \in Fields :
            made[f][y] = IF y \in DOMAIN v /\ v[y][f] # Keep THEN v[y][f] ELSE doc[f][y]
  BY <1>2, <1>3, PutIs
<1> HIDE DEF made
<1>6. \A y \in Things : \A f \in Fields : f # "level" \/ y # x => made[f][y] = doc[f][y]
  <2> TAKE y \in Things
  <2> TAKE f \in Fields
  <2>1. CASE y # x
    BY <1>3, <1>5, <2>1
  <2>2. CASE y = x /\ f = "t"
    BY <1>4, <1>5, <2>2
  <2>3. CASE y = x /\ f = "size"
    BY <1>4, <1>5, <2>3
  <2>4. QED
    BY <2>1, <2>2, <2>3 DEF Fields
<1>7. made.t = made["t"] /\ doc.t = doc["t"] /\ "t" \in Fields
  BY <1>2, <1>5, FieldsOf DEF Fields
<1>8. \A y \in Things : made.t[y] = doc.t[y]
  BY <1>6, <1>7
<1>9. Made(made) = Made(doc)
  BY <1>8 DEF Made
<1>10. \A k \in Tracks : On(made, k) = On(doc, k)
  BY <1>5 DEF On
<1>11. made \in Scores
  BY <1>2, <1>5, <1>9, <1>10 DEF Scores
<1>12. Matches(TRUE, made, doc)
  <2>1. ASSUME NEW y \in Made(doc), NEW f \in Fields, Spoken(f, y) PROVE made[f][y] = doc[f][y]
    <3>1. y \in Things /\ (f = "level" => y # x)
      BY <1>1, <1>2, <2>1, EditingAssumption DEF Spoken
    <3>2. QED
      BY <1>6, <3>1
  <2>2. QED
    BY <1>5, <1>9, <1>10, <2>1 DEF Matches
<1>13. now \in [{x} -> Int] /\ \A y \in {x} : now[y] = doc.t[y]
  BY <1>2 DEF Just
<1> HIDE DEF now
<1>14. Changes(c, Inspected, was)
  BY <1>2, <1>13, MoveCuesIs
<1>15. Says(was, made) /\ DOMAIN was = {x}
  <2>1. \A y \in {x} : now[y] = made.t[y]
    BY <1>2, <1>8, <1>13
  <2>2. QED
    BY <1>5, <2>1, MoveSays
<1> HIDE DEF was, c
<1>16. DOMAIN was \subseteq Made(made)
  BY <1>2, <1>9, <1>15
<1>17. QED
  BY <1>1, <1>11, <1>12, <1>14, <1>15, <1>16, ChangeHolds

-----------------------------------------------------------------------------
(* The commands that change what is on a track *)

Moves(c, kind, k, T) ==
    c \in AnyCommands /\ c.k = kind /\ c.track = k /\ ToSet(c.things) = T /\ DOMAIN c.was = {}

LEMMA ListCommandIs ==
    ASSUME NEW kind \in Kinds \ Sets, NEW k \in Tracks, NEW s \in Seq(Things), NEW at \in Nat,
           kind = "removeTrack" => at >= 1
    PROVE  Moves(ListCommand(kind, k, s, at), kind, k, ToSet(s)) /\ ListCommand(kind, k, s, at).at = at
<1> DEFINE c == ListCommand(kind, k, s, at)
<1>1. c = [k |-> kind, track |-> k, was |-> Nothing, will |-> Nothing, things |-> s, at |-> at]
  BY DEF ListCommand
<1>2. Nothing \in Values /\ DOMAIN Nothing = {}
  <2>1. Nothing \in [{} -> Attr]
    BY DEF Nothing
  <2>2. QED
    BY <2>1 DEF Values
<1>3. c \in [k : Kinds, track : Tracks, was : Values, will : Values, things : Seq(Things), at : Nat]
  BY <1>1, <1>2
<1>4. /\ c.k = kind /\ c.track = k /\ c.was = Nothing /\ c.will = Nothing /\ c.things = s /\ c.at = at
  BY <1>1
<1> HIDE DEF c
<1>5. c \in AnyCommands
  BY <1>2, <1>3, <1>4 DEF AnyCommands
<1>6. Moves(c, kind, k, ToSet(s)) /\ c.at = at
  BY <1>2, <1>4, <1>5 DEF Moves
<1>7. QED
  BY <1>6 DEF c

\* No curve is left with a single point.
Clears(d, k, T) == T \subseteq On(d, k) /\ (k \in CurveTracks => \A x \in Things : On(d, k) \ T # {x})

LEMMA OrphansGo ==
    ASSUME NEW d \in Scores, NEW k \in Tracks, NEW S, S \subseteq On(d, k)
    PROVE  Clears(d, k, WithOrphans(d, k, S)) /\ S \subseteq WithOrphans(d, k, S)
<1>1. CASE k \in CurveTracks /\ Cardinality(On(d, k) \ S) = 1
  <2>1. WithOrphans(d, k, S) = On(d, k)
    BY <1>1 DEF WithOrphans
  <2>2. \A x \in Things : On(d, k) \ On(d, k) # {x}
    OBVIOUS
  <2>3. QED
    BY <2>1, <2>2 DEF Clears
<1>2. CASE ~(k \in CurveTracks /\ Cardinality(On(d, k) \ S) = 1)
  <2>1. WithOrphans(d, k, S) = S
    BY <1>2 DEF WithOrphans
  <2>2. \A x : Cardinality({x}) = 1
    BY FS_Singleton
  <2>3. ASSUME k \in CurveTracks, NEW x \in Things, On(d, k) \ S = {x} PROVE FALSE
    BY <1>2, <2>2, <2>3
  <2>4. QED
    BY <2>1, <2>3 DEF Clears
<1>3. QED
  BY <1>1, <1>2

LEMMA RemoveThingsIs ==
    ASSUME NEW d \in Scores, NEW k \in Tracks, NEW S, S \subseteq On(d, k)
    PROVE  Moves(RemoveThings(d, k, S), "remove", k, WithOrphans(d, k, S))
<1> DEFINE T == WithOrphans(d, k, S)
           s == Among(d.on[k], T)
<1>1. d.on[k] \in Seq(Things) /\ On(d, k) = ToSet(d.on[k])
  BY ScoreIs
<1>2. T \subseteq On(d, k)
  BY OrphansGo DEF Clears
<1> HIDE DEF T
<1>3. s \in Seq(Things) /\ ToSet(s) = ToSet(d.on[k]) \cap T
  BY <1>1, AmongKeeps
<1>4. ToSet(s) = T
  BY <1>1, <1>2, <1>3
<1> HIDE DEF s
<1>5. "remove" \in Kinds \ Sets /\ 0 \in Nat
  BY DEF Kinds, Sets
<1>6. Moves(ListCommand("remove", k, s, 0), "remove", k, T)
  BY <1>3, <1>4, <1>5, ListCommandIs
<1>7. QED
  BY <1>6 DEF RemoveThings, s, T

LEMMA InsertThingsIs ==
    ASSUME NEW k \in Tracks, NEW F, F \subseteq Things, IsFiniteSet(F)
    PROVE  Moves(InsertThings(k, F), "insert", k, F)
<1>1. SetToSeq(F) \in Seq(Things) /\ ToSet(SetToSeq(F)) = F
  BY SetToSeqType
<1>2. "insert" \in Kinds \ Sets /\ 0 \in Nat
  BY DEF Kinds, Sets
<1>3. Moves(ListCommand("insert", k, SetToSeq(F), 0), "insert", k, ToSet(SetToSeq(F)))
  BY <1>1, <1>2, ListCommandIs
<1>4. QED
  BY <1>1, <1>3 DEF InsertThings

\* What is on one track becomes something else.
Relisted(d, r, k, T) ==
    /\ r \in Scores /\ Made(r) = Made(d) /\ r.tracks = d.tracks
    /\ On(r, k) = T /\ \A j \in Tracks \ {k} : On(r, j) = On(d, j)

LEMMA RelistedOk ==
    ASSUME NEW d, NEW P, Ok(d, P), NEW Q, P \subseteq Q, NEW k \in Tracks, NEW T, NEW r, Relisted(d, r, k, T),
           \A j \in Tracks \ {k} : T \cap On(d, j) = {},
           k \in CurveTracks => \A x \in Things : T = {x} => x \in Q
    PROVE  Ok(r, Q)
<1>1. r \in Scores /\ \A i, j \in 1..Len(r.tracks) : r.tracks[i] = r.tracks[j] => i = j
  BY DEF Relisted, Ok
<1>2. On(r, k) = T /\ \A j \in Tracks \ {k} : On(r, j) = On(d, j)
  BY DEF Relisted
<1>3. \A i \in Tracks : \A j \in Tracks \ {i} : On(d, i) \cap On(d, j) = {}
  BY DEF Ok
<1>4. ASSUME NEW i \in Tracks, NEW j \in Tracks \ {i} PROVE On(r, i) \cap On(r, j) = {}
  <2>1. CASE i = k
    BY <1>2, <2>1
  <2>2. CASE j = k
    <3>1. On(r, i) = On(d, i) /\ T \cap On(d, i) = {}
      BY <1>2, <2>2
    <3>2. QED
      BY <1>2, <2>2, <3>1
  <2>3. CASE i # k /\ j # k
    BY <1>2, <1>3, <2>3
  <2>4. QED
    BY <2>1, <2>2, <2>3
<1>5. ASSUME NEW j \in CurveTracks, NEW x \in Things, On(r, j) = {x} PROVE x \in Q
  <2>1. CASE j = k
    BY <1>2, <1>5, <2>1
  <2>2. CASE j # k
    <3>1. On(d, j) = {x}
      BY <1>2, <1>5, <2>2 DEF Tracks
    <3>2. x \in P
      BY <3>1 DEF Ok
    <3>3. QED
      BY <3>2
  <2>3. QED
    BY <2>1, <2>2
<1>6. QED
  BY <1>1, <1>4, <1>5 DEF Ok

LEMMA RemoveGoes ==
    ASSUME NEW d, NEW P, Ok(d, P), NEW c, NEW k \in Tracks, NEW T, Moves(c, "remove", k, T), Clears(d, k, T),
           NEW h \in BOOLEAN
    PROVE  /\ Fits(TRUE, h, c, d) /\ Ok(ApplyOne(d, c), P)
           /\ Relisted(d, ApplyOne(d, c), k, On(d, k) \ T)
<1> DEFINE r == ApplyOne(d, c)
<1>1. c \in AnyCommands /\ c.k = "remove" /\ c.track = k /\ ToSet(c.things) = T /\ DOMAIN c.was = {}
  BY DEF Moves
<1>2. d \in Scores /\ On(d, k) \subseteq Made(d) /\ T \subseteq On(d, k)
  BY ScoreIs DEF Ok, Clears
<1>3. Known(c, d)
  BY <1>1, <1>2 DEF Known
<1>4. /\ Takes(TRUE, c) /\ ~Puts(TRUE, c) /\ ~Adds(TRUE, c) /\ ~Drops(TRUE, c) /\ c.k \notin Sets
  BY <1>1 DEF Takes, Puts, Adds, Drops, Sets
<1>5. Fits(TRUE, h, c, d)
  BY <1>1, <1>2, <1>3, <1>4 DEF Fits
<1>6. r = OneTurn(TRUE, d, c)
  BY DEF OneTurn
<1> HIDE DEF r
<1>7. Effect(TRUE, d, c, r)
  BY <1>1, <1>2, <1>3, <1>6, TurnIs
<1>8. /\ r \in Scores /\ Made(r) = Made(d) /\ r.tracks = d.tracks
      /\ On(r, k) = On(d, k) \ T /\ \A j \in Tracks \ {k} : On(r, j) = On(d, j)
  BY <1>1, <1>4, <1>7 DEF Effect
<1>9. Relisted(d, r, k, On(d, k) \ T)
  BY <1>8 DEF Relisted
<1>10. Ok(r, P)
  <2>1. \A j \in Tracks \ {k} : (On(d, k) \ T) \cap On(d, j) = {}
    BY DEF Ok
  <2>2. k \in CurveTracks => \A x \in Things : On(d, k) \ T = {x} => x \in P
    BY DEF Clears
  <2>3. QED
    BY <1>9, <2>1, <2>2, RelistedOk
<1>11. QED
  BY <1>5, <1>9, <1>10 DEF r

\* What is put there is nowhere yet.
Unplaced(d, F) == F \subseteq Made(d) /\ \A j \in Tracks : F \cap On(d, j) = {}

LEMMA InsertGoes ==
    ASSUME NEW d, NEW P, Ok(d, P), NEW Q, P \subseteq Q, NEW c, NEW k \in Tracks, NEW F, Moves(c, "insert", k, F),
           Unplaced(d, F), k \in CurveTracks => \A x \in Things : On(d, k) \cup F = {x} => x \in Q,
           NEW h \in BOOLEAN
    PROVE  /\ Fits(TRUE, h, c, d) /\ Ok(ApplyOne(d, c), Q)
           /\ Relisted(d, ApplyOne(d, c), k, On(d, k) \cup F)
<1> DEFINE r == ApplyOne(d, c)
<1>1. c \in AnyCommands /\ c.k = "insert" /\ c.track = k /\ ToSet(c.things) = F /\ DOMAIN c.was = {}
  BY DEF Moves
<1>2. d \in Scores /\ F \subseteq Made(d) /\ \A j \in Tracks : F \cap On(d, j) = {}
  BY DEF Ok, Unplaced
<1>3. Known(c, d)
  BY <1>1, <1>2 DEF Known
<1>4. /\ ~Takes(TRUE, c) /\ Puts(TRUE, c) /\ ~Adds(TRUE, c) /\ ~Drops(TRUE, c) /\ c.k \notin Sets
  BY <1>1 DEF Takes, Puts, Adds, Drops, Sets
<1>5. Fits(TRUE, h, c, d)
  BY <1>1, <1>2, <1>3, <1>4 DEF Fits
<1>6. r = OneTurn(TRUE, d, c)
  BY DEF OneTurn
<1> HIDE DEF r
<1>7. Effect(TRUE, d, c, r)
  BY <1>1, <1>2, <1>3, <1>6, TurnIs
<1>8. /\ r \in Scores /\ Made(r) = Made(d) /\ r.tracks = d.tracks
      /\ On(r, k) = On(d, k) \cup F /\ \A j \in Tracks \ {k} : On(r, j) = On(d, j)
  BY <1>1, <1>4, <1>7 DEF Effect
<1>9. Relisted(d, r, k, On(d, k) \cup F)
  BY <1>8 DEF Relisted
<1>10. Ok(r, Q)
  <2>1. \A j \in Tracks \ {k} : (On(d, k) \cup F) \cap On(d, j) = {}
    BY <1>2 DEF Ok
  <2>2. QED
    BY <1>9, <2>1, RelistedOk
<1>11. QED
  BY <1>5, <1>9, <1>10 DEF r

LEMMA OneHolds ==
    ASSUME PageInv, NEW made \in Scores, Matches(TRUE, made, doc),
           NEW c \in AnyCommands, Fits(TRUE, TRUE, c, made), Run(made, <<c>>),
           Ok(ApplyOne(made, c), pasted'), pasted \subseteq pasted', focus' = focus
    PROVE  PageInv'
<1>1. /\ <<c>> \in Seq(AnyCommands) /\ Goes(TRUE, TRUE, <<c>>, made)
      /\ Outcome(TRUE, made, <<c>>) = OneTurn(TRUE, made, c)
  BY GoesOne
<1>2. Apply(made, <<c>>) = ApplyOne(made, c)
  BY <1>1 DEF Outcome, OneTurn
<1>3. Ok(Apply(made, <<c>>), pasted')
  BY <1>2
<1>4. QED
  BY <1>1, <1>3, RunHolds

LEMMA AppendTwo == ASSUME NEW b, NEW c PROVE Append(<<c>>, b) = <<c, b>>
<1> DEFINE S == {b, c}
<1>1. b \in S /\ c \in S /\ <<c>> \in Seq(S) /\ <<c, b>> \in Seq(S)
  OBVIOUS
<1>2. Len(<<c>>) = 1 /\ Len(<<c, b>>) = 2 /\ <<c>>[1] = c /\ <<c, b>>[1] = c /\ <<c, b>>[2] = b
  OBVIOUS
<1> HIDE DEF S
<1>3. /\ Append(<<c>>, b) \in Seq(S) /\ Len(Append(<<c>>, b)) = 2
      /\ Append(<<c>>, b)[1] = c /\ Append(<<c>>, b)[2] = b
  BY <1>1, <1>2, AppendProperties
<1>4. \A i \in 1..2 : Append(<<c>>, b)[i] = <<c, b>>[i]
  BY <1>2, <1>3
<1>5. QED
  BY <1>1, <1>2, <1>3, <1>4, SeqEqual

LEMMA TwoHolds ==
    ASSUME PageInv, NEW made \in Scores, Matches(TRUE, made, doc),
           NEW c \in AnyCommands, Fits(TRUE, TRUE, c, made),
           NEW b \in AnyCommands, Fits(TRUE, TRUE, b, ApplyOne(made, c)),
           Run(made, <<c, b>>), Ok(ApplyOne(ApplyOne(made, c), b), pasted'), pasted \subseteq pasted', focus' = focus
    PROVE  PageInv'
<1>1. /\ <<c>> \in Seq(AnyCommands) /\ Goes(TRUE, TRUE, <<c>>, made)
      /\ Outcome(TRUE, made, <<c>>) = OneTurn(TRUE, made, c)
  BY GoesOne
<1>2. Apply(made, <<c>>) = ApplyOne(made, c)
  BY <1>1 DEF Outcome, OneTurn
<1>3. Fits(TRUE, TRUE, b, Apply(made, <<c>>))
  BY <1>2
<1>4. /\ Append(<<c>>, b) \in Seq(AnyCommands) /\ Goes(TRUE, TRUE, Append(<<c>>, b), made)
      /\ Apply(made, Append(<<c>>, b)) = ApplyOne(Apply(made, <<c>>), b)
  BY <1>1, <1>3, GoesMore
<1>5. Append(<<c>>, b) = <<c, b>>
  BY AppendTwo
<1>6. <<c, b>> \in Seq(AnyCommands) /\ Goes(TRUE, TRUE, <<c, b>>, made) /\ Ok(Apply(made, <<c, b>>), pasted')
  BY <1>2, <1>4, <1>5
<1>7. QED
  BY <1>6, RunHolds

\* Things are made for an edit.
LEMMA MadeIs ==
    ASSUME PageInv, NEW F, NEW v, Makes(v, F), NEW made, made = Make(v)
    PROVE  /\ made \in Scores /\ Matches(TRUE, made, doc) /\ Ok(made, pasted) /\ Unplaced(made, F)
           /\ \A k \in Tracks : On(made, k) = On(doc, k)
<1>1. /\ doc \in Document /\ doc \in Scores /\ Ok(doc, pasted)
      /\ \A k \in Tracks : On(doc, k) \subseteq Made(doc)
  BY PageIs
<1>m. F \subseteq Unmade /\ v \in [F -> Attr] /\ \A x \in F : v[x].t \in Int
  BY DEF Makes
<1>2. F \subseteq Things /\ F \cap Made(doc) = {}
  BY <1>m DEF Unmade, Made
<1>3. v \in Values /\ DOMAIN v = F
  BY <1>2, <1>m DEF Values
<1>4. /\ made \in Document /\ made.tracks = doc.tracks /\ made.on = doc.on
      /\ \A y \in Things : \A f \in Fields :
            made[f][y] = IF y \in F /\ v[y][f] # Keep THEN v[y][f] ELSE doc[f][y]
  <2>1. made = Put(doc, v)
    BY DEF Make
  <2>2. QED
    BY <1>1, <1>3, <2>1, PutIs
<1>5. \A x \in F : v[x]["t"] \in Int
  BY <1>m
<1>6. \A y \in Things \ F : \A f \in Fields : made[f][y] = doc[f][y]
  BY <1>4
<1>7. made.t = made["t"] /\ doc.t = doc["t"] /\ "t" \in Fields
  BY <1>1, <1>4, FieldsOf DEF Fields
<1>8. \A y \in Things \ F : made.t[y] = doc.t[y]
  BY <1>6, <1>7
<1>9. \A y \in F : made.t[y] \in Int
  <2> TAKE y \in F
  <2>1. v[y]["t"] \in Int /\ v[y]["t"] # Keep /\ y \in Things
    BY <1>2, <1>5, EditingAssumption
  <2>2. made["t"][y] = v[y]["t"]
    BY <1>4, <1>7, <2>1
  <2>3. QED
    BY <1>7, <2>1, <2>2
<1>10. Made(made) = Made(doc) \cup F
  <2>1. \A y \in F : made.t[y] # Keep
    BY <1>9, EditingAssumption
  <2>2. QED
    BY <1>2, <1>8, <2>1 DEF Made
<1>11. \A k \in Tracks : On(made, k) = On(doc, k)
  BY <1>4 DEF On
<1>12. made \in Scores
  BY <1>1, <1>4, <1>10, <1>11 DEF Scores
<1>13. Matches(TRUE, made, doc)
  <2>1. \A y \in Made(doc) : y \in Things \ F
    BY <1>2 DEF Made
  <2>2. QED
    BY <1>4, <1>6, <1>10, <1>11, <2>1 DEF Matches
<1>14. Ok(made, pasted)
  BY <1>1, <1>12, <1>13, OkAlike
<1>15. Unplaced(made, F)
  BY <1>1, <1>2, <1>10, <1>11 DEF Unplaced
<1>16. QED
  BY <1>11, <1>12, <1>13, <1>14, <1>15

\* What is made is put on a track.
LEMMA MakeHolds ==
    ASSUME PageInv, NEW k \in Tracks, NEW F, NEW v, Makes(v, F), Run(Make(v), <<InsertThings(k, F)>>),
           k \in CurveTracks => \A x \in Things : On(doc, k) \cup F = {x} => x \in pasted',
           pasted \subseteq pasted', focus' = focus
    PROVE  PageInv'
<1> DEFINE made == Make(v)
           c == InsertThings(k, F)
<1>1. /\ made \in Scores /\ Matches(TRUE, made, doc) /\ Ok(made, pasted) /\ Unplaced(made, F)
      /\ On(made, k) = On(doc, k)
  BY MadeIs
<1>2. F \subseteq Things /\ IsFiniteSet(F)
  BY DEF Unmade, Makes
<1>3. Moves(c, "insert", k, F)
  BY <1>2, InsertThingsIs
<1> HIDE DEF made, c
<1>4. k \in CurveTracks => \A x \in Things : On(made, k) \cup F = {x} => x \in pasted'
  BY <1>1
<1>5. Fits(TRUE, TRUE, c, made) /\ Ok(ApplyOne(made, c), pasted')
  BY <1>1, <1>3, <1>4, InsertGoes
<1>6. c \in AnyCommands /\ Run(made, <<c>>)
  BY <1>3 DEF Moves, made, c
<1>7. QED
  BY <1>1, <1>5, <1>6, OneHolds

\* It is put there after something else is gone.
LEMMA ReplaceHolds ==
    ASSUME PageInv, NEW k \in Tracks, NEW F, NEW v, Makes(v, F), NEW S, S \subseteq On(doc, k),
           Run(Make(v), <<RemoveThings(doc, k, S), InsertThings(k, F)>>),
           k \in CurveTracks => \A x \in Things : ~(F \subseteq {x}),
           pasted' = pasted, focus' = focus
    PROVE  PageInv'
<1> DEFINE made == Make(v)
           T == WithOrphans(doc, k, S)
           c == RemoveThings(doc, k, S)
           b == InsertThings(k, F)
           r == ApplyOne(made, c)
<1>1. /\ made \in Scores /\ Matches(TRUE, made, doc) /\ Ok(made, pasted) /\ Unplaced(made, F)
      /\ \A j \in Tracks : On(made, j) = On(doc, j)
  BY MadeIs
<1>2. F \subseteq Things /\ IsFiniteSet(F) /\ doc \in Scores
  BY PageIs DEF Unmade, Makes
<1>3. Moves(b, "insert", k, F)
  BY <1>2, InsertThingsIs
<1>4. Moves(c, "remove", k, T) /\ Clears(doc, k, T)
  BY <1>2, RemoveThingsIs, OrphansGo
<1>5. Run(made, <<c, b>>)
  OBVIOUS
<1> HIDE DEF made, c, b, T
<1>6. Clears(made, k, T)
  BY <1>1, <1>4 DEF Clears
<1>7. Fits(TRUE, TRUE, c, made) /\ Ok(r, pasted) /\ Relisted(made, r, k, On(made, k) \ T)
  BY <1>1, <1>4, <1>6, RemoveGoes
<1> HIDE DEF r
<1>8. Unplaced(r, F)
  <2>1. Made(r) = Made(made) /\ On(r, k) \subseteq On(made, k) /\ \A j \in Tracks \ {k} : On(r, j) = On(made, j)
    BY <1>7 DEF Relisted
  <2>2. F \subseteq Made(made) /\ \A j \in Tracks : F \cap On(made, j) = {}
    BY <1>1 DEF Unplaced
  <2>3. \A j \in Tracks : F \cap On(r, j) = {}
    BY <2>1, <2>2
  <2>4. QED
    BY <2>1, <2>2, <2>3 DEF Unplaced
<1>9. k \in CurveTracks => \A x \in Things : On(r, k) \cup F = {x} => x \in pasted
  OBVIOUS
<1>10. Fits(TRUE, TRUE, b, r) /\ Ok(ApplyOne(r, b), pasted)
  BY <1>3, <1>7, <1>8, <1>9, InsertGoes
<1>11. c \in AnyCommands /\ b \in AnyCommands
  BY <1>3, <1>4 DEF Moves
<1>12. Fits(TRUE, TRUE, b, ApplyOne(made, c)) /\ Ok(ApplyOne(ApplyOne(made, c), b), pasted')
  BY <1>10 DEF r
<1>13. QED
  BY <1>1, <1>5, <1>7, <1>11, <1>12, TwoHolds

LEMMA RemoveSomeHolds ==
    ASSUME PageInv, NEW k \in Tracks, NEW S, RemoveSome(k, S)
    PROVE  PageInv'
<1> DEFINE c == RemoveThings(doc, k, S)
           T == WithOrphans(doc, k, S)
<1>1. S \subseteq On(doc, k) /\ Run(doc, <<c>>) /\ pasted' = pasted /\ focus' = focus
  BY DEF RemoveSome
<1>2. doc \in Scores /\ Ok(doc, pasted) /\ Matches(TRUE, doc, doc)
  BY PageIs
<1>3. Moves(c, "remove", k, T) /\ Clears(doc, k, T)
  BY <1>1, <1>2, RemoveThingsIs, OrphansGo
<1> HIDE DEF c, T
<1>4. Fits(TRUE, TRUE, c, doc) /\ Ok(ApplyOne(doc, c), pasted')
  BY <1>1, <1>2, <1>3, RemoveGoes
<1>5. c \in AnyCommands
  BY <1>3 DEF Moves
<1>6. QED
  BY <1>1, <1>2, <1>4, <1>5, OneHolds

LEMMA TwoOf ==
    ASSUME NEW F, Cardinality(F) = 2, NEW x PROVE ~(F \subseteq {x})
<1> SUFFICES ASSUME F \subseteq {x} PROVE FALSE
  OBVIOUS
<1>1. IsFiniteSet({x}) /\ Cardinality({x}) = 1
  BY FS_Singleton
<1>2. Cardinality(F) <= Cardinality({x})
  BY <1>1, FS_Subset
<1>3. QED
  BY <1>1, <1>2

LEMMA AddPointHolds ==
    ASSUME PageInv, NEW k \in CurveTracks, NEW t \in Int, NEW level \in Int, AddPoint(k, t, level)
    PROVE  PageInv'
<1>1. PICK F, v : /\ Makes(v, F) /\ Run(Make(v), <<InsertThings(k, F)>>)
                  /\ Cardinality(F) = IF doc.on[k] = <<>> THEN 2 ELSE 1
  BY AddPointMakes
<1>2. pasted' = pasted /\ focus' = focus
  BY DEF AddPoint
<1>3. k \in Tracks
  BY DEF Tracks
<1>4. ASSUME NEW x \in Things, On(doc, k) \cup F = {x} PROVE FALSE
  <2>1. CASE doc.on[k] = <<>>
    BY <1>1, <1>4, <2>1, TwoOf
  <2>2. CASE doc.on[k] # <<>>
    <3>1. doc.on[k] \in Seq(Things) /\ On(doc, k) = ToSet(doc.on[k]) /\ On(doc, k) \subseteq Made(doc)
      BY <1>3, PageIs, ScoreIs
    <3>2. 1 \in 1..Len(doc.on[k])
      BY <2>2, <3>1
    <3>3. doc.on[k][1] \in On(doc, k)
      <4>1. ToSet(doc.on[k]) = {doc.on[k][i] : i \in 1..Len(doc.on[k])}
        BY <3>1, ToSetOf
      <4>2. QED
        BY <3>1, <3>2, <4>1
    <3>4. F # {}
      <4>1. Cardinality(F) = 1 /\ Cardinality({}) = 0
        BY <1>1, <2>2, FS_EmptySet
      <4>2. QED
        BY <4>1
    <3>5. F \cap Made(doc) = {}
      BY <1>1 DEF Makes, Unmade, Made
    <3>6. x \in F /\ x \in On(doc, k)
      BY <1>4, <3>3, <3>4
    <3>7. QED
      BY <3>1, <3>5, <3>6
  <2>3. QED
    BY <2>1, <2>2
<1>5. QED
  BY <1>1, <1>2, <1>3, <1>4, MakeHolds

LEMMA NoCurve == ASSUME NEW k \in CueTracks PROVE k \in Tracks /\ k \notin CurveTracks
BY EditingAssumption DEF Tracks

LEMMA SplitHolds ==
    ASSUME PageInv, NEW k \in CueTracks, NEW x \in On(doc, k), NEW at \in Int, Split(k, x, at)
    PROVE  PageInv'
<1>1. k \in Tracks /\ k \notin CurveTracks /\ {x} \subseteq On(doc, k)
  BY NoCurve
<1>2. Readable({x})
  BY <1>1, PageIs DEF Readable
<1>3. PICK F, v : Makes(v, F) /\ Run(Make(v), <<RemoveThings(doc, k, {x}), InsertThings(k, F)>>)
  BY <1>2, SplitMakes
<1>4. pasted' = pasted /\ focus' = focus
  BY DEF Split
<1>5. QED
  BY <1>1, <1>3, <1>4, ReplaceHolds

LEMMA DuplicateHolds ==
    ASSUME PageInv, NEW k \in CueTracks, NEW S, Duplicate(k, S)
    PROVE  PageInv'
<1>1. k \in Tracks /\ k \notin CurveTracks
  BY NoCurve
<1>2. S \subseteq On(doc, k) /\ pasted' = pasted /\ focus' = focus
  BY DEF Duplicate
<1>3. Readable(S)
  BY <1>1, <1>2, PageIs DEF Readable
<1>4. PICK F, v : Makes(v, F) /\ Run(Make(v), <<InsertThings(k, F)>>)
  BY <1>3, DuplicateMakes
<1>5. QED
  BY <1>1, <1>2, <1>4, MakeHolds

LEMMA PasteHolds ==
    ASSUME PageInv, NEW k \in Tracks, NEW times \in Seq(Int), NEW size \in Nat, NEW level \in Int,
           Paste(k, times, size, level)
    PROVE  PageInv'
<1>1. PICK F, v : /\ Makes(v, F) /\ Run(Make(v), <<InsertThings(k, F)>>)
                  /\ pasted' = IF k \in CurveTracks THEN pasted \cup F ELSE pasted
  BY PasteMakes
<1>2. focus' = focus
  BY DEF Paste
<1>3. pasted \subseteq pasted'
  BY <1>1
<1>4. ASSUME k \in CurveTracks, NEW x \in Things, On(doc, k) \cup F = {x} PROVE x \in pasted'
  <2>1. pasted' = pasted \cup F
    BY <1>1, <1>4
  <2>2. CASE F = {}
    <3>1. On(doc, k) = {x} /\ Ok(doc, pasted)
      BY <1>4, <2>2, PageIs
    <3>2. x \in pasted
      BY <1>4, <3>1 DEF Ok
    <3>3. QED
      BY <2>1, <3>2
  <2>3. CASE F # {}
    BY <1>4, <2>1, <2>3
  <2>4. QED
    BY <2>2, <2>3
<1>5. QED
  BY <1>1, <1>2, <1>3, <1>4, MakeHolds

LEMMA InsertPresetHolds ==
    ASSUME PageInv, NEW k \in Tracks, NEW at \in Int, NEW long \in Nat, NEW level \in Int,
           InsertPreset(k, at, long, level)
    PROVE  PageInv'
<1>1. PICK F, v, S :
         /\ Makes(v, F) /\ S \subseteq On(doc, k)
         /\ Cardinality(F) = IF k \in CueTracks THEN 1 ELSE 2
         /\ \/ Run(Make(v), <<InsertThings(k, F)>>)
            \/ Run(Make(v), <<RemoveThings(doc, k, S), InsertThings(k, F)>>)
  BY InsertPresetMakes
<1>2. pasted' = pasted /\ focus' = focus
  BY DEF InsertPreset
<1>3. k \in CurveTracks => \A x \in Things : ~(F \subseteq {x})
  <2>1. k \in CurveTracks => Cardinality(F) = 2
    BY <1>1, EditingAssumption
  <2>2. QED
    BY <2>1, TwoOf
<1>4. k \in CurveTracks => \A x \in Things : On(doc, k) \cup F = {x} => x \in pasted'
  BY <1>3
<1>5. CASE Run(Make(v), <<InsertThings(k, F)>>)
  BY <1>1, <1>2, <1>4, <1>5, MakeHolds
<1>6. CASE Run(Make(v), <<RemoveThings(doc, k, S), InsertThings(k, F)>>)
  BY <1>1, <1>2, <1>3, <1>6, ReplaceHolds
<1>7. QED
  BY <1>1, <1>5, <1>6

LEMMA RowsOk ==
    ASSUME NEW d, NEW P, Ok(d, P), NEW r \in Scores, \A k \in Tracks : On(r, k) = On(d, k),
           \A i, j \in 1..Len(r.tracks) : r.tracks[i] = r.tracks[j] => i = j
    PROVE  Ok(r, P)
<1>1. \A k \in CurveTracks : k \in Tracks
  BY DEF Tracks
<1>2. QED
  BY <1>1 DEF Ok

LEMMA AddTrackHolds ==
    ASSUME PageInv, NEW k \in CurveTracks, AddTrack(k)
    PROVE  PageInv'
<1> DEFINE c == ListCommand("addTrack", k, <<>>, 0)
           r == ApplyOne(doc, c)
           s == doc.tracks
<1>1. Run(doc, <<c>>) /\ pasted' = pasted /\ focus' = focus /\ Instrument[k] \in MissingInstruments
  BY DEF AddTrack
<1>2. /\ doc \in Scores /\ Ok(doc, pasted) /\ Matches(TRUE, doc, doc) /\ k \in Tracks
      /\ s \in Seq(Tracks) /\ \A i, j \in 1..Len(s) : s[i] = s[j] => i = j
  BY PageIs, ScoreIs DEF Ok, Tracks
<1>3. \A i \in 1..Len(s) : s[i] # k
  BY <1>1, <1>2 DEF MissingInstruments
<1>4. Moves(c, "addTrack", k, {})
  <2>1. "addTrack" \in Kinds \ Sets /\ "addTrack" # "removeTrack" /\ 0 \in Nat
    BY DEF Kinds, Sets
  <2>2. <<>> \in Seq(Things) /\ ToSet(<<>>) = {}
    BY EmptySeq DEF ToSet
  <2>3. QED
    BY <1>2, <2>1, <2>2, ListCommandIs, ZenonT(60)
<1> HIDE DEF c
<1>5. c \in AnyCommands /\ c.k = "addTrack" /\ c.track = k /\ ToSet(c.things) = {} /\ DOMAIN c.was = {}
  BY <1>4 DEF Moves
<1>6. Known(c, doc)
  BY <1>5 DEF Known
<1>7. ~Takes(TRUE, c) /\ ~Puts(TRUE, c) /\ Adds(TRUE, c) /\ ~Drops(TRUE, c) /\ c.k \notin Sets /\ c.k # "removeTrack"
  BY <1>5 DEF Takes, Puts, Adds, Drops, Sets
<1>8. Fits(TRUE, TRUE, c, doc)
  BY <1>3, <1>5, <1>6, <1>7 DEF Fits
<1>9. r = OneTurn(TRUE, doc, c) /\ r = AddLast(doc, c)
  BY <1>5 DEF OneTurn, ApplyOne, Sets
<1> HIDE DEF r
<1>10. Effect(TRUE, doc, c, r)
  BY <1>2, <1>5, <1>6, <1>9, TurnIs
<1>11. /\ r \in Scores /\ \A j \in Tracks : On(r, j) = On(doc, j)
       /\ r.tracks = InsertAt(s, Row(c, s), k)
  BY <1>5, <1>7, <1>10 DEF Effect
<1>12. r.tracks = Append(s, k)
  BY <1>2, <1>5, <1>11, LastIn DEF Row
<1>13. \A i, j \in 1..Len(r.tracks) : r.tracks[i] = r.tracks[j] => i = j
  BY <1>2, <1>3, <1>12
<1>14. Ok(r, pasted')
  BY <1>1, <1>2, <1>11, <1>13, RowsOk
<1>15. QED
  BY <1>1, <1>2, <1>5, <1>8, <1>14, OneHolds DEF r

LEMMA RemoveTrackHolds ==
    ASSUME PageInv, NEW i \in DOMAIN doc.tracks, RemoveTrack(i)
    PROVE  PageInv'
<1> DEFINE s == doc.tracks
           k == s[i]
           c == ListCommand("removeTrack", k, <<>>, i)
           r == ApplyOne(doc, c)
<1>1. Run(doc, <<c>>) /\ pasted' = pasted /\ focus' = focus
  BY DEF RemoveTrack
<1>2. /\ doc \in Scores /\ Ok(doc, pasted) /\ Matches(TRUE, doc, doc) /\ k \in Tracks
      /\ s \in Seq(Tracks) /\ \A m, n \in 1..Len(s) : s[m] = s[n] => m = n
  BY PageIs, ScoreIs DEF Ok
<1>3. i \in 1..Len(s) /\ i \in Nat /\ i >= 1 /\ Len(s) \in Nat
  BY <1>2
<1>d. k = s[i]
  OBVIOUS
<1>4. Moves(c, "removeTrack", k, {}) /\ c.at = i
  <2>1. "removeTrack" \in Kinds \ Sets
    BY DEF Kinds, Sets
  <2>2. <<>> \in Seq(Things) /\ ToSet(<<>>) = {}
    BY EmptySeq DEF ToSet
  <2> HIDE DEF k, s
  <2>3. Moves(ListCommand("removeTrack", k, <<>>, i), "removeTrack", k, ToSet(<<>>))
        /\ ListCommand("removeTrack", k, <<>>, i).at = i
    BY <1>2, <1>3, <2>1, <2>2, ListCommandIs
  <2>4. QED
    BY <2>2, <2>3
<1> HIDE DEF c, k, s
<1>5. c \in AnyCommands /\ c.k = "removeTrack" /\ c.track = k /\ ToSet(c.things) = {} /\ DOMAIN c.was = {}
  BY <1>4 DEF Moves
<1>6. Known(c, doc)
  BY <1>5 DEF Known
<1>7. ~Takes(TRUE, c) /\ ~Puts(TRUE, c) /\ ~Adds(TRUE, c) /\ Drops(TRUE, c) /\ c.k \notin Sets
  BY <1>5 DEF Takes, Puts, Adds, Drops, Sets
<1>8. Seat(c, s) = i
  BY <1>4, <1>5 DEF Seat
<1>9. \A m \in 1..Len(s) : s[m] = k <=> m = i
  BY <1>2, <1>3, <1>d
<1>10. Fits(TRUE, TRUE, c, doc)
  BY <1>3, <1>5, <1>6, <1>7, <1>8, <1>9 DEF Fits, s
<1>11. r = OneTurn(TRUE, doc, c)
  BY DEF OneTurn
<1> HIDE DEF r
<1>12. Effect(TRUE, doc, c, r)
  BY <1>2, <1>5, <1>6, <1>11, TurnIs
<1>13. /\ r \in Scores /\ \A j \in Tracks : On(r, j) = On(doc, j)
       /\ r.tracks = Among(s, Tracks \ {k})
  BY <1>5, <1>7, <1>12 DEF Effect, s
<1>14. \A m, n \in 1..Len(r.tracks) : r.tracks[m] = r.tracks[n] => m = n
  <2> DEFINE W == Tracks \ {k}
             from(m) == IF m < i THEN m ELSE m + 1
  <2>1. \A m \in 1..Len(s) : s[m] \in W <=> m # i
    BY <1>2, <1>9
  <2>2. r.tracks = Among(s, W)
    BY <1>13
  <2> HIDE DEF W
  <2>3. /\ Len(Among(s, W)) = Len(s) - 1
        /\ \A j \in 1..(Len(s) - 1) : Among(s, W)[j] = IF j < i THEN s[j] ELSE s[j + 1]
    BY <1>2, <1>3, <2>1, TakenAt
  <2>4. \A j \in 1..(Len(s) - 1) : from(j) \in 1..Len(s) /\ r.tracks[j] = s[from(j)]
    BY <1>3, <2>2, <2>3
  <2>5. ASSUME NEW m \in 1..Len(r.tracks), NEW n \in 1..Len(r.tracks), r.tracks[m] = r.tracks[n]
        PROVE  m = n
    <3>1. m \in 1..(Len(s) - 1) /\ n \in 1..(Len(s) - 1)
      BY <2>2, <2>3
    <3>2. /\ from(m) \in 1..Len(s) /\ from(n) \in 1..Len(s) /\ s[from(m)] = s[from(n)]
      BY <2>4, <2>5, <3>1
    <3>3. from(m) = from(n)
      BY <1>2, <3>2
    <3>4. QED
      BY <1>3, <3>1, <3>3
  <2>6. QED
    BY <2>5
<1>15. Ok(r, pasted')
  BY <1>1, <1>2, <1>13, <1>14, RowsOk
<1>16. QED
  BY <1>1, <1>2, <1>5, <1>10, <1>15, OneHolds DEF r

\* What is not set stays.
LEMMA ChangeLeaves ==
    ASSUME NEW c, NEW k, NEW was, Changes(c, k, was), NEW d \in Scores, DOMAIN was \subseteq Made(d),
           NEW x \in Things \ DOMAIN was, NEW f \in Fields
    PROVE  ApplyOne(d, c)[f][x] = d[f][x]
<1>1. c \in AnyCommands /\ c.k \in Sets /\ c.was = was
  BY DEF Changes
<1>2. Known(c, d)
  BY ChangeFits
<1>3. Reset(To(TRUE, c), d, OneTurn(TRUE, d, c))
  BY <1>1, <1>2, SetIs
<1>4. OneTurn(TRUE, d, c) = ApplyOne(d, c) /\ To(TRUE, c) = c.will
  BY DEF OneTurn, To
<1>5. Reset(c.will, d, ApplyOne(d, c))
  BY <1>3, <1>4
<1>6. DOMAIN c.will = DOMAIN was
  BY <1>1, CommandIs
<1>7. ApplyOne(d, c)[f][x] = SetTo(c.will, d, f, x)
  BY <1>5 DEF Reset
<1>8. QED
  BY <1>6, <1>7 DEF SetTo

\* A nudge has come as far as this track: what is on later ones is where it was.
Nudged(cmds, i) ==
    /\ cmds \in Seq(AnyCommands) /\ Goes(TRUE, TRUE, cmds, doc)
    /\ Ok(Apply(doc, cmds), pasted) /\ Made(Apply(doc, cmds)) = Made(doc)
    /\ \A x \in Things : (\A j \in 1..i : x \notin On(doc, doc.tracks[j]))
                         => \A f \in Fields : Apply(doc, cmds)[f][x] = doc[f][x]

LEMMA NudgedNone ==
    ASSUME PageInv PROVE Nudged(<<>>, 0)
<1>1. doc \in Scores /\ Ok(doc, pasted)
  BY PageIs
<1>2. <<>> \in Seq(AnyCommands) /\ Goes(TRUE, TRUE, <<>>, doc) /\ Apply(doc, <<>>) = doc
  BY <1>1, GoesNone
<1>3. QED
  BY <1>1, <1>2 DEF Nudged

LEMMA NudgedPast ==
    ASSUME NEW cmds, NEW i \in Nat, i >= 1, Nudged(cmds, i - 1)
    PROVE  Nudged(cmds, i)
<1>1. \A j \in 1..(i - 1) : j \in 1..i
  OBVIOUS
<1>2. \A x : (\A j \in 1..i : x \notin On(doc, doc.tracks[j])) => \A j \in 1..(i - 1) : x \notin On(doc, doc.tracks[j])
  BY <1>1
<1>3. QED
  BY <1>2 DEF Nudged

LEMMA NudgedMore ==
    ASSUME PageInv, NEW cmds, NEW i \in 1..Len(doc.tracks), Nudged(cmds, i - 1),
           NEW c, NEW was, Changes(c, doc.tracks[i], was), DOMAIN was \subseteq On(doc, doc.tracks[i]),
           Says(was, doc)
    PROVE  Nudged(Append(cmds, c), i)
<1> DEFINE k == doc.tracks[i]
           d == Apply(doc, cmds)
           r == ApplyOne(d, c)
<1>1. /\ doc \in Scores /\ Ok(doc, pasted) /\ k \in Tracks /\ On(doc, k) \subseteq Made(doc)
      /\ Made(doc) \subseteq Things /\ doc.tracks \in Seq(Tracks)
  BY PageIs, ScoreIs
<1>2. /\ cmds \in Seq(AnyCommands) /\ Goes(TRUE, TRUE, cmds, doc) /\ Ok(d, pasted) /\ d \in Scores
      /\ Made(d) = Made(doc)
      /\ \A x \in Things : (\A j \in 1..(i - 1) : x \notin On(doc, doc.tracks[j]))
                           => \A f \in Fields : d[f][x] = doc[f][x]
  BY DEF Nudged, Ok
<1>3. \A j \in 1..(i - 1) : doc.tracks[j] \in Tracks \ {k}
  BY <1>1 DEF Ok
<1>4. \A x \in On(doc, k) : \A f \in Fields : d[f][x] = doc[f][x]
  <2>1. \A x \in On(doc, k) : \A j \in 1..(i - 1) : x \notin On(doc, doc.tracks[j])
    BY <1>1, <1>3 DEF Ok
  <2>2. QED
    BY <1>1, <1>2, <2>1
<1>5. Says(was, d)
  BY <1>4 DEF Says
<1>6. DOMAIN was \subseteq Made(d) /\ Changes(c, k, was)
  BY <1>1, <1>2
<1>7. c \in AnyCommands
  BY DEF Changes
<1> HIDE DEF k
<1>8. Fits(TRUE, TRUE, c, d)
  BY <1>2, <1>5, <1>6, ChangeFits
<1>9. /\ Append(cmds, c) \in Seq(AnyCommands) /\ Goes(TRUE, TRUE, Append(cmds, c), doc)
      /\ Apply(doc, Append(cmds, c)) = r
  BY <1>1, <1>2, <1>7, <1>8, GoesMore
<1>10. Ok(r, pasted) /\ Made(r) = Made(d)
  BY <1>2, <1>6, ChangeOk
<1>11. ASSUME NEW x \in Things, \A j \in 1..i : x \notin On(doc, doc.tracks[j]), NEW f \in Fields
       PROVE  r[f][x] = doc[f][x]
  <2>1. x \notin On(doc, k) /\ \A j \in 1..(i - 1) : x \notin On(doc, doc.tracks[j])
    BY <1>11 DEF k
  <2>2. x \in Things \ DOMAIN was
    BY <2>1 DEF k
  <2>3. r[f][x] = d[f][x]
    BY <1>2, <1>6, <2>2, ChangeLeaves
  <2>4. QED
    BY <1>2, <2>1, <2>3
<1> HIDE DEF d, r
<1>12. QED
  BY <1>2, <1>9, <1>10, <1>11 DEF Nudged

\* The move of what is selected on one track.
LEMMA NudgeChanges ==
    ASSUME PageInv, NEW dt \in Int, NEW k \in Tracks, NEW D, D \subseteq On(doc, k)
    PROVE  LET to(x) == Clamp(doc.t[x] + dt, 0, Duration)
               was == [x \in D |-> At(doc.t[x], Keep, Keep)]
           IN /\ Changes(MoveCues(k, [x \in D |-> doc.t[x]], [x \in D |-> to(x)]), k, was)
              /\ Changes(MovePoints(k, was, [x \in D |-> At(to(x), Keep, Keep)]), k, was)
              /\ Says(was, doc) /\ DOMAIN was = D
<1> DEFINE to(x) == Clamp(doc.t[x] + dt, 0, Duration)
           was == [x \in D |-> At(doc.t[x], Keep, Keep)]
<1>1. doc \in Document /\ D \subseteq Things /\ \A x \in D : x \in Things /\ doc.t[x] \in Int
  BY PageIs
<1>2. \A x \in D : to(x) \in Int
  <2> SUFFICES ASSUME NEW x \in D PROVE to(x) \in Int
    OBVIOUS
  <2>1. doc.t[x] + dt \in Int /\ 0 \in Int /\ Duration \in Int
    BY <1>1, PlacesType
  <2>2. QED
    BY <2>1, ClampType
<1> HIDE DEF to
<1>3. Changes(MoveCues(k, [x \in D |-> doc.t[x]], [x \in D |-> to(x)]), k, was)
  <2> DEFINE from == [x \in D |-> doc.t[x]]
             there == [x \in D |-> to(x)]
  <2>1. from \in [D -> Int] /\ there \in [D -> Int] /\ \A x \in D : from[x] = doc.t[x]
    BY <1>1, <1>2
  <2> HIDE DEF from, there
  <2>2. Changes(MoveCues(k, from, there), k, [x \in D |-> At(from[x], Keep, Keep)])
    BY <1>1, <2>1, MoveCuesIs
  <2>3. [x \in D |-> At(from[x], Keep, Keep)] = was
    BY <2>1
  <2>4. QED
    BY <2>2, <2>3 DEF from, there
<1>4. Changes(MovePoints(k, was, [x \in D |-> At(to(x), Keep, Keep)]), k, was)
  <2> DEFINE will == [x \in D |-> At(to(x), Keep, Keep)]
  <2>1. \A x \in D : At(doc.t[x], Keep, Keep) \in Attr /\ At(to(x), Keep, Keep) \in Attr
    BY <1>1, <1>2, AtIs
  <2>2. was \in [D -> Attr] /\ will \in [D -> Attr]
    BY <2>1
  <2>3. \A x \in D : /\ was[x]["t"] = doc.t[x] /\ was[x]["size"] = Keep /\ was[x]["level"] = Keep
                     /\ will[x]["t"] = to(x) /\ will[x]["size"] = Keep /\ will[x]["level"] = Keep
    BY DEF At
  <2> HIDE DEF was, will
  <2>4. \A x \in D : \A f \in Fields : was[x][f] = Keep <=> will[x][f] = Keep
    <3> TAKE x \in D
    <3>1. was[x]["t"] # Keep /\ will[x]["t"] # Keep
      BY <1>1, <1>2, <2>3, EditingAssumption
    <3>2. QED
      BY <2>3, <3>1, FieldByField
  <2>5. Changes(MovePoints(k, was, will), k, was)
    BY <1>1, <2>2, <2>4, MovePointsIs
  <2>6. QED
    BY <2>5 DEF will
<1>5. Says(was, doc) /\ DOMAIN was = D
  <2> DEFINE from == [x \in D |-> doc.t[x]]
  <2>1. \A x \in D : from[x] = doc.t[x]
    OBVIOUS
  <2> HIDE DEF from
  <2>2. Says([x \in D |-> At(from[x], Keep, Keep)], doc)
    BY <1>1, <2>1, MoveSays
  <2>3. [x \in D |-> At(from[x], Keep, Keep)] = was
    BY <2>1
  <2>4. QED
    BY <2>2, <2>3
<1>6. QED
  BY <1>3, <1>4, <1>5 DEF to

LEMMA NudgeHolds ==
    ASSUME PageInv, NEW S, NEW dt \in Int, Nudge(S, dt)
    PROVE  PageInv'
<1> DEFINE n == Len(doc.tracks)
           to(x) == Clamp(doc.t[x] + dt, 0, Duration)
           move(k) ==
               LET moving == On(doc, k) \cap S
               IN IF moving = {} THEN <<>>
                  ELSE IF k \in CueTracks
                  THEN <<MoveCues(k, [x \in moving |-> doc.t[x]], [x \in moving |-> to(x)])>>
                  ELSE <<MovePoints(k, [x \in moving |-> At(doc.t[x], Keep, Keep)],
                                       [x \in moving |-> At(to(x), Keep, Keep)])>>
           base == <<>>
           longer(s, k) == s \o move(k)
           Runs(out) == out = [i \in 0..n |-> IF i = 0 THEN base ELSE longer(out[i - 1], doc.tracks[i])]
           moves == CHOOSE out : Runs(out)
           Begun(i, out) == /\ out = [j \in 0..i |-> out[j]] /\ out[0] = base
                            /\ \A j \in 1..i : out[j] = longer(out[j - 1], doc.tracks[j])
<1>1. doc.tracks \in Seq(Tracks) /\ n \in Nat /\ \A i \in 1..n : doc.tracks[i] \in Tracks
  BY PageIs, ScoreIs
<1>2. Run(doc, moves[n]) /\ pasted' = pasted /\ focus' = focus
  BY Zenon DEF Nudge
<1>3. ASSUME NEW s, NEW i \in 1..n, Nudged(s, i - 1) PROVE Nudged(longer(s, doc.tracks[i]), i)
  <2> DEFINE k == doc.tracks[i]
             moving == On(doc, k) \cap S
             was == [x \in moving |-> At(doc.t[x], Keep, Keep)]
             cues == MoveCues(k, [x \in moving |-> doc.t[x]], [x \in moving |-> to(x)])
             points == MovePoints(k, was, [x \in moving |-> At(to(x), Keep, Keep)])
  <2>1. k \in Tracks /\ s \in Seq(AnyCommands) /\ moving \subseteq On(doc, k)
    BY <1>1, <1>3 DEF Nudged
  <2>2. move(k) \in {<<>>, <<cues>>, <<points>>}
    OBVIOUS
  <2> HIDE DEF k, moving
  <2>3. Changes(cues, k, was) /\ Changes(points, k, was) /\ Says(was, doc) /\ DOMAIN was = moving
    BY <2>1, NudgeChanges
  <2> HIDE DEF was, cues, points, move
  <2>4. CASE move(k) = <<>>
    <3>1. longer(s, k) = s
      BY <2>1, <2>4, ConcatEmptySeq
    <3>2. Nudged(s, i)
      BY <1>1, <1>3, NudgedPast
    <3>3. QED
      BY <3>1, <3>2 DEF k
  <2>5. ASSUME NEW c \in {cues, points}, move(k) = <<c>> PROVE Nudged(longer(s, k), i)
    <3>1. c \in AnyCommands /\ Changes(c, k, was)
      BY <2>3 DEF Changes
    <3>2. longer(s, k) = Append(s, c)
      <4>1. longer(s, k) = s \o <<c>>
        BY <2>5
      <4>2. s \o <<c>> = Append(s, c)
        BY <2>1, <3>1, AppendIsConcat
      <4>3. QED
        BY <4>1, <4>2
    <3>3. Nudged(Append(s, c), i)
      BY <1>1, <1>3, <2>1, <2>3, <3>1, NudgedMore DEF k
    <3>4. QED
      BY <3>2, <3>3
  <2>6. QED
    BY <2>2, <2>4, <2>5 DEF k
<1>4. Nudged(base, 0)
  BY NudgedNone
<1> HIDE DEF move, longer, base
<1>5. \E out : Begun(n, out)
  <2> DEFINE T == {i \in 0..n : \E out : Begun(i, out)}
  <2>1. 0 \in T
    <3> DEFINE out == [j \in 0..0 |-> base]
    <3>1. Begun(0, out)
      OBVIOUS
    <3> HIDE DEF Begun, out
    <3>2. \E o : Begun(0, o)
      BY <3>1
    <3>3. QED
      BY <1>1, <3>2
  <2>2. ASSUME NEW i \in 1..n, i - 1 \in T PROVE i \in T
    <3>1. PICK out : Begun(i - 1, out)
      <4> HIDE DEF Begun
      <4>1. QED
        BY <2>2
    <3> DEFINE more == [j \in 0..i |-> IF j = i THEN longer(out[i - 1], doc.tracks[i]) ELSE out[j]]
    <3>2. Begun(i, more)
      <4>1. i \in Nat /\ i >= 1 /\ 0 \in 0..i
        BY <1>1
      <4>2. more = [j \in 0..i |-> more[j]] /\ more[0] = base
        BY <3>1, <4>1
      <4>3. ASSUME NEW j \in 1..i PROVE more[j] = longer(more[j - 1], doc.tracks[j])
        <5>1. more[j - 1] = out[j - 1]
          BY <4>1
        <5>2. CASE j = i
          BY <4>1, <5>1, <5>2
        <5>3. CASE j # i
          <6>1. j \in 1..(i - 1) /\ more[j] = out[j]
            BY <4>1, <5>3
          <6>2. QED
            BY <3>1, <5>1, <6>1
        <5>4. QED
          BY <5>2, <5>3
      <4> HIDE DEF more
      <4>4. QED
        BY <4>2, <4>3
    <3> HIDE DEF Begun, more
    <3>3. \E o : Begun(i, o)
      BY <3>2
    <3>4. QED
      BY <1>1, <3>3
  <2>3. 0..n \subseteq T
    <3> HIDE DEF T
    <3>1. QED
      BY <1>1, <2>1, <2>2, StepByStep
  <2>4. n \in T
    <3> HIDE DEF T
    <3>1. QED
      BY <1>1, <2>3
  <2> HIDE DEF Begun
  <2>5. QED
    BY <2>4
<1>6. PICK out : Begun(n, out)
  <2> HIDE DEF Begun
  <2>1. QED
    BY <1>5
<1>7. Runs(out)
  <2>1. ASSUME NEW i \in 0..n
        PROVE  out[i] = IF i = 0 THEN base ELSE longer(out[i - 1], doc.tracks[i])
    <3>1. out[0] = base /\ \A j \in 1..n : out[j] = longer(out[j - 1], doc.tracks[j])
      BY <1>6
    <3>2. CASE i = 0
      BY <3>1, <3>2
    <3>3. CASE i # 0
      <4>1. i \in 1..n
        BY <1>1, <3>3
      <4>2. QED
        BY <3>1, <3>3, <4>1
    <3>4. QED
      BY <3>2, <3>3
  <2>2. out = [i \in 0..n |-> out[i]]
    BY <1>6
  <2>3. QED
    BY <2>1, <2>2
<1>8. Runs(moves)
  <2> HIDE DEF Runs
  <2>1. QED
    BY <1>7
<1> HIDE DEF moves
<1>9. moves[0] = base /\ \A i \in 1..n : moves[i] = longer(moves[i - 1], doc.tracks[i])
  BY <1>1, <1>8
<1>10. Nudged(moves[n], n)
  <2> DEFINE T == {i \in 0..n : Nudged(moves[i], i)}
  <2>1. 0 \in T
    BY <1>1, <1>4, <1>9
  <2>2. ASSUME NEW i \in 1..n, i - 1 \in T PROVE i \in T
    <3>1. Nudged(moves[i - 1], i - 1) /\ i \in 0..n
      BY <1>1, <2>2
    <3>2. Nudged(longer(moves[i - 1], doc.tracks[i]), i)
      BY <1>3, <3>1
    <3>3. QED
      BY <1>9, <3>1, <3>2
  <2>3. 0..n \subseteq T
    <3> HIDE DEF T
    <3>1. QED
      BY <1>1, <2>1, <2>2, StepByStep
  <2>4. n \in T
    BY <1>1, <2>3
  <2>5. QED
    BY <2>4
<1> DEFINE cmds == moves[n]
<1> HIDE DEF cmds
<1>11. /\ cmds \in Seq(AnyCommands) /\ Goes(TRUE, TRUE, cmds, doc) /\ Ok(Apply(doc, cmds), pasted)
       /\ Run(doc, cmds)
  BY <1>2, <1>10 DEF cmds, Nudged
<1>12. doc \in Scores /\ Matches(TRUE, doc, doc)
  BY PageIs
<1>13. QED
  BY <1>2, <1>11, <1>12, RunHolds

-----------------------------------------------------------------------------
\* What is selected has gone from some of the tracks, each time as an entry of its own.
Pruned(e) == Whole(pasted, e) /\ Made(e.doc) = Made(doc) /\ (e = Editor \/ e.key = NoKey)

LEMMA PruneOne ==
    ASSUME NEW e, Pruned(e), NEW k \in Tracks, NEW S, S \subseteq On(e.doc, k),
           NEW r, r = RunOn(e, <<RemoveThings(e.doc, k, S)>>, NoKey, TRUE)
    PROVE  Pruned(r)
<1> DEFINE d == e.doc
           T == WithOrphans(d, k, S)
           c == RemoveThings(d, k, S)
<1>1. Whole(pasted, e) /\ Ok(d, pasted) /\ d \in Scores /\ Made(d) = Made(doc)
  BY DEF Pruned, Whole, Ok
<1>2. Moves(c, "remove", k, T) /\ Clears(d, k, T)
  BY <1>1, RemoveThingsIs, OrphansGo
<1>3. r = RunOn(e, <<c>>, NoKey, TRUE)
  OBVIOUS
<1> HIDE DEF c, T
<1>4. Fits(TRUE, TRUE, c, d) /\ Ok(ApplyOne(d, c), pasted) /\ c \in AnyCommands
  BY <1>1, <1>2, RemoveGoes DEF Moves
<1>5. /\ <<c>> \in Seq(AnyCommands) /\ Goes(TRUE, TRUE, <<c>>, d)
      /\ Outcome(TRUE, d, <<c>>) = OneTurn(TRUE, d, c)
  BY <1>1, <1>4, GoesOne
<1>6. Ok(Apply(d, <<c>>), pasted)
  BY <1>4, <1>5 DEF Outcome, OneTurn
<1> DEFINE cmds == <<c>>
<1>7. /\ cmds \in Seq(AnyCommands) /\ Goes(TRUE, TRUE, cmds, e.doc) /\ Ok(Apply(e.doc, cmds), pasted)
      /\ r = RunOn(e, cmds, NoKey, TRUE)
  BY <1>3, <1>5, <1>6
<1> HIDE DEF cmds
<1>8. Pushed(pasted, e, cmds, NoKey, TRUE, r)
  <2>1. ASSUME NEW k0, k0 = NoKey, NEW h0 \in BOOLEAN, h0 = TRUE
        PROVE  Pushed(pasted, e, cmds, k0, h0, r)
    <3>1. /\ ~(k0 # NoKey /\ e.key = k0 /\ Len(e.past) > 0)
          /\ Goes(TRUE, h0, cmds, e.doc) /\ r = RunOn(e, cmds, k0, h0)
      BY <1>7, <2>1
    <3>2. QED
      BY <1>1, <1>7, <3>1, RunOnPush
  <2>2. QED
    BY <2>1
<1>9. QED
  BY <1>1, <1>8 DEF Pruned, Pushed

\* A drag goes on, and the document it read is another.
LEMMA StirredOn ==
    ASSUME GestureInv, Stir, doc' = doc, past' = past, key' = key
    PROVE  GestureInv'
<1>1. CASE drag = NoDrag
  BY <1>1 DEF Stir, GestureInv
<1>2. CASE drag # NoDrag
  <2>1. GripInv /\ drag' = [drag EXCEPT !.stirred = TRUE]
    BY <1>2 DEF Stir, GestureInv
  <2>2. drag \in Grip
    BY <2>1 DEF GripInv
  <2>3. /\ drag' \in Grip /\ drag'.was = drag.was /\ drag'.lead = drag.lead /\ drag'.part = drag.part
        /\ drag'.stirred = TRUE
    BY <2>1, <2>2 DEF Grip
  <2>4. drag' # NoDrag
    <3>1. drag'.part \in {"body", "start", "end", "point"} /\ NoDrag.part = "none"
      BY <2>3 DEF Grip, NoDrag
    <3>2. QED
      BY <3>1
  <2>5. /\ DOMAIN drag.was \subseteq Made(doc) /\ drag.lead \in DOMAIN drag.was
        /\ \A x \in DOMAIN drag.was : \A f \in Fields : drag.was[x][f] \in Int
        /\ key \in Keys /\ (key = "gr" => drag.part = "start")
        /\ key = "g" => /\ drag.part # "start" /\ Len(past) > 0 /\ Len(past[Len(past)].cmds) = 1
                        /\ Own(drag, past[Len(past)].cmds[1])
    BY <2>1 DEF GripInv
  <2>6. \A c : Own(drag', c) <=> Own(drag, c)
    BY <2>3 DEF Own
  <2>7. GripInv'
    BY <2>3, <2>5, <2>6 DEF GripInv, Made
  <2>8. QED
    BY <2>4, <2>7 DEF GestureInv
<1>3. QED
  BY <1>1, <1>2

LEMMA DeleteSelectionHolds ==
    ASSUME PageInv, NEW S, DeleteSelection(S)
    PROVE  PageInv'
<1> DEFINE n == Len(doc.tracks)
           delete(e, k) ==
               LET going == On(e.doc, k) \cap S
               IN IF going = {} THEN e
                  ELSE RunOn(e, <<RemoveThings(e.doc, k, going)>>, NoKey, TRUE)
           base == Editor
           longer(e, k) == delete(e, k)
           Runs(out) == out = [i \in 0..n |-> IF i = 0 THEN base ELSE longer(out[i - 1], doc.tracks[i])]
           deleted == CHOOSE out : Runs(out)
           Begun(i, out) == /\ out = [j \in 0..i |-> out[j]] /\ out[0] = base
                            /\ \A j \in 1..i : out[j] = longer(out[j - 1], doc.tracks[j])
<1>1. doc.tracks \in Seq(Tracks) /\ n \in Nat /\ \A i \in 1..n : doc.tracks[i] \in Tracks
  BY PageIs, ScoreIs
<1>2. Become(deleted[n]) /\ Stir /\ pasted' = pasted /\ focus' = focus
  BY Zenon DEF DeleteSelection
<1>3. ASSUME NEW e, Pruned(e), NEW k \in Tracks PROVE Pruned(longer(e, k))
  <2> DEFINE going == On(e.doc, k) \cap S
             r == RunOn(e, <<RemoveThings(e.doc, k, going)>>, NoKey, TRUE)
  <2>1. longer(e, k) = IF going = {} THEN e ELSE r
    OBVIOUS
  <2>2. going \subseteq On(e.doc, k) /\ r = RunOn(e, <<RemoveThings(e.doc, k, going)>>, NoKey, TRUE)
    OBVIOUS
  <2> HIDE DEF going, r, longer
  <2>3. Pruned(r)
    BY <1>3, <2>2, PruneOne
  <2>4. QED
    BY <1>3, <2>1, <2>3
<1>4. Pruned(base)
  <2>1. base.doc = doc /\ base.past = past /\ base.future = future
    BY DEF Editor
  <2>2. Whole(pasted, base)
    BY <2>1 DEF Whole, PageInv, StackInv
  <2>3. QED
    BY <2>1, <2>2 DEF Pruned
<1> HIDE DEF delete, longer, base
<1>5. \E out : Begun(n, out)
  <2> DEFINE T == {i \in 0..n : \E out : Begun(i, out)}
  <2>1. 0 \in T
    <3> DEFINE out == [j \in 0..0 |-> base]
    <3>1. Begun(0, out)
      OBVIOUS
    <3> HIDE DEF Begun, out
    <3>2. \E o : Begun(0, o)
      BY <3>1
    <3>3. QED
      BY <1>1, <3>2
  <2>2. ASSUME NEW i \in 1..n, i - 1 \in T PROVE i \in T
    <3>1. PICK out : Begun(i - 1, out)
      <4> HIDE DEF Begun
      <4>1. QED
        BY <2>2
    <3> DEFINE more == [j \in 0..i |-> IF j = i THEN longer(out[i - 1], doc.tracks[i]) ELSE out[j]]
    <3>2. Begun(i, more)
      <4>1. i \in Nat /\ i >= 1 /\ 0 \in 0..i
        BY <1>1
      <4>2. more = [j \in 0..i |-> more[j]] /\ more[0] = base
        BY <3>1, <4>1
      <4>3. ASSUME NEW j \in 1..i PROVE more[j] = longer(more[j - 1], doc.tracks[j])
        <5>1. more[j - 1] = out[j - 1]
          BY <4>1
        <5>2. CASE j = i
          BY <4>1, <5>1, <5>2
        <5>3. CASE j # i
          <6>1. j \in 1..(i - 1) /\ more[j] = out[j]
            BY <4>1, <5>3
          <6>2. QED
            BY <3>1, <5>1, <6>1
        <5>4. QED
          BY <5>2, <5>3
      <4> HIDE DEF more
      <4>4. QED
        BY <4>2, <4>3
    <3> HIDE DEF Begun, more
    <3>3. \E o : Begun(i, o)
      BY <3>2
    <3>4. QED
      BY <1>1, <3>3
  <2>3. 0..n \subseteq T
    <3> HIDE DEF T
    <3>1. QED
      BY <1>1, <2>1, <2>2, StepByStep
  <2>4. n \in T
    <3> HIDE DEF T
    <3>1. QED
      BY <1>1, <2>3
  <2> HIDE DEF Begun
  <2>5. QED
    BY <2>4
<1>6. PICK out : Begun(n, out)
  <2> HIDE DEF Begun
  <2>1. QED
    BY <1>5
<1>7. Runs(out)
  <2>1. ASSUME NEW i \in 0..n
        PROVE  out[i] = IF i = 0 THEN base ELSE longer(out[i - 1], doc.tracks[i])
    <3>1. out[0] = base /\ \A j \in 1..n : out[j] = longer(out[j - 1], doc.tracks[j])
      BY <1>6
    <3>2. CASE i = 0
      BY <3>1, <3>2
    <3>3. CASE i # 0
      <4>1. i \in 1..n
        BY <1>1, <3>3
      <4>2. QED
        BY <3>1, <3>3, <4>1
    <3>4. QED
      BY <3>2, <3>3
  <2>2. out = [i \in 0..n |-> out[i]]
    BY <1>6
  <2>3. QED
    BY <2>1, <2>2
<1>8. Runs(deleted)
  <2> HIDE DEF Runs
  <2>1. QED
    BY <1>7
<1> HIDE DEF deleted
<1>9. deleted[0] = base /\ \A i \in 1..n : deleted[i] = longer(deleted[i - 1], doc.tracks[i])
  BY <1>1, <1>8
<1>10. Pruned(deleted[n])
  <2> DEFINE T == {i \in 0..n : Pruned(deleted[i])}
  <2>1. 0 \in T
    <3>1. 0 \in 0..n
      BY <1>1
    <3>2. Pruned(deleted[0])
      BY <1>4, <1>9, Zenon
    <3>3. QED
      BY <3>1, <3>2
  <2>2. ASSUME NEW i \in 1..n, i - 1 \in T PROVE i \in T
    <3>1. Pruned(deleted[i - 1]) /\ i \in 0..n /\ doc.tracks[i] \in Tracks
      BY <1>1, <2>2
    <3>2. Pruned(longer(deleted[i - 1], doc.tracks[i]))
      BY <1>3, <3>1
    <3>3. QED
      BY <1>9, <3>1, <3>2
  <2>3. 0..n \subseteq T
    <3> HIDE DEF T
    <3>1. QED
      BY <1>1, <2>1, <2>2, StepByStep
  <2>4. n \in T
    BY <1>1, <2>3
  <2>5. QED
    BY <2>4
<1> DEFINE e == deleted[n]
<1>11. Pruned(e) /\ Become(e)
  BY <1>2, <1>10
<1> HIDE DEF e
<1>12. doc' = e.doc /\ past' = e.past /\ future' = e.future /\ key' = e.key
  BY <1>11 DEF Become
<1>13. StackInv' /\ Made(doc)' = Made(doc)
  BY <1>2, <1>11, <1>12 DEF Pruned, Whole, StackInv, Made
<1>14. FocusInv'
  BY <1>2, <1>13, FocusStays DEF PageInv
<1>15. GestureInv'
  <2>1. CASE e = Editor
    <3>1. doc' = doc /\ past' = past /\ key' = key
      BY <1>12, <2>1 DEF Editor
    <3>2. QED
      BY <1>2, <3>1, StirredOn DEF PageInv
  <2>2. CASE e.key = NoKey
    BY <1>2, <1>12, <1>13, <2>2, Stirred DEF PageInv
  <2>3. QED
    BY <1>11, <2>1, <2>2 DEF Pruned
<1>16. QED
  BY <1>13, <1>14, <1>15 DEF PageInv

LEMMA ClearFocusHolds ==
    ASSUME PageInv, ClearFocus
    PROVE  PageInv'
<1>1. /\ doc' = doc /\ past' = past /\ future' = future /\ key' = key /\ drag' = drag /\ pasted' = pasted
      /\ focus' = NoFocus
  BY DEF ClearFocus
<1>2. StackInv' /\ FocusInv'
  BY <1>1 DEF PageInv, StackInv, FocusInv
<1>3. GestureInv'
  BY <1>1 DEF PageInv, GestureInv, GripInv
<1>4. QED
  BY <1>2, <1>3 DEF PageInv

LEMMA ReleaseHolds ==
    ASSUME PageInv, Release
    PROVE  PageInv'
<1>1. /\ doc' = doc /\ past' = past /\ future' = future /\ pasted' = pasted /\ focus' = focus
      /\ drag' = NoDrag /\ key' = NoKey
  BY DEF Release
<1>2. StackInv' /\ FocusInv'
  BY <1>1 DEF PageInv, StackInv, FocusInv
<1>3. GestureInv'
  BY <1>1 DEF GestureInv
<1>4. QED
  BY <1>2, <1>3 DEF PageInv

\* What a drag reads when the pointer goes down.
LEMMA ReadIs ==
    ASSUME PageInv, NEW D, D \subseteq Made(doc), NEW was, was = [y \in D |-> AttributesOf(doc, y)]
    PROVE  /\ was \in Values /\ DOMAIN was = D /\ Agrees(was, doc)
           /\ \A y \in D : \A f \in Fields : was[y][f] \in Int
<1>1. /\ doc \in Document /\ Made(doc) \subseteq Things /\ \A x \in Made(doc) : doc.t[x] \in Int
      /\ \A x \in Things : doc.size[x] \in Nat /\ doc.level[x] \in Int
  BY PageIs
<1>2. ASSUME NEW y \in D
      PROVE  /\ was[y] \in Attr
             /\ was[y]["t"] = doc.t[y] /\ was[y]["size"] = doc.size[y] /\ was[y]["level"] = doc.level[y]
  <2>1. doc.t[y] \in Int /\ doc.size[y] \in Nat /\ doc.level[y] \in Int /\ was[y] = At(doc.t[y], doc.size[y], doc.level[y])
    BY <1>1 DEF AttributesOf
  <2>2. QED
    BY <2>1, AtIs
<1>3. was \in Values /\ DOMAIN was = D
  <2>1. D \in SUBSET Things /\ was \in [D -> Attr]
    BY <1>1, <1>2
  <2>2. QED
    BY <2>1 DEF Values
<1>4. ASSUME NEW y \in D, NEW f \in Fields PROVE was[y][f] = doc[f][y] /\ was[y][f] \in Int
  <2>1. y \in Things /\ doc.t[y] \in Int /\ doc.size[y] \in Int /\ doc.level[y] \in Int
    BY <1>1
  <2>2. doc["t"] = doc.t /\ doc["size"] = doc.size /\ doc["level"] = doc.level
    BY <1>1, <2>1, FieldsOf
  <2>3. f \in {"t", "size", "level"}
    BY DEF Fields
  <2>4. QED
    BY <1>2, <2>1, <2>2, <2>3
<1>5. QED
  BY <1>3, <1>4 DEF Agrees

LEMMA PressHolds ==
    ASSUME PageInv, drag = NoDrag, NEW part \in {"body", "start", "end", "point"}, NEW k \in Tracks,
           NEW x \in On(doc, k), NEW S \in SUBSET On(doc, k), Press(part, k, x, S)
    PROVE  PageInv'
<1> DEFINE D == IF part \in {"start", "end"} THEN {x} ELSE S \cup {x}
           was == [y \in D |-> AttributesOf(doc, y)]
<1>1. /\ doc' = doc /\ past' = past /\ future' = future /\ key' = key /\ pasted' = pasted
      /\ focus'.thing = x
      /\ drag' = [part |-> part, track |-> k, lead |-> x, was |-> was, depth |-> Len(past), stirred |-> FALSE]
  BY DEF Press
<1>2. D \subseteq Made(doc) /\ x \in D /\ x \in Made(doc) /\ x \in Things
  BY PageIs
<1> HIDE DEF D
<1>3. /\ was \in Values /\ DOMAIN was = D /\ Agrees(was, doc)
      /\ \A y \in D : \A f \in Fields : was[y][f] \in Int
  BY <1>2, ReadIs
<1> HIDE DEF was
<1>4. key = NoKey /\ past \in Seq(Items)
  BY DEF PageInv, GestureInv, StackInv, Held
<1>5. /\ drag'.part = part /\ drag'.was = was /\ drag'.lead = x /\ drag'.depth = Len(past)
      /\ drag'.stirred = FALSE
  BY <1>1
<1>6. drag' \in Grip
  BY <1>1, <1>2, <1>3, <1>4 DEF Grip
<1>7. GripInv'
  BY <1>1, <1>2, <1>3, <1>4, <1>5, <1>6 DEF GripInv, Made, Agrees, NoKey, Keys
<1>8. GestureInv'
  <2>1. drag'.part # NoDrag.part
    BY <1>5 DEF NoDrag
  <2>2. QED
    BY <1>7, <2>1 DEF GestureInv
<1>9. StackInv' /\ FocusInv'
  BY <1>1, <1>2 DEF PageInv, StackInv, FocusInv, Made
<1>10. QED
  BY <1>8, <1>9 DEF PageInv

LEMMA EditorWhole ==
    ASSUME PageInv
    PROVE  /\ Whole(pasted, Editor) /\ Editor.doc = doc /\ Editor.past = past /\ Editor.key = key
           /\ past \in Seq(Items)
<1>1. Editor.doc = doc /\ Editor.past = past /\ Editor.key = key /\ Editor.future = future
  BY DEF Editor
<1>2. QED
  BY <1>1 DEF Whole, PageInv, StackInv, Held

\* What a drag has hold of.
LEMMA GripIs ==
    ASSUME PageInv, drag # NoDrag
    PROVE  /\ GripInv /\ drag \in Grip /\ drag.track \in Tracks /\ Dragged \subseteq Things
           /\ Dragged \subseteq Made(doc) /\ drag.lead \in Dragged
           /\ \A x \in Dragged : Was(x).t \in Int /\ Was(x).size \in Nat /\ Was(x).level \in Int
           /\ \A x \in Dragged : \A to \in Int : Shifted(x, to) \in Int
           /\ Undisturbed \in BOOLEAN /\ Duration \in Int /\ MaxLevel \in Int /\ MinLength \in Nat
<1>1. GripInv
  BY DEF PageInv, GestureInv
<1>2. drag \in Grip /\ Dragged \subseteq Made(doc) /\ drag.lead \in Dragged
  BY <1>1 DEF GripInv, Dragged
<1>3. drag.track \in Tracks /\ Dragged \subseteq Things /\ drag.was \in Values
  BY <1>2, PageIs DEF Grip
<1>4. ASSUME NEW x \in Dragged
      PROVE  Was(x).t \in Int /\ Was(x).size \in Nat /\ Was(x).level \in Int
  <2>1. drag.was[x] \in Attr
    BY <1>3, ValuesType DEF Dragged
  <2>2. \A f \in {"t", "size", "level"} : drag.was[x][f] \in Int
    BY <1>1 DEF GripInv, Dragged, Fields
  <2>3. drag.was[x].t \in Int /\ drag.was[x].size \in Int /\ drag.was[x].level \in Int
    BY <2>2
  <2>4. drag.was[x].size \in Nat \cup {Keep} /\ Keep \notin Int
    BY <2>1, EditingAssumption DEF Attr
  <2>5. QED
    BY <2>3, <2>4 DEF Was
<1>5. Duration \in Int /\ MaxLevel \in Int /\ MinLength \in Nat
  BY EditingAssumption
<1>6. ASSUME NEW x \in Dragged, NEW to \in Int PROVE Shifted(x, to) \in Int
  <2>1. Was(x).t \in Int /\ Was(drag.lead).t \in Int
    BY <1>2, <1>4
  <2>2. Was(x).t + to - Was(drag.lead).t \in Int /\ 0 \in Int
    BY <2>1
  <2>3. QED
    BY <1>5, <2>2, ClampType DEF Shifted
<1>7. Undisturbed \in BOOLEAN
  BY DEF Undisturbed
<1>8. QED
  BY <1>1, <1>2, <1>3, <1>4, <1>5, <1>6, <1>7

\* The old values a step of a drag says are those that it has read.
Recalls(was) ==
    /\ DOMAIN was = IF drag.part = "end" THEN {drag.lead} ELSE DOMAIN drag.was
    /\ \A x \in DOMAIN was : \A f \in Fields :
          /\ was[x][f] # Keep <=> f \in Dragging(drag.part)
          /\ was[x][f] # Keep => was[x][f] = drag.was[x][f]

LEMMA StepMerges ==
    ASSUME PageInv, drag # NoDrag, NEW b, NEW was, Changes(b, drag.track, was), Recalls(was), key = "g",
           NEW h \in BOOLEAN, NEW r, r = RunOn(Editor, <<b>>, "g", h)
    PROVE  /\ Whole(pasted, r) /\ r.key = "g" /\ Made(r.doc) = Made(doc) /\ Len(r.past) > 0
           /\ \E m : OnTop(r.past) = <<m>> /\ Own(drag, m)
<1> DEFINE c == past[Len(past)].cmds[1]
<1>1. Len(past) > 0 /\ Len(past[Len(past)].cmds) = 1 /\ Own(drag, c)
  BY GripIs DEF GripInv
<1>2. /\ Whole(pasted, Editor) /\ Editor.doc = doc /\ Editor.past = past /\ Editor.key = key
      /\ past \in Seq(Items)
  BY EditorWhole
<1>3. past[Len(past)].cmds \in Seq(AnyCommands)
  <2>1. past[Len(past)] \in Items
    BY <1>1, <1>2
  <2>2. QED
    BY <2>1, ItemIs
<1>4. c \in AnyCommands /\ OnTop(past) = <<c>>
  <2> DEFINE s == past[Len(past)].cmds
  <2>1. s \in Seq(AnyCommands) /\ Len(s) = 1
    BY <1>1, <1>3
  <2> HIDE DEF s
  <2>2. s[1] \in AnyCommands /\ s = <<s[1]>>
    BY <2>1
  <2>3. QED
    BY <2>2 DEF s, OnTop
<1> HIDE DEF c
<1>5. b \in AnyCommands /\ b.k \in Sets /\ b.was = was /\ b.things = <<>>
  BY DEF Changes
<1>6. DOMAIN c.was = DOMAIN was /\ c.k \in Sets
  BY <1>1 DEF Own, Recalls
<1>7. Alike(c, b)
  <2>1. ASSUME NEW x \in DOMAIN c.was, NEW f \in Fields PROVE c.was[x][f] = Keep <=> b.was[x][f] = Keep
    <3>1. c.was[x][f] # Keep <=> f \in Dragging(drag.part)
      BY <1>1, <2>1 DEF Own
    <3>2. was[x][f] # Keep <=> f \in Dragging(drag.part)
      BY <1>6, <2>1 DEF Recalls
    <3>3. QED
      BY <1>5, <3>1, <3>2
  <2>2. QED
    BY <1>5, <1>6, <2>1 DEF Alike
<1>8. DOMAIN b.was \subseteq Made(Editor.doc)
  <2>1. DOMAIN drag.was \subseteq Made(doc) /\ drag.lead \in DOMAIN drag.was
    BY GripIs DEF GripInv
  <2>2. QED
    BY <1>2, <1>5, <2>1 DEF Recalls
<1>9. Merged(pasted, Editor, c, b, "g", r)
  <2>1. "g" # NoKey /\ Editor.key = "g" /\ Len(Editor.past) > 0 /\ OnTop(Editor.past) = <<c>>
    BY <1>1, <1>2, <1>4 DEF NoKey
  <2>2. QED
    BY <1>2, <1>5, <1>7, <1>8, <2>1, RunOnMerge
<1>10. Own(drag, Merge(c, b))
  <2>1. Merge(c, b).k = b.k /\ Merge(c, b).was = c.was
    BY <1>4, <1>5, <1>7, MergeIs
  <2>2. QED
    BY <1>1, <1>5, <2>1 DEF Own
<1>11. QED
  <2>1. /\ Whole(pasted, r) /\ r.key = "g" /\ Made(r.doc) = Made(Editor.doc)
        /\ Len(r.past) = Len(Editor.past) /\ OnTop(r.past) = <<Merge(c, b)>>
    BY <1>9 DEF Merged
  <2>2. QED
    BY <1>1, <1>2, <1>10, <2>1

LEMMA StepPushes ==
    ASSUME PageInv, drag # NoDrag, drag.part # "start",
           NEW b, NEW was, Changes(b, drag.track, was), Recalls(was), key # "g",
           NEW h \in BOOLEAN, h => Undisturbed, NEW r, r = RunOn(Editor, <<b>>, "g", h)
    PROVE  /\ Whole(pasted, r) /\ r.key = "g" /\ Made(r.doc) = Made(doc) /\ Len(r.past) > 0
           /\ \E m : OnTop(r.past) = <<m>> /\ Own(drag, m)
<1>1. GripInv /\ doc \in Scores /\ Ok(doc, pasted)
  BY GripIs, PageIs
<1>2. key = NoKey
  BY <1>1 DEF GripInv, Keys
<1>3. /\ Whole(pasted, Editor) /\ Editor.doc = doc /\ Editor.past = past /\ Editor.key = key
      /\ past \in Seq(Items)
  BY EditorWhole
<1>4. h => Agrees(drag.was, doc)
  BY <1>1, <1>2 DEF Undisturbed, GripInv
<1>5. DOMAIN drag.was \subseteq Made(doc) /\ drag.lead \in DOMAIN drag.was
  BY <1>1 DEF GripInv
<1>6. DOMAIN was \subseteq DOMAIN drag.was /\ DOMAIN was \subseteq Made(doc)
  BY <1>5 DEF Recalls
<1>7. h => Says(was, doc)
  <2>1. ASSUME h, NEW x \in DOMAIN was, NEW f \in Fields, was[x][f] # Keep PROVE was[x][f] = doc[f][x]
    <3>1. was[x][f] = drag.was[x][f]
      BY <2>1 DEF Recalls
    <3>2. drag.was[x][f] = doc[f][x]
      BY <1>4, <1>6, <2>1 DEF Agrees
    <3>3. QED
      BY <3>1, <3>2
  <2>2. QED
    BY <2>1 DEF Says
<1>8. b \in AnyCommands /\ Fits(TRUE, h, b, doc) /\ Ok(ApplyOne(doc, b), pasted)
  BY <1>1, <1>6, <1>7, ChangeFits, ChangeOk DEF Changes
<1>9. /\ <<b>> \in Seq(AnyCommands) /\ Goes(TRUE, h, <<b>>, doc)
      /\ Outcome(TRUE, doc, <<b>>) = OneTurn(TRUE, doc, b)
  BY <1>1, <1>8, GoesOne
<1>10. Ok(Apply(doc, <<b>>), pasted)
  BY <1>8, <1>9 DEF Outcome, OneTurn
<1> DEFINE cmds == <<b>>
<1>11. /\ cmds \in Seq(AnyCommands) /\ Goes(TRUE, h, cmds, Editor.doc) /\ Ok(Apply(Editor.doc, cmds), pasted)
       /\ r = RunOn(Editor, cmds, "g", h)
  BY <1>3, <1>9, <1>10
<1> HIDE DEF cmds
<1>12. Pushed(pasted, Editor, cmds, "g", h, r)
  <2>1. ASSUME NEW k0, k0 = "g" PROVE Pushed(pasted, Editor, cmds, k0, h, r)
    <3>1. ~(k0 # NoKey /\ Editor.key = k0 /\ Len(Editor.past) > 0) /\ r = RunOn(Editor, cmds, k0, h)
      BY <1>3, <1>11, <2>1
    <3>2. QED
      BY <1>3, <1>11, <3>1, RunOnPush
  <2>2. QED
    BY <2>1
<1>13. Own(drag, b)
  BY DEF Own, Recalls, Changes
<1>14. QED
  <2>1. /\ Whole(pasted, r) /\ r.key = "g" /\ Made(r.doc) = Made(Editor.doc)
        /\ Len(r.past) = Len(Editor.past) + 1 /\ OnTop(r.past) = <<b>>
    BY <1>12 DEF Pushed, cmds
  <2>2. QED
    BY <1>3, <1>13, <2>1

\* What a step of a drag leaves.
LEMMA StepLeaves ==
    ASSUME PageInv, drag # NoDrag, drag' = drag, focus' = focus, pasted' = pasted,
           NEW r, Become(r), Whole(pasted, r), Made(r.doc) = Made(doc),
           r.key = "g" => /\ drag.part # "start" /\ Len(r.past) > 0
                          /\ \E m : OnTop(r.past) = <<m>> /\ Own(drag, m),
           r.key = "gr" => drag.part = "start" /\ Len(r.past) > Len(past),
           r.key \in {"g", "gr"}
    PROVE  PageInv'
<1>1. doc' = r.doc /\ past' = r.past /\ future' = r.future /\ key' = r.key
  BY DEF Become
<1>2. StackInv' /\ Made(doc)' = Made(doc)
  BY <1>1 DEF Whole, StackInv, Made
<1>3. FocusInv'
  BY <1>2, FocusStays DEF PageInv
<1>4. GripInv /\ drag \in Grip /\ drag' \in Grip
  BY GripIs
<1>5. /\ DOMAIN drag.was \subseteq Made(doc) /\ drag.lead \in DOMAIN drag.was
      /\ \A x \in DOMAIN drag.was : \A f \in Fields : drag.was[x][f] \in Int
  BY <1>4 DEF GripInv
<1>6. CASE r.key = "g"
  <2>1. PICK m : OnTop(r.past) = <<m>> /\ Own(drag, m)
    BY <1>6
  <2>2. Len(past') > 0 /\ past'[Len(past')].cmds = <<m>>
    BY <1>1, <1>6, <2>1 DEF OnTop
  <2>3. Len(past'[Len(past')].cmds) = 1 /\ past'[Len(past')].cmds[1] = m
    BY <2>2
  <2>4. Own(drag', past'[Len(past')].cmds[1])
    BY <2>1, <2>3
  <2>5. key' \in Keys /\ key' = "g" /\ key' # NoKey /\ key' # "gr" /\ drag'.part # "start"
    BY <1>1, <1>6 DEF Keys, NoKey
  <2>6. DOMAIN drag'.was \subseteq Made(doc)' /\ drag'.lead \in DOMAIN drag'.was
    BY <1>2, <1>5
  <2>7. \A x \in DOMAIN drag'.was : \A f \in Fields : drag'.was[x][f] \in Int
    BY <1>5
  <2>8. GripInv'
    BY <1>4, <2>2, <2>3, <2>4, <2>5, <2>6, <2>7 DEF GripInv
  <2>9. QED
    BY <1>2, <1>3, <2>8 DEF PageInv, GestureInv
<1>7. CASE r.key = "gr"
  <2>1. Len(past) \in Nat /\ Len(past') \in Nat /\ Len(past') > Len(past)
    <3>1. past \in Seq(Items) /\ r.past \in Seq(Items)
      BY EditorWhole DEF Whole, Held
    <3>2. QED
      BY <1>1, <1>7, <3>1
  <2>2. drag.part = "start" /\ drag.depth \in Nat /\ (~drag.stirred => Len(past) >= drag.depth)
    BY <1>4, <1>7 DEF GripInv, Grip
  <2>3. key' \in Keys /\ key' = "gr" /\ key' # NoKey /\ key' # "g"
    BY <1>1, <1>7 DEF Keys, NoKey
  <2>4. ~drag'.stirred => Len(past') >= drag'.depth /\ Len(past') # drag'.depth
    BY <2>1, <2>2
  <2>5. DOMAIN drag'.was \subseteq Made(doc)' /\ drag'.lead \in DOMAIN drag'.was
    BY <1>2, <1>5
  <2>6. \A x \in DOMAIN drag'.was : \A f \in Fields : drag'.was[x][f] \in Int
    BY <1>5
  <2>7. GripInv'
    BY <1>4, <2>2, <2>3, <2>4, <2>5, <2>6 DEF GripInv
  <2>8. QED
    BY <1>2, <1>3, <2>7 DEF PageInv, GestureInv
<1>8. QED
  BY <1>6, <1>7

LEMMA StepHolds ==
    ASSUME PageInv, drag # NoDrag, drag.part # "start", drag' = drag, focus' = focus, pasted' = pasted,
           NEW b, NEW was, Changes(b, drag.track, was), Recalls(was),
           Become(RunOn(Editor, <<b>>, "g", Undisturbed))
    PROVE  PageInv'
<1> DEFINE r == RunOn(Editor, <<b>>, "g", Undisturbed)
           h == Undisturbed
<1>1. h \in BOOLEAN /\ (h => Undisturbed) /\ r = RunOn(Editor, <<b>>, "g", h) /\ Become(r)
  BY GripIs
<1> HIDE DEF r, h
<1>2. /\ Whole(pasted, r) /\ r.key = "g" /\ Made(r.doc) = Made(doc) /\ Len(r.past) > 0
      /\ \E m : OnTop(r.past) = <<m>> /\ Own(drag, m)
  <2>1. CASE key = "g"
    BY <1>1, <2>1, StepMerges
  <2>2. CASE key # "g"
    BY <1>1, <2>2, StepPushes
  <2>3. QED
    BY <2>1, <2>2
<1>3. r.key \in {"g", "gr"} /\ r.key # "gr"
  BY <1>2
<1>4. QED
  BY <1>1, <1>2, <1>3, StepLeaves

LEMMA DragBodyHolds ==
    ASSUME PageInv, NEW to \in Int, DragBody(to), drag' = drag, focus' = focus, pasted' = pasted
    PROVE  PageInv'
<1> DEFINE from == [x \in Dragged |-> Was(x).t]
           will == [x \in Dragged |-> Shifted(x, to)]
           b == MoveCues(drag.track, from, will)
           was == [x \in Dragged |-> At(from[x], Keep, Keep)]
<1>1. drag.part = "body" /\ Become(RunOn(Editor, <<b>>, "g", Undisturbed))
  BY DEF DragBody
<1>2. drag # NoDrag /\ drag.part # "start"
  BY <1>1 DEF NoDrag
<1>3. from \in [Dragged -> Int] /\ will \in [Dragged -> Int] /\ drag.track \in Tracks /\ Dragged \subseteq Things
  BY <1>2, GripIs
<1>4. \A x \in Dragged : from[x] = drag.was[x]["t"] /\ from[x] \in Int
  BY <1>3 DEF Was
<1> HIDE DEF from, will
<1>5. Changes(b, drag.track, was)
  BY <1>3, MoveCuesIs
<1>6. Recalls(was)
  <2>1. DOMAIN was = DOMAIN drag.was
    BY DEF Dragged
  <2>2. ASSUME NEW x \in Dragged
        PROVE  was[x]["t"] = drag.was[x]["t"] /\ was[x]["t"] \in Int /\ was[x]["size"] = Keep /\ was[x]["level"] = Keep
    <3>1. was[x] = At(from[x], Keep, Keep)
      OBVIOUS
    <3> HIDE DEF was
    <3>2. QED
      BY <1>4, <3>1 DEF At
  <2> HIDE DEF was
  <2>3. Keep \notin Int /\ Dragging(drag.part) = {"t"}
    BY <1>1, EditingAssumption DEF Dragging
  <2>4. ASSUME NEW x \in DOMAIN was, NEW f \in Fields
        PROVE  /\ was[x][f] # Keep <=> f \in Dragging(drag.part)
               /\ was[x][f] # Keep => was[x][f] = drag.was[x][f]
    <3>1. x \in Dragged /\ f \in {"t", "size", "level"}
      BY <2>1 DEF Dragged, Fields
    <3>2. CASE f = "t"
      BY <2>2, <2>3, <3>1, <3>2
    <3>3. CASE f # "t"
      <4>1. was[x][f] = Keep
        BY <2>2, <3>1, <3>3
      <4>2. QED
        BY <2>3, <3>3, <4>1
    <3>4. QED
      BY <3>2, <3>3
  <2>5. QED
    BY <1>1, <2>1, <2>4 DEF Recalls
<1> HIDE DEF b, was
<1>7. QED
  BY <1>1, <1>2, <1>5, <1>6, StepHolds

LEMMA DragEndHolds ==
    ASSUME PageInv, NEW to \in Int, DragEnd(to), drag' = drag, focus' = focus, pasted' = pasted
    PROVE  PageInv'
<1> DEFINE x == drag.lead
           from == Was(x).size
           b == ResizeCues(drag.track, x, from, to - doc.t[x], MinLength)
           was == [y \in {x} |-> At(Keep, from, Keep)]
<1>1. drag.part = "end" /\ Become(RunOn(Editor, <<b>>, "g", Undisturbed))
  BY DEF DragEnd
<1>2. drag # NoDrag /\ drag.part # "start"
  BY <1>1 DEF NoDrag
<1>3. /\ x \in Things /\ x \in Made(doc) /\ from \in Nat /\ drag.track \in Tracks /\ MinLength \in Nat
      /\ from = drag.was[x]["size"] /\ doc.t[x] \in Int
  BY <1>2, GripIs, PageIs DEF Was
<1> HIDE DEF x, from
<1>4. to - doc.t[x] \in Int
  BY <1>3
<1>5. Changes(b, drag.track, was)
  BY <1>3, <1>4, ResizeCuesIs
<1>6. Recalls(was)
  <2>1. DOMAIN was = {drag.lead}
    BY DEF x
  <2>2. was[x]["size"] = from /\ was[x]["t"] = Keep /\ was[x]["level"] = Keep
    <3>1. was[x] = At(Keep, from, Keep)
      OBVIOUS
    <3> HIDE DEF was
    <3>2. QED
      BY <1>3, <3>1 DEF At
  <2> HIDE DEF was
  <2>3. Keep \notin Int /\ Dragging(drag.part) = {"size"}
    BY <1>1, EditingAssumption DEF Dragging
  <2>4. ASSUME NEW y \in DOMAIN was, NEW f \in Fields
        PROVE  /\ was[y][f] # Keep <=> f \in Dragging(drag.part)
               /\ was[y][f] # Keep => was[y][f] = drag.was[y][f]
    <3>1. y = x /\ f \in {"t", "size", "level"}
      BY <2>1 DEF x, Fields
    <3>2. CASE f = "size"
      <4>1. was[y][f] = from /\ drag.was[y][f] = from /\ from \in Int
        BY <1>3, <2>2, <3>1, <3>2
      <4>2. QED
        BY <2>3, <3>2, <4>1
    <3>3. CASE f # "size"
      <4>1. was[y][f] = Keep
        BY <2>2, <3>1, <3>3
      <4>2. QED
        BY <2>3, <3>3, <4>1
    <3>4. QED
      BY <3>2, <3>3
  <2>5. QED
    BY <1>1, <2>1, <2>4 DEF Recalls
<1> HIDE DEF b, was
<1>7. QED
  BY <1>1, <1>2, <1>5, <1>6, StepHolds

\* The attributes of a point that is moved.
LEMMA PointAt ==
    ASSUME NEW t \in Int, NEW l \in Int, NEW a, a = At(t, Keep, l)
    PROVE  a \in Attr /\ a["t"] = t /\ a["size"] = Keep /\ a["level"] = l
<1>1. a["t"] = t /\ a["size"] = Keep /\ a["level"] = l
  BY DEF At
<1>2. a \in Attr
  BY DEF At, Attr
<1>3. QED
  BY <1>1, <1>2

LEMMA DragPointsHolds ==
    ASSUME PageInv, NEW to \in Int, NEW level \in Int, DragPoints(to, level),
           drag' = drag, focus' = focus, pasted' = pasted
    PROVE  PageInv'
<1> DEFINE v(x) == Clamp(Was(x).level + level - Was(drag.lead).level, 0, MaxLevel)
           was == [x \in Dragged |-> At(Was(x).t, Keep, Was(x).level)]
           will == [x \in Dragged |-> At(Shifted(x, to), Keep, v(x))]
           b == MovePoints(drag.track, was, will)
<1>1. drag.part = "point" /\ Become(RunOn(Editor, <<b>>, "g", Undisturbed))
  BY DEF DragPoints
<1>2. drag # NoDrag /\ drag.part # "start"
  BY <1>1 DEF NoDrag
<1>3. drag.track \in Tracks /\ Dragged \subseteq Things /\ drag.lead \in Dragged /\ MaxLevel \in Int
  BY <1>2, GripIs
<1>k. Keep \notin Int
  BY EditingAssumption
<1>4. ASSUME NEW x \in Dragged
      PROVE  /\ was[x] \in Attr /\ will[x] \in Attr
             /\ \A f \in Fields : was[x][f] = Keep <=> will[x][f] = Keep
             /\ was[x]["t"] = drag.was[x]["t"] /\ was[x]["t"] \in Int
             /\ was[x]["size"] = Keep
             /\ was[x]["level"] = drag.was[x]["level"] /\ was[x]["level"] \in Int
  <2>1. Was(x).t \in Int /\ Was(x).level \in Int /\ Was(drag.lead).level \in Int /\ Shifted(x, to) \in Int
    BY <1>2, <1>3, GripIs
  <2>2. Was(x).level + level - Was(drag.lead).level \in Int /\ 0 \in Int
    BY <2>1
  <2>3. v(x) \in Int
    BY <1>3, <2>2, ClampType
  <2>4. was[x] = At(Was(x).t, Keep, Was(x).level) /\ will[x] = At(Shifted(x, to), Keep, v(x))
    OBVIOUS
  <2> HIDE DEF was, will, v
  <2>5. /\ was[x] \in Attr /\ was[x]["t"] = Was(x).t /\ was[x]["size"] = Keep /\ was[x]["level"] = Was(x).level
    BY <2>1, <2>4, PointAt
  <2>6. /\ will[x] \in Attr /\ will[x]["t"] = Shifted(x, to) /\ will[x]["size"] = Keep /\ will[x]["level"] = v(x)
    BY <2>1, <2>3, <2>4, PointAt
  <2>7. \A f \in Fields : was[x][f] = Keep <=> will[x][f] = Keep
    <3>1. was[x]["t"] # Keep /\ will[x]["t"] # Keep /\ was[x]["level"] # Keep /\ will[x]["level"] # Keep
      BY <1>k, <2>1, <2>3, <2>5, <2>6
    <3>2. QED
      BY <2>5, <2>6, <3>1, FieldByField
  <2>8. Was(x).t = drag.was[x]["t"] /\ Was(x).level = drag.was[x]["level"]
    BY DEF Was
  <2>9. QED
    BY <2>1, <2>5, <2>6, <2>7, <2>8
<1>5. was \in [Dragged -> Attr] /\ will \in [Dragged -> Attr]
  BY <1>4
<1>d. DOMAIN was = Dragged
  OBVIOUS
<1> HIDE DEF was, will
<1>6. Changes(b, drag.track, was)
  BY <1>3, <1>4, <1>5, MovePointsIs
<1>7. Recalls(was)
  <2>1. DOMAIN was = DOMAIN drag.was
    BY <1>d DEF Dragged
  <2>2. Dragging(drag.part) = {"t", "level"}
    BY <1>1 DEF Dragging
  <2>3. ASSUME NEW x \in DOMAIN was, NEW f \in Fields
        PROVE  /\ was[x][f] # Keep <=> f \in Dragging(drag.part)
               /\ was[x][f] # Keep => was[x][f] = drag.was[x][f]
    <3>1. x \in Dragged /\ f \in {"t", "size", "level"}
      BY <1>d DEF Fields
    <3>2. CASE f = "t"
      BY <1>k, <1>4, <2>2, <3>1, <3>2
    <3>3. CASE f = "size"
      BY <1>4, <2>2, <3>1, <3>3
    <3>4. CASE f = "level"
      BY <1>k, <1>4, <2>2, <3>1, <3>4
    <3>5. QED
      BY <3>1, <3>2, <3>3, <3>4
  <2>4. QED
    BY <1>1, <2>1, <2>3 DEF Recalls
<1> HIDE DEF b
<1>8. QED
  BY <1>1, <1>2, <1>6, <1>7, StepHolds

\* A change of attributes is an entry of its own.
LEMMA ChangePushed ==
    ASSUME NEW P, NEW e, Whole(P, e), NEW b, NEW k, NEW was, Changes(b, k, was),
           DOMAIN was \subseteq Made(e.doc), NEW h \in BOOLEAN, h => Says(was, e.doc),
           NEW g, e.key # g, NEW r, r = RunOn(e, <<b>>, g, h)
    PROVE  /\ Whole(P, r) /\ r.key = g /\ r.doc = ApplyOne(e.doc, b) /\ Made(r.doc) = Made(e.doc)
           /\ Len(r.past) = Len(e.past) + 1
<1> DEFINE d == e.doc
           cmds == <<b>>
<1>1. d \in Scores /\ Ok(d, P)
  BY DEF Whole, Ok
<1>2. b \in AnyCommands /\ Fits(TRUE, h, b, d) /\ Ok(ApplyOne(d, b), P)
  BY <1>1, ChangeFits, ChangeOk DEF Changes
<1>3. /\ cmds \in Seq(AnyCommands) /\ Goes(TRUE, h, cmds, d)
      /\ Outcome(TRUE, d, cmds) = OneTurn(TRUE, d, b)
  BY <1>1, <1>2, GoesOne
<1>4. Apply(d, cmds) = ApplyOne(d, b)
  BY <1>3 DEF Outcome, OneTurn
<1>5. Ok(Apply(e.doc, cmds), P) /\ Goes(TRUE, h, cmds, e.doc) /\ r = RunOn(e, cmds, g, h)
  BY <1>2, <1>3, <1>4
<1> HIDE DEF cmds
<1>6. Pushed(P, e, cmds, g, h, r)
  <2>1. ~(g # NoKey /\ e.key = g /\ Len(e.past) > 0)
    OBVIOUS
  <2>2. QED
    BY <1>3, <1>5, <2>1, RunOnPush
<1>7. QED
  BY <1>4, <1>6 DEF Pushed

LEMMA DragStartHolds ==
    ASSUME PageInv, NEW to \in Int, DragStart(to), drag' = drag, focus' = focus, pasted' = pasted
    PROVE  PageInv'
<1> DEFINE x == drag.lead
           t == Was(x).t
           size == Was(x).size
           end == t + size
           start == Clamp(to, 0, end - MinLength)
           move == MoveCues(drag.track, Just(x, t), Just(x, start))
           resize == ResizeCues(drag.track, x, size, end - start, MinLength)
           h == Undisturbed
           moved == RunOn(Editor, <<move>>, "g", h)
           r == RunOn(moved, <<resize>>, "gr", h)
           from == [y \in {x} |-> At(Just(x, t)[y], Keep, Keep)]
           long == [y \in {x} |-> At(Keep, size, Keep)]
<1>1. drag.part = "start" /\ Become(r)
  BY DEF DragStart
<1>2. drag # NoDrag
  BY <1>1 DEF NoDrag
<1>3. /\ GripInv /\ drag.track \in Tracks /\ x \in Things /\ x \in Made(doc) /\ x \in DOMAIN drag.was
      /\ t \in Int /\ size \in Nat /\ MinLength \in Nat /\ h \in BOOLEAN
      /\ t = drag.was[x]["t"] /\ size = drag.was[x]["size"]
  BY <1>2, GripIs DEF Was, Dragged
<1>4. key # "g"
  BY <1>1, <1>3 DEF GripInv
<1>5. /\ Whole(pasted, Editor) /\ Editor.doc = doc /\ Editor.past = past /\ Editor.key = key
      /\ past \in Seq(Items) /\ doc \in Document /\ doc \in Scores
  BY EditorWhole, PageIs
<1>6. h => doc.t[x] = t /\ doc.size[x] = size
  <2>1. h => Agrees(drag.was, doc)
    BY <1>1, <1>3 DEF Undisturbed, GripInv
  <2>2. doc["t"] = doc.t /\ doc["size"] = doc.size
    OBVIOUS
  <2>3. QED
    BY <1>3, <2>1, <2>2 DEF Agrees, Fields
<1>u. h => Undisturbed
  OBVIOUS
<1>r. Become(r) /\ moved = RunOn(Editor, <<move>>, "g", h) /\ r = RunOn(moved, <<resize>>, "gr", h)
  BY <1>1
<1> HIDE DEF h, t, size, x
<1>7. end \in Int /\ start \in Int /\ end - start \in Int
  <2>1. end \in Int /\ end - MinLength \in Int /\ 0 \in Int
    BY <1>3
  <2>2. start \in Int
    BY <2>1, ClampType
  <2> HIDE DEF start
  <2>3. QED
    BY <2>1, <2>2
<1> HIDE DEF end, start
<1>8. Changes(move, drag.track, from) /\ Just(x, t)[x] = t
  <2>1. Just(x, t) \in [{x} -> Int] /\ Just(x, start) \in [{x} -> Int] /\ {x} \subseteq Things
    BY <1>3, <1>7 DEF Just
  <2> DEFINE a == Just(x, t)
             b == Just(x, start)
  <2>2. Just(x, t)[x] = t
    BY DEF Just
  <2> HIDE DEF a, b
  <2>3. Changes(MoveCues(drag.track, a, b), drag.track, [y \in {x} |-> At(a[y], Keep, Keep)])
    BY <1>3, <2>1, MoveCuesIs DEF a, b
  <2>4. QED
    BY <2>2, <2>3 DEF a, b
<1>9. Changes(resize, drag.track, long)
  BY <1>3, <1>7, ResizeCuesIs
<1>10. h => Says(from, doc)
  <2> DEFINE a == Just(x, t)
  <2>1. h => \A y \in {x} : a[y] = doc.t[y]
    BY <1>6, <1>8
  <2> HIDE DEF a
  <2>2. h => Says([y \in {x} |-> At(a[y], Keep, Keep)], doc)
    BY <1>5, <2>1, MoveSays
  <2>3. QED
    BY <2>2 DEF a
<1>11. DOMAIN from = {x} /\ DOMAIN long = {x}
  OBVIOUS
<1>12. from[x]["size"] = Keep
  BY DEF At
<1> HIDE DEF from
<1>13. /\ Whole(pasted, moved) /\ moved.key = "g" /\ moved.doc = ApplyOne(doc, move)
       /\ Made(moved.doc) = Made(doc) /\ Len(moved.past) = Len(past) + 1
  <2> HIDE DEF move, moved
  <2>1. DOMAIN from \subseteq Made(Editor.doc) /\ (h => Says(from, Editor.doc)) /\ Editor.key # "g"
    BY <1>3, <1>4, <1>5, <1>10, <1>11
  <2>2. /\ Whole(pasted, moved) /\ moved.key = "g" /\ moved.doc = ApplyOne(Editor.doc, move)
        /\ Made(moved.doc) = Made(Editor.doc) /\ Len(moved.past) = Len(Editor.past) + 1
    BY <1>3, <1>5, <1>8, <1>r, <2>1, ChangePushed
  <2>3. QED
    BY <1>5, <2>2
<1> HIDE DEF moved, r, long
<1>14. moved.doc.size[x] = doc.size[x] /\ moved.doc \in Document
  <2> HIDE DEF move
  <2>1. move \in AnyCommands /\ move.k \in Sets /\ move.was = from /\ move.things = <<>>
    BY <1>8 DEF Changes
  <2>2. Known(move, doc)
    <3>1. ToSet(<<>>) = {}
      BY DEF ToSet
    <3>2. QED
      BY <1>3, <1>11, <2>1, <3>1 DEF Known
  <2>3. Reset(To(TRUE, move), doc, OneTurn(TRUE, doc, move))
    BY <1>5, <2>1, <2>2, SetIs
  <2>4. Reset(move.will, doc, moved.doc)
    BY <1>13, <2>3 DEF To, OneTurn
  <2>5. moved.doc["size"][x] = SetTo(move.will, doc, "size", x)
    BY <1>3, <2>4 DEF Reset, Fields
  <2>6. move.will[x]["size"] = Keep
    BY <1>11, <1>12, <2>1 DEF AnyCommands, Fields
  <2>7. SetTo(move.will, doc, "size", x) = doc["size"][x]
    BY <2>6 DEF SetTo
  <2>8. moved.doc \in Scores
    BY <1>13 DEF Whole, Ok
  <2>9. QED
    BY <2>5, <2>7, <2>8, ScoreIs
<1>15. h => Says(long, moved.doc)
  <2>1. h => size = moved.doc.size[x]
    BY <1>6, <1>14
  <2>2. QED
    BY <1>14, <2>1, ResizeSays DEF long
<1>16. /\ Whole(pasted, r) /\ r.key = "gr" /\ Made(r.doc) = Made(moved.doc)
       /\ Len(r.past) = Len(moved.past) + 1
  <2> HIDE DEF resize
  <2>1. DOMAIN long \subseteq Made(moved.doc) /\ moved.key # "gr"
    BY <1>3, <1>11, <1>13
  <2>2. QED
    BY <1>3, <1>9, <1>13, <1>15, <1>r, <2>1, ChangePushed
<1>17. r.key \in {"g", "gr"} /\ r.key # "g" /\ Len(r.past) > Len(past) /\ Made(r.doc) = Made(doc)
  <2>1. Len(past) \in Nat
    BY <1>5
  <2>2. QED
    BY <1>13, <1>16, <2>1
<1>18. QED
  BY <1>1, <1>2, <1>16, <1>17, <1>r, StepLeaves

LEMMA DragHolds ==
    ASSUME PageInv, NEW to \in Int, NEW v \in Int, Drag(to, v)
    PROVE  PageInv'
<1>1. drag' = drag /\ focus' = focus /\ pasted' = pasted
  BY DEF Drag
<1>2. DragBody(to) \/ DragEnd(to) \/ DragStart(to) \/ DragPoints(to, v)
  BY DEF Drag
<1>3. QED
  BY <1>1, <1>2, DragBodyHolds, DragEndHolds, DragStartHolds, DragPointsHolds

-----------------------------------------------------------------------------
(* What holds of the page, at every step *)

LEMMA TracksAre ==
    ASSUME PageInv, NEW k \in ToSet(doc.tracks) PROVE k \in Tracks
BY PageIs

LEMMA PointerHolds ==
    ASSUME PageInv, ByPointer
    PROVE  PageInv'
<1>1. CASE drag = NoDrag /\ \E k \in ToSet(doc.tracks) : \E x \in On(doc, k), S \in SUBSET On(doc, k),
              part \in {"body", "start", "end", "point"} : Press(part, k, x, S)
  <2>1. PICK k \in ToSet(doc.tracks) : \E x \in On(doc, k), S \in SUBSET On(doc, k),
              part \in {"body", "start", "end", "point"} : Press(part, k, x, S)
    BY <1>1
  <2>2. PICK x \in On(doc, k), S \in SUBSET On(doc, k),
              part \in {"body", "start", "end", "point"} : Press(part, k, x, S)
    BY <2>1
  <2>3. k \in Tracks
    BY TracksAre
  <2>4. QED
    BY <1>1, <2>2, <2>3, PressHolds
<1>2. CASE \E to \in 0..Duration, v \in Levels : Drag(to, v)
  <2>1. PICK to \in 0..Duration, v \in Levels : Drag(to, v)
    BY <1>2
  <2>2. to \in Int /\ v \in Int
    BY DEF Levels
  <2>3. QED
    BY <2>1, <2>2, DragHolds
<1>3. CASE Release
  BY <1>3, ReleaseHolds
<1>4. QED
  BY <1>1, <1>2, <1>3 DEF ByPointer

LEMMA KeyHolds ==
    ASSUME PageInv, ByKey
    PROVE  PageInv'
<1>1. CASE Undo \/ Redo
  BY <1>1, UndoHolds, RedoHolds
<1>2. CASE \E S \in SUBSET Shown(doc) : Cardinality(S) <= MaxSelected /\
               (DeleteSelection(S) \/ \E dt \in {-1, 1} : Nudge(S, dt))
  <2>1. PICK S \in SUBSET Shown(doc) : DeleteSelection(S) \/ \E dt \in {-1, 1} : Nudge(S, dt)
    BY <1>2
  <2>2. CASE DeleteSelection(S)
    BY <2>2, DeleteSelectionHolds
  <2>3. CASE \E dt \in {-1, 1} : Nudge(S, dt)
    <3>1. PICK dt \in {-1, 1} : Nudge(S, dt)
      BY <2>3
    <3>2. dt \in Int
      OBVIOUS
    <3>3. QED
      BY <3>1, <3>2, NudgeHolds
  <2>4. QED
    BY <2>1, <2>2, <2>3
<1>3. CASE \E k \in ToSet(doc.tracks) :
               Paste(k, <<0, Duration>>, 0, 0) \/ \E t \in Places : Paste(k, <<t>>, 0, 0)
  <2>1. PICK k \in ToSet(doc.tracks) :
               Paste(k, <<0, Duration>>, 0, 0) \/ \E t \in Places : Paste(k, <<t>>, 0, 0)
    BY <1>3
  <2>2. k \in Tracks /\ 0 \in Int /\ 0 \in Nat
    BY TracksAre
  <2>3. CASE Paste(k, <<0, Duration>>, 0, 0)
    <3>1. <<0, Duration>> \in Seq(Int)
      BY PlacesType
    <3>2. QED
      BY <2>2, <2>3, <3>1, PasteHolds
  <2>4. CASE \E t \in Places : Paste(k, <<t>>, 0, 0)
    <3>1. PICK t \in Places : Paste(k, <<t>>, 0, 0)
      BY <2>4
    <3>2. <<t>> \in Seq(Int)
      BY PlacesType
    <3>3. QED
      BY <2>2, <3>1, <3>2, PasteHolds
  <2>5. QED
    BY <2>1, <2>3, <2>4
<1>4. CASE \E k \in ToSet(doc.tracks) \cap CueTracks :
               \/ \E S \in SUBSET On(doc, k) : Duplicate(k, S)
               \/ \E x \in On(doc, k), at \in Places : Split(k, x, at)
  <2>1. PICK k \in CueTracks :
               \/ \E S \in SUBSET On(doc, k) : Duplicate(k, S)
               \/ \E x \in On(doc, k), at \in Places : Split(k, x, at)
    BY <1>4
  <2>2. CASE \E S \in SUBSET On(doc, k) : Duplicate(k, S)
    BY <2>2, DuplicateHolds
  <2>3. CASE \E x \in On(doc, k), at \in Places : Split(k, x, at)
    <3>1. PICK x \in On(doc, k), at \in Places : Split(k, x, at)
      BY <2>3
    <3>2. at \in Int
      BY PlacesType
    <3>3. QED
      BY <3>1, <3>2, SplitHolds
  <2>4. QED
    BY <2>1, <2>2, <2>3
<1>5. QED
  BY <1>1, <1>2, <1>3, <1>4 DEF ByKey

LEMMA FieldHolds ==
    ASSUME PageInv, ByField
    PROVE  PageInv'
<1>1. CASE \E t \in 0..Duration : InspectTime(t)
  <2>1. PICK t \in 0..Duration : InspectTime(t)
    BY <1>1
  <2>2. t \in Int
    OBVIOUS
  <2>3. QED
    BY <2>1, <2>2, InspectTimeHolds
<1>2. CASE \E size \in 1..Duration : InspectLength(size)
  <2>1. PICK size \in 1..Duration : InspectLength(size)
    BY <1>2
  <2>2. size \in Int
    OBVIOUS
  <2>3. QED
    BY <2>1, <2>2, InspectLengthHolds
<1>3. CASE \E v \in Levels : InspectParam(v) \/ InspectValue(v)
  <2>1. PICK v \in Levels : InspectParam(v) \/ InspectValue(v)
    BY <1>3
  <2>2. v \in Int
    BY DEF Levels
  <2>3. QED
    BY <2>1, <2>2, InspectParamHolds, InspectValueHolds
<1>4. QED
  BY <1>1, <1>2, <1>3 DEF ByField

LEMMA ClickHolds ==
    ASSUME PageInv, ByClick
    PROVE  PageInv'
<1>1. CASE \E k \in ToSet(doc.tracks) :
              \/ \E S \in SUBSET On(doc, k) : RemoveSome(k, S)
              \/ \E at \in Places : InsertPreset(k, at, 1, MaxLevel)
  <2>1. PICK k \in ToSet(doc.tracks) :
              \/ \E S \in SUBSET On(doc, k) : RemoveSome(k, S)
              \/ \E at \in Places : InsertPreset(k, at, 1, MaxLevel)
    BY <1>1
  <2>2. k \in Tracks
    BY TracksAre
  <2>3. CASE \E S \in SUBSET On(doc, k) : RemoveSome(k, S)
    BY <2>2, <2>3, RemoveSomeHolds
  <2>4. CASE \E at \in Places : InsertPreset(k, at, 1, MaxLevel)
    <3>1. PICK at \in Places : InsertPreset(k, at, 1, MaxLevel)
      BY <2>4
    <3>2. at \in Int /\ 1 \in Nat /\ MaxLevel \in Int
      BY PlacesType
    <3>3. QED
      BY <2>2, <3>1, <3>2, InsertPresetHolds
  <2>5. QED
    BY <2>1, <2>3, <2>4
<1>2. CASE \E k \in ToSet(doc.tracks) \cap CueTracks : \E x \in On(doc, k) : ToggleSpan(k, x)
  <2>1. PICK k \in ToSet(doc.tracks) : \E x \in On(doc, k) : ToggleSpan(k, x)
    BY <1>2
  <2>2. k \in Tracks
    BY TracksAre
  <2>3. QED
    BY <2>1, <2>2, ToggleSpanHolds
<1>3. CASE \E k \in ToSet(doc.tracks) \cap CurveTracks :
              \/ \E t \in Places, v \in Levels : AddPoint(k, t, v)
              \/ \E S \in SUBSET On(doc, k) \ {{}} :
                     SmoothPoints(k, S) \/ \E to \in [S -> Levels] : ScaleAmplitude(k, to)
  <2>1. PICK k \in ToSet(doc.tracks) \cap CurveTracks :
              \/ \E t \in Places, v \in Levels : AddPoint(k, t, v)
              \/ \E S \in SUBSET On(doc, k) \ {{}} :
                     SmoothPoints(k, S) \/ \E to \in [S -> Levels] : ScaleAmplitude(k, to)
    BY <1>3
  <2>2. k \in Tracks /\ k \in CurveTracks
    BY TracksAre
  <2>3. CASE \E t \in Places, v \in Levels : AddPoint(k, t, v)
    <3>1. PICK t \in Places, v \in Levels : AddPoint(k, t, v)
      BY <2>3
    <3>2. t \in Int /\ v \in Int
      BY PlacesType DEF Levels
    <3>3. QED
      BY <2>2, <3>1, <3>2, AddPointHolds
  <2>4. CASE \E S \in SUBSET On(doc, k) \ {{}} :
                     SmoothPoints(k, S) \/ \E to \in [S -> Levels] : ScaleAmplitude(k, to)
    <3>1. PICK S \in SUBSET On(doc, k) :
                     SmoothPoints(k, S) \/ \E to \in [S -> Levels] : ScaleAmplitude(k, to)
      BY <2>4
    <3>2. CASE SmoothPoints(k, S)
      BY <2>2, <3>2, SmoothPointsHolds
    <3>3. CASE \E to \in [S -> Levels] : ScaleAmplitude(k, to)
      BY <2>2, <3>1, <3>3, ScaleAmplitudeHolds
    <3>4. QED
      BY <3>1, <3>2, <3>3
  <2>5. QED
    BY <2>1, <2>3, <2>4
<1>4. CASE \E k \in CurveTracks : AddTrack(k)
  BY <1>4, AddTrackHolds
<1>5. CASE \E i \in DOMAIN doc.tracks : RemoveTrack(i)
  BY <1>5, RemoveTrackHolds
<1>6. CASE ClearFocus
  BY <1>6, ClearFocusHolds
<1>7. QED
  BY <1>1, <1>2, <1>3, <1>4, <1>5, <1>6 DEF ByClick

LEMMA PageHolds ==
    ASSUME PageInv, [Next]_vars
    PROVE  PageInv'
<1>1. CASE Next
  BY <1>1, PointerHolds, KeyHolds, FieldHolds, ClickHolds DEF Next
<1>2. CASE UNCHANGED vars
  BY <1>2 DEF vars, PageInv, StackInv, GestureInv, GripInv, FocusInv
<1>3. QED
  BY <1>1, <1>2

LEMMA InitHolds ==
    ASSUME Init
    PROVE  PageInv
<1>1. /\ First \in Document /\ First.on \in [Tracks -> Seq(Things)] /\ First.tracks \in Seq(Tracks)
      /\ First.t \in [Things -> Int \cup {Keep}] /\ Keep \notin Int
  BY FirstAssumption, EditingAssumption DEF Document
<1>2. ASSUME NEW k \in Tracks PROVE On(First, k) \subseteq Made(First)
  <2>1. First.on[k] \in Seq(Things)
    BY <1>1
  <2>2. ToSet(First.on[k]) = {First.on[k][i] : i \in 1..Len(First.on[k])} /\ ToSet(First.on[k]) \subseteq Things
        /\ DOMAIN First.on[k] = 1..Len(First.on[k])
    BY <2>1, ToSetOf
  <2>3. \A i \in DOMAIN First.on[k] : First.t[First.on[k][i]] \in Int
    BY FirstAssumption
  <2>4. ASSUME NEW x \in On(First, k) PROVE x \in Made(First)
    <3>1. PICK i \in 1..Len(First.on[k]) : x = First.on[k][i]
      BY <2>2 DEF On
    <3>2. x \in Things /\ First.t[x] \in Int
      BY <2>2, <2>3, <3>1 DEF On
    <3>3. QED
      BY <1>1, <3>2 DEF Made
  <2>5. QED
    BY <2>4
<1>3. First \in Scores
  BY <1>1, <1>2 DEF Scores
<1>4. \A i, j \in 1..Len(First.tracks) : First.tracks[i] = First.tracks[j] => i = j
  <2>1. DOMAIN First.tracks = 1..Len(First.tracks)
    BY <1>1
  <2>2. QED
    BY <2>1, FirstAssumption
<1>5. \A k \in Tracks : \A j \in Tracks \ {k} : On(First, k) \cap On(First, j) = {}
  BY FirstAssumption DEF On
<1>6. ASSUME NEW k \in CurveTracks, NEW x \in Things, On(First, k) = {x} PROVE FALSE
  <2> DEFINE s == First.on[k]
  <2>1. k \in Tracks
    BY DEF Tracks
  <2>2. s \in Seq(Things) /\ Len(s) # 1 /\ \A i, j \in DOMAIN s : i < j => s[i] # s[j]
    BY <1>1, <2>1, FirstAssumption
  <2>3. ToSet(s) = {s[i] : i \in 1..Len(s)} /\ ToSet(s) = {x}
    BY <1>6, <2>2, ToSetOf DEF On
  <2> HIDE DEF s
  <2>4. Len(s) \in Nat /\ DOMAIN s = 1..Len(s)
    BY <2>2
  <2>5. Len(s) > 1
    <3>1. PICK i \in 1..Len(s) : s[i] = x
      BY <2>3
    <3>2. QED
      BY <2>2, <2>4, <3>1
  <2>6. s[1] = x /\ s[2] = x /\ 1 \in DOMAIN s /\ 2 \in DOMAIN s
    <3>1. 1 \in 1..Len(s) /\ 2 \in 1..Len(s)
      BY <2>4, <2>5
    <3>2. s[1] \in ToSet(s) /\ s[2] \in ToSet(s)
      BY <2>3, <3>1
    <3>3. QED
      BY <2>3, <2>4, <3>1, <3>2
  <2>7. QED
    BY <2>2, <2>6
<1>7. Ok(First, {})
  BY <1>3, <1>4, <1>5, <1>6 DEF Ok
<1>8. doc = First /\ past = <<>> /\ future = <<>> /\ pasted = {} /\ key = NoKey /\ drag = NoDrag /\ focus = NoFocus
  BY DEF Init
<1>9. StackInv
  BY <1>7, <1>8, HeldNone DEF StackInv
<1>10. QED
  BY <1>8, <1>9 DEF PageInv, GestureInv, FocusInv

-----------------------------------------------------------------------------
(* What undo and redo promise *)

LEMMA MatchesSame ==
    ASSUME NEW d \in Scores, NEW e \in Scores, Matches(TRUE, d, e)
    PROVE  Same(d, e)
<1>1. /\ d.tracks = e.tracks /\ \A k \in Tracks : On(d, k) = On(e, k)
      /\ \A x \in Made(e) : \A f \in Fields : Spoken(f, x) => d[f][x] = e[f][x]
  BY DEF Matches
<1>2. d.tracks \in Seq(Tracks) /\ \A i \in DOMAIN d.tracks : d.tracks[i] \in Tracks
  BY ScoreIs
<1>3. ASSUME NEW x \in Shown(d)
      PROVE  d.t[x] = e.t[x] /\ d.size[x] = e.size[x] /\ (x \in Points => d.level[x] = e.level[x])
  <2>1. PICK i \in DOMAIN d.tracks : x \in On(d, d.tracks[i])
    BY DEF Shown
  <2>2. x \in Made(e)
    <3>1. x \in On(e, d.tracks[i]) /\ d.tracks[i] \in Tracks
      BY <1>1, <1>2, <2>1
    <3>2. QED
      BY <3>1, ScoreIs
  <2>3. \A f \in {"t", "size", "level"} : (f = "level" => x \in Points) => d[f][x] = e[f][x]
    BY <1>1, <2>2 DEF Fields, Spoken
  <2>4. d["t"][x] = e["t"][x] /\ d["size"][x] = e["size"][x] /\ (x \in Points => d["level"][x] = e["level"][x])
    BY <2>3
  <2>5. QED
    BY <2>4
<1>4. QED
  BY <1>1, <1>2, <1>3 DEF Same

\* One entry after another is taken back, or done again.
Chain(forth, d, s, n, out) ==
    out = [i \in 0..n |-> IF i = 0 THEN d ELSE Outcome(forth, out[i - 1], s[Len(s) + 1 - i].cmds)]

LEMMA ChainExists ==
    ASSUME NEW forth, NEW d, NEW s, NEW n \in Nat
    PROVE  \E out : Chain(forth, d, s, n, out)
<1> DEFINE step(a, i) == Outcome(forth, a, s[Len(s) + 1 - i].cmds)
           Begun(i, out) == /\ out = [j \in 0..i |-> out[j]] /\ out[0] = d
                            /\ \A j \in 1..i : out[j] = step(out[j - 1], j)
<1> HIDE DEF step
<1>1. \E out : Begun(n, out)
  <2> DEFINE T == {i \in 0..n : \E out : Begun(i, out)}
  <2>1. 0 \in T
    <3> DEFINE out == [j \in 0..0 |-> d]
    <3>1. Begun(0, out)
      OBVIOUS
    <3> HIDE DEF Begun, out
    <3>2. \E o : Begun(0, o)
      BY <3>1
    <3>3. QED
      BY <3>2
  <2>2. ASSUME NEW i \in 1..n, i - 1 \in T PROVE i \in T
    <3>1. PICK out : Begun(i - 1, out)
      <4> HIDE DEF Begun
      <4>1. QED
        BY <2>2
    <3> DEFINE more == [j \in 0..i |-> IF j = i THEN step(out[i - 1], i) ELSE out[j]]
    <3>2. Begun(i, more)
      <4>1. i \in Nat /\ i >= 1 /\ 0 \in 0..i
        OBVIOUS
      <4>2. more = [j \in 0..i |-> more[j]] /\ more[0] = d
        BY <3>1, <4>1
      <4>3. ASSUME NEW j \in 1..i PROVE more[j] = step(more[j - 1], j)
        <5>1. more[j - 1] = out[j - 1]
          BY <4>1
        <5>2. CASE j = i
          BY <4>1, <5>1, <5>2
        <5>3. CASE j # i
          <6>1. j \in 1..(i - 1) /\ more[j] = out[j]
            BY <4>1, <5>3
          <6>2. QED
            BY <3>1, <5>1, <6>1
        <5>4. QED
          BY <5>2, <5>3
      <4> HIDE DEF more
      <4>4. QED
        BY <4>2, <4>3
    <3> HIDE DEF Begun, more
    <3>3. \E o : Begun(i, o)
      BY <3>2
    <3>4. QED
      BY <3>3
  <2>3. 0..n \subseteq T
    <3> HIDE DEF T
    <3>1. QED
      BY <2>1, <2>2, StepByStep
  <2>4. n \in T
    <3> HIDE DEF T
    <3>1. QED
      BY <2>3
  <2> HIDE DEF Begun
  <2>5. QED
    BY <2>4
<1>2. PICK out : Begun(n, out)
  <2> HIDE DEF Begun
  <2>1. QED
    BY <1>1
<1>3. ASSUME NEW i \in 0..n PROVE out[i] = IF i = 0 THEN d ELSE step(out[i - 1], i)
  <2>1. out[0] = d /\ \A j \in 1..n : out[j] = step(out[j - 1], j)
    BY <1>2
  <2>2. CASE i = 0
    BY <2>1, <2>2
  <2>3. CASE i # 0
    <3>1. i \in 1..n
      BY <2>3
    <3>2. QED
      BY <2>1, <2>3, <3>1
  <2>4. QED
    BY <2>2, <2>3
<1>4. out = [i \in 0..n |-> out[i]]
  BY <1>2
<1>5. out = [i \in 0..n |-> IF i = 0 THEN d ELSE step(out[i - 1], i)]
  BY <1>3, <1>4
<1>6. QED
  BY <1>5 DEF step, Chain

LEMMA ChainIs ==
    ASSUME NEW forth \in BOOLEAN, NEW P, NEW s, NEW d \in Scores, Held(forth, P, s, d), NEW n \in 1..Len(s),
           \A i \in (Len(s) + 1 - n)..Len(s) : s[i].honest,
           NEW out, Chain(forth, d, s, n, out)
    PROVE  /\ out[n] \in Scores /\ s[Len(s) + 1 - n].of \in Scores
           /\ Matches(TRUE, out[n], s[Len(s) + 1 - n].of)
<1> DEFINE L == Len(s)
           seen(i) == IF i = 0 THEN d ELSE s[L + 1 - i].of
           T == {i \in 0..n : out[i] \in Scores /\ seen(i) \in Scores /\ Matches(TRUE, out[i], seen(i))}
<1>1. s \in Seq(Items) /\ L \in Nat /\ n \in Nat /\ \A i \in 1..L : Link(forth, P, s[i], After(s, i, d))
  BY DEF Held
<1>2. out[0] = d /\ \A i \in 1..n : out[i] = Outcome(forth, out[i - 1], s[L + 1 - i].cmds)
  <2>1. 0 \in 0..n /\ \A i \in 1..n : i \in 0..n /\ i # 0
    BY <1>1
  <2>2. QED
    BY <2>1 DEF Chain
<1>3. 0 \in T
  <2>1. Matches(TRUE, d, d)
    BY MatchesSelf
  <2>2. out[0] = d /\ seen(0) = d /\ 0 \in 0..n
    BY <1>1, <1>2
  <2> HIDE DEF seen
  <2>3. QED
    BY <2>1, <2>2
<1>4. ASSUME NEW i \in 1..n, i - 1 \in T PROVE i \in T
  <2> DEFINE j == L + 1 - i
             e == s[j]
             a == out[i - 1]
             b == After(s, j, d)
  <2>1. j \in 1..L /\ j >= L + 1 - n /\ i \in 0..n /\ i # 0
    BY <1>1
  <2>2. e.honest /\ e \in Items /\ Link(forth, P, e, b)
    BY <1>1, <2>1
  <2>3. b = seen(i - 1)
    <3>1. CASE i = 1
      <4>1. j = Len(s)
        BY <1>1, <3>1
      <4>2. QED
        BY <3>1, <4>1 DEF After
    <3>2. CASE i # 1
      <4>1. j # Len(s) /\ i - 1 # 0 /\ j + 1 = L + 1 - (i - 1)
        BY <1>1, <3>2
      <4>2. QED
        BY <4>1 DEF After
    <3>3. QED
      BY <3>1, <3>2
  <2>4. a \in Scores /\ b \in Scores /\ Matches(TRUE, a, b)
    BY <1>4, <2>3
  <2>5. out[i] = Outcome(forth, a, e.cmds) /\ seen(i) = e.of
    BY <1>2, <2>1
  <2> HIDE DEF a, b, e, seen
  <2>6. e.cmds \in Seq(AnyCommands) /\ e.of \in Scores /\ e.honest = TRUE
    BY <2>2, ItemIs
  <2>7. Goes(forth, TRUE, e.cmds, b) /\ Matches(TRUE, Outcome(forth, b, e.cmds), e.of)
    BY <2>2, <2>6 DEF Link
  <2>8. /\ Outcome(forth, a, e.cmds) \in Scores
        /\ Matches(TRUE, Outcome(forth, a, e.cmds), Outcome(forth, b, e.cmds))
    BY <2>4, <2>6, <2>7, BatchMatch
  <2>9. Matches(TRUE, Outcome(forth, a, e.cmds), e.of)
    BY <2>7, <2>8, MatchesOn
  <2>10. QED
    BY <2>1, <2>5, <2>6, <2>8, <2>9
<1>5. n \in T
  <2> HIDE DEF T
  <2>1. 0..n \subseteq T
    BY <1>1, <1>3, <1>4, StepByStep
  <2>2. QED
    BY <1>1, <2>1
<1>6. n # 0
  OBVIOUS
<1>7. QED
  BY <1>5, <1>6

LEMMA UndoPromise ==
    ASSUME PageInv PROVE UndoRestores
<1>1. doc \in Scores /\ Held(FALSE, pasted, past, doc) /\ past \in Seq(Items)
  BY PageIs DEF PageInv, StackInv, Held
<1>2. ASSUME NEW n \in 1..Len(past), \A i \in (Len(past) + 1 - n)..Len(past) : past[i].honest
      PROVE  Same(UndoneBy(n), past[Len(past) + 1 - n].of)
  <2> DEFINE Runs(out) == out = [i \in 0..n |-> IF i = 0 THEN doc
                                                ELSE Revert(out[i - 1], past[Len(past) + 1 - i].cmds)]
             undone == CHOOSE out : Runs(out)
  <2>1. n \in Nat
    BY <1>1
  <2>2. \A a, cmds : Outcome(FALSE, a, cmds) = Revert(a, cmds)
    BY DEF Outcome
  <2>3. PICK out : Chain(FALSE, doc, past, n, out)
    BY <2>1, ChainExists
  <2>4. Runs(out)
    BY <2>2, <2>3 DEF Chain
  <2>5. Runs(undone)
    <3> HIDE DEF Runs
    <3>1. QED
      BY <2>4
  <2>6. UndoneBy(n) = undone[n]
    BY Zenon DEF UndoneBy
  <2> HIDE DEF undone
  <2>7. Chain(FALSE, doc, past, n, undone)
    BY <2>2, <2>5 DEF Chain
  <2>8. /\ undone[n] \in Scores /\ past[Len(past) + 1 - n].of \in Scores
        /\ Matches(TRUE, undone[n], past[Len(past) + 1 - n].of)
    <3>1. FALSE \in BOOLEAN
      OBVIOUS
    <3>2. QED
      BY <1>1, <1>2, <2>7, <3>1, ChainIs
  <2>9. QED
    BY <2>6, <2>8, MatchesSame
<1>3. QED
  BY <1>2 DEF UndoRestores

LEMMA RedoPromise ==
    ASSUME PageInv PROVE RedoRestores
<1>1. doc \in Scores /\ Held(TRUE, pasted, future, doc) /\ future \in Seq(Items)
  BY PageIs DEF PageInv, StackInv, Held
<1>2. ASSUME NEW n \in 1..Len(future), \A i \in (Len(future) + 1 - n)..Len(future) : future[i].honest
      PROVE  Same(RedoneBy(n), future[Len(future) + 1 - n].of)
  <2> DEFINE Runs(out) == out = [i \in 0..n |-> IF i = 0 THEN doc
                                                ELSE Apply(out[i - 1], future[Len(future) + 1 - i].cmds)]
             redone == CHOOSE out : Runs(out)
  <2>1. n \in Nat
    BY <1>1
  <2>2. \A a, cmds : Outcome(TRUE, a, cmds) = Apply(a, cmds)
    BY DEF Outcome
  <2>3. PICK out : Chain(TRUE, doc, future, n, out)
    BY <2>1, ChainExists
  <2>4. Runs(out)
    BY <2>2, <2>3 DEF Chain
  <2>5. Runs(redone)
    <3> HIDE DEF Runs
    <3>1. QED
      BY <2>4
  <2>6. RedoneBy(n) = redone[n]
    BY Zenon DEF RedoneBy
  <2> HIDE DEF redone
  <2>7. Chain(TRUE, doc, future, n, redone)
    BY <2>2, <2>5 DEF Chain
  <2>8. /\ redone[n] \in Scores /\ future[Len(future) + 1 - n].of \in Scores
        /\ Matches(TRUE, redone[n], future[Len(future) + 1 - n].of)
    <3>1. TRUE \in BOOLEAN
      OBVIOUS
    <3>2. QED
      BY <1>1, <1>2, <2>7, <3>1, ChainIs
  <2>9. QED
    BY <2>6, <2>8, MatchesSame
<1>3. QED
  BY <1>2 DEF RedoRestores

LEMMA CurvesPromise ==
    ASSUME PageInv PROVE CurvesAreSaveable
<1>1. Ok(doc, pasted) /\ doc \in Scores
  BY PageIs
<1>2. ASSUME NEW i \in DOMAIN doc.tracks, doc.tracks[i] \in CurveTracks, Len(doc.on[doc.tracks[i]]) = 1
      PROVE  On(doc, doc.tracks[i]) \subseteq pasted
  <2> DEFINE k == doc.tracks[i]
             s == doc.on[k]
  <2>1. k \in CurveTracks /\ s \in Seq(Things) /\ Len(s) = 1 /\ On(doc, k) = ToSet(s)
    BY <1>1, <1>2, ScoreIs DEF Tracks
  <2> HIDE DEF k, s
  <2>2. ToSet(s) = {s[j] : j \in 1..Len(s)}
    <3>1. s \in Seq(Things)
      BY <2>1
    <3>2. QED
      BY <3>1, ToSetOf, Zenon
  <2>3. On(doc, k) = {s[1]} /\ s[1] \in Things
    <3>1. 1..Len(s) = {1}
      BY <2>1
    <3>2. s[1] \in Things
      <4>1. s \in Seq(Things) /\ 1 \in 1..Len(s)
        BY <2>1, <3>1
      <4>2. QED
        BY <4>1, ElementOfSeq, Zenon
    <3>3. QED
      BY <2>1, <2>2, <3>1, <3>2, Zenon
  <2>4. s[1] \in pasted
    BY <1>1, <2>1, <2>3 DEF Ok
  <2>5. QED
    BY <2>3, <2>4 DEF k
<1>3. QED
  BY <1>2 DEF CurvesAreSaveable

\* The page is as the invariant says, from the document opened, by every edit,
\* gesture, undo and redo.
LEMMA PageAlways == Spec => []PageInv
<1>1. Init => PageInv
  BY InitHolds
<1>2. PageInv /\ [Next]_vars => PageInv'
  BY PageHolds
<1>3. QED
  BY <1>1, <1>2, PTL DEF Spec

\* However many times undo is pressed, the document is as the edit taken back last
\* found it, whatever gestures, menus, keys and fields made the edits, and
\* however often they were undone and done again (core/history.ts apply, revert,
\* mergeInto, undo); as long as none of them was made by a gesture that had read
\* the document before another edit changed it.
THEOREM UndoBringsBack == Spec => []UndoRestores
<1>1. PageInv => UndoRestores
  BY UndoPromise
<1>2. QED
  BY <1>1, PageAlways, PTL

\* However many times redo is pressed, the document looks as it did when the edit
\* done again last was undone, under the same proviso (core/history.ts redo).
THEOREM RedoBringsBack == Spec => []RedoRestores
<1>1. PageInv => RedoRestores
  BY RedoPromise
<1>2. QED
  BY <1>1, PageAlways, PTL

\* Every curve the page can make has no point or several, as the score format
\* requires, unless its only point came from the clipboard (core/history.ts
\* withOrphans, ui/useEditing.ts onDoubleClick, which begins a curve with two).
THEOREM CurvesStaySaveable == Spec => []CurvesAreSaveable
<1>1. PageInv => CurvesAreSaveable
  BY CurvesPromise
<1>2. QED
  BY <1>1, PageAlways, PTL
=============================================================================
