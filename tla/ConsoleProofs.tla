---------------------------- MODULE ConsoleProofs ----------------------------
(***************************************************************************)
(* What is proved of the timeline and of the pages beside it.               *)
(*                                                                         *)
(* Of the pages: two facts about the rigs of a studio, for every shelf of    *)
(* valid rigs and any number of pages, requests and other browsers, one     *)
(* about the queue, for any number of films, pieces and restarts, and one   *)
(* about the stage, whatever storage held.  None is inductive.  What a page *)
(* shows came from the rig in use, which came from a file of the shelf,     *)
(* which a request may have put there: all of them hold devices that would  *)
(* start.  And a file that is in use stays in use only because it is on the *)
(* shelf.  A finished piece stays because what runs is a job of a film that *)
(* is known, and only an analysis has pieces.  The stage reopens as it was  *)
(* because what is usable stays as it is when it is made usable again.      *)
(*                                                                         *)
(* Of the timeline: that the window goes where it is sent, and what is seen *)
(* in it, for every film, score, width and arrangement.  What is inductive  *)
(* is little: the window lies in the film, and the order is a list of names.*)
(* The rest is what the loops of the drawing make of it: each is a function *)
(* of how far it got, and a fact about it holds because every turn keeps it.*)
(***************************************************************************)
EXTENDS Console, Canvas, FiniteSetTheorems, SequenceTheorems, WellFoundedInduction, TLAPS

Request == [op : {"", "select", "new", "import", "delete", "rename"}, file : Nat, to : Nat]
Call == [what : {"load", "save", "do"}, todo : SUBSET {"rig", "list", "save", "do"},
         asked : Request, devices : Seq(Startable),
         rigs : SUBSET Nat, current : Nat, ok : BOOLEAN]

\* Every rig there is, on the shelf, in use, on a page or on its way, is startable.
ShelfInv ==
    /\ DOMAIN shelf \subseteq Nat /\ IsFiniteSet(DOMAIN shelf)
    /\ \A f \in DOMAIN shelf : shelf[f] \in Seq(Startable)
    /\ inUse \in [file : DOMAIN shelf, rig : Seq(Startable)]
PageInv ==
    /\ {"devices", "rigs", "current"} \subseteq DOMAIN rigPage
    /\ rigPage.devices \in Seq(Startable)
    /\ rigPage.rigs \subseteq Nat /\ rigPage.current \in Nat
CallsInv == rigCalls \in Seq(Call)

RigInv == ShelfInv /\ PageInv /\ CallsInv

-----------------------------------------------------------------------------
(* Numbers and sequences *)

LEMMA MinBelongs ==
    ASSUME NEW S, S \subseteq Nat, S # {}
    PROVE  Min(S) \in S /\ \A y \in S : Min(S) <= y
<1> DEFINE Less == OpToRel(<, Nat)
<1>1. IsWellFoundedOn(Less, Nat)
  BY NatLessThanWellFounded
<1>2. \A x, y \in Nat : <<y, x>> \in Less <=> y < x
  BY DEF OpToRel
<1> HIDE DEF Less
<1>3. PICK x \in S : \A y \in S : ~(<<y, x>> \in Less)
  BY <1>1, WFMin
<1>4. \A y \in S : x =< y
  <2>1. \A y \in S : x \in Nat /\ y \in Nat
    OBVIOUS
  <2>2. \A y \in S : ~(y < x)
    BY <1>2, <1>3, <2>1
  <2>3. QED
    BY <2>1, <2>2
<1>5. QED
  BY <1>4 DEF Min

LEMMA RemoveAtType ==
    ASSUME NEW S, NEW s \in Seq(S), NEW k \in DOMAIN s
    PROVE  RemoveAt(s, k) \in Seq(S)
  BY SubSeqProperties, ConcatProperties DEF RemoveAt

\* What the studio opens is on the shelf.
LEMMA ResolveBelongs ==
    ASSUME NEW S, S \subseteq Nat, S # {}, NEW choice
    PROVE  Resolve(S, choice) \in S
  BY MinBelongs DEF Resolve

-----------------------------------------------------------------------------
(* Devices that would start *)

LEMMA DriversFit ==
    /\ DOMAIN DriversOf = {"light", "wind", "motion"}
    /\ \A kind \in DOMAIN DriversOf :
          /\ ToSet(DriversOf[kind]) \subseteq Drivers
          /\ Head(DriversOf[kind]) \in ToSet(DriversOf[kind])
<1>1. DOMAIN DriversOf = {"light", "wind", "motion"}
  BY DEF DriversOf
<1>2. /\ DriversOf["light"] = <<"virtual", "sacn", "cip">>
      /\ DriversOf["wind"] = <<"virtual", "cip">>
      /\ DriversOf["motion"] = <<"virtual", "motion", "cip">>
  BY DEF DriversOf
<1>3. \A kind \in DOMAIN DriversOf :
         /\ DriversOf[kind] \in Seq(Drivers) /\ Len(DriversOf[kind]) > 0
         /\ Head(DriversOf[kind]) = DriversOf[kind][1]
  <2>1. /\ <<"virtual", "sacn", "cip">> \in Seq(Drivers)
        /\ <<"virtual", "cip">> \in Seq(Drivers)
        /\ <<"virtual", "motion", "cip">> \in Seq(Drivers)
    BY DEF Drivers
  <2>2. \A kind \in DOMAIN DriversOf : DriversOf[kind] \in Seq(Drivers)
    BY <1>1, <1>2, <2>1
  <2>3. \A kind \in DOMAIN DriversOf : Len(DriversOf[kind]) > 0
    BY <1>1, <1>2
  <2>4. \A l \in Seq(Drivers) : Len(l) > 0 => Head(l) = l[1]
    OBVIOUS
  <2>5. QED
    BY <2>2, <2>3, <2>4
<1>4. QED
  BY <1>1, <1>3 DEF ToSet

\* Replacing fields of a device.
LEMMA Refitted ==
    ASSUME NEW d \in Device, NEW driver \in Drivers, NEW begins \in DmxStarts
    PROVE  [d EXCEPT !.driver = driver, !.start = begins] \in Device
  BY DEF Device

\* Choosing a driver the kind can use, as the page does, keeps a device startable.
LEMMA DefaultsStart ==
    ASSUME NEW d \in Device, NEW driver \in ToSet(DriversOf[d.kind])
    PROVE  WithDriverDefaults(d, driver) \in Startable
<1> DEFINE begins == IF driver = "sacn" /\ d.start = "none" THEN "ok" ELSE d.start
<1>1. driver \in Drivers /\ begins \in DmxStarts
  <2>1. d.start \in DmxStarts /\ d.kind \in DOMAIN DriversOf
    BY DEF Device
  <2>2. driver \in Drivers
    BY <2>1, DriversFit
  <2>3. "ok" \in DmxStarts
    BY DEF DmxStarts
  <2>4. QED
    BY <2>1, <2>2, <2>3
<1>2. WithDriverDefaults(d, driver) = [d EXCEPT !.driver = driver, !.start = begins]
  BY DEF WithDriverDefaults
<1>3. driver = "sacn" => begins # "none"
  OBVIOUS
<1> HIDE DEF begins
<1>4. [d EXCEPT !.driver = driver, !.start = begins] \in Device
  BY <1>1, Refitted
<1>5. /\ [d EXCEPT !.driver = driver, !.start = begins].kind = d.kind
      /\ [d EXCEPT !.driver = driver, !.start = begins].driver = driver
      /\ [d EXCEPT !.driver = driver, !.start = begins].start = begins
  BY DEF Device
<1>6. QED
  BY <1>2, <1>3, <1>4, <1>5 DEF Startable

\* So does what the studio drops before it keeps a rig.
LEMMA MergedStarts ==
    ASSUME NEW devices \in Seq(Startable)
    PROVE  Merged(devices) \in Seq(Startable)
<1>1. ASSUME NEW i \in DOMAIN devices
      PROVE  Merged(devices)[i] \in Startable
  <2> DEFINE d == devices[i]
             begins == IF d.driver = "sacn" THEN d.start ELSE "none"
             addr == d.addr /\ d.driver # "virtual"
  <2>1. d \in Startable /\ d \in Device
    BY DEF Startable
  <2>2. begins \in DmxStarts
    <3>1. d.start \in DmxStarts
      BY <2>1 DEF Device
    <3>2. "none" \in DmxStarts
      BY DEF DmxStarts
    <3>3. QED
      BY <3>1, <3>2
  <2>3. addr \in BOOLEAN
    BY Zenon
  <2>4. Merged(devices)[i] = [d EXCEPT !.start = begins, !.addr = addr]
    BY DEF Merged
  <2>5. d.driver = "sacn" => begins = d.start
    OBVIOUS
  <2> HIDE DEF d, begins, addr
  <2>6. [d EXCEPT !.start = begins, !.addr = addr] \in Device
    <3>1. \A b \in BOOLEAN : [d EXCEPT !.start = begins, !.addr = b] \in Device
      BY <2>1, <2>2 DEF Device
    <3>2. QED
      BY <2>3, <3>1, Zenon
  <2>7. /\ [d EXCEPT !.start = begins, !.addr = addr].kind = d.kind
        /\ [d EXCEPT !.start = begins, !.addr = addr].driver = d.driver
        /\ [d EXCEPT !.start = begins, !.addr = addr].start = begins
    BY <2>1 DEF Device
  <2>8. QED
    BY <2>1, <2>4, <2>5, <2>6, <2>7 DEF Startable
<1>2. DOMAIN Merged(devices) = 1..Len(devices) /\ Len(devices) \in Nat
  BY DEF Merged
<1>3. Merged(devices) = [i \in 1..Len(devices) |-> Merged(devices)[i]]
  BY DEF Merged
<1>4. Merged(devices) \in [1..Len(devices) -> Startable]
  <2>1. \A i \in 1..Len(devices) : Merged(devices)[i] \in Startable
    BY <1>1, <1>2
  <2> DEFINE g(i) == Merged(devices)[i]
  <2>2. Merged(devices) = [i \in 1..Len(devices) |-> g(i)]
    BY <1>3
  <2>3. \A i \in 1..Len(devices) : g(i) \in Startable
    BY <2>1
  <2> HIDE DEF g
  <2>4. QED
    BY <2>2, <2>3
<1>5. Merged(devices) \in UNION {[1..n -> Startable] : n \in Nat}
  BY <1>2, <1>4
<1>6. QED
  BY <1>5, SeqDef

-----------------------------------------------------------------------------
(* The shelf *)

\* What the property says of one step.
StaysInUse ==
    chosen = inUse.file /\ inUse'.file # inUse.file =>
        chosen' = inUse'.file \/ Cardinality(DOMAIN shelf') < Cardinality(DOMAIN shelf)

\* A file that is written, new or not.
LEMMA ShelvingKeeps ==
    ASSUME ShelfInv, NEW file \in Nat, NEW devices \in Seq(Startable)
    PROVE  /\ DOMAIN Shelving(file, devices) = DOMAIN shelf \cup {file}
           /\ IsFiniteSet(DOMAIN Shelving(file, devices))
           /\ \A f \in DOMAIN Shelving(file, devices) : Shelving(file, devices)[f] \in Seq(Startable)
<1>1. DOMAIN Shelving(file, devices) = DOMAIN shelf \cup {file}
  BY DEF Shelving, Files
<1>2. IsFiniteSet(DOMAIN shelf \cup {file})
  BY FS_AddElement DEF ShelfInv
<1>3. QED
  BY <1>1, <1>2 DEF Shelving, Files, ShelfInv

\* A file that is put beside the others is not opened.
LEMMA BesideKeeps ==
    ASSUME ShelfInv, NEW file \in Nat, NEW devices \in Seq(Startable),
           shelf' = Shelving(file, devices), UNCHANGED <<chosen, inUse>>
    PROVE  ShelfInv' /\ StaysInUse
<1>1. /\ DOMAIN shelf' = DOMAIN shelf \cup {file} /\ IsFiniteSet(DOMAIN shelf')
      /\ \A f \in DOMAIN shelf' : shelf'[f] \in Seq(Startable)
  BY ShelvingKeeps
<1>2. /\ DOMAIN shelf \subseteq Nat
      /\ inUse \in [file : DOMAIN shelf, rig : Seq(Startable)]
  BY DEF ShelfInv
<1>3. inUse \in [file : DOMAIN shelf', rig : Seq(Startable)]
  BY <1>1, <1>2
<1>4. QED
  BY <1>1, <1>2, <1>3 DEF ShelfInv, StaysInUse

\* What is opened is a rig of the shelf that is left.
LEMMA OpenedKeeps ==
    ASSUME NEW file \in DOMAIN shelf', NEW rigs, Opened(file, rigs), rigs[file] = shelf'[file],
           DOMAIN shelf' \subseteq Nat, IsFiniteSet(DOMAIN shelf'),
           \A f \in DOMAIN shelf' : shelf'[f] \in Seq(Startable)
    PROVE  ShelfInv' /\ inUse'.file = file
  BY DEF Opened, ShelfInv

LEMMA DoesKeeps ==
    ASSUME ShelfInv, NEW r \in Request, Does(r)
    PROVE  ShelfInv' /\ StaysInUse
<1>0. /\ DOMAIN shelf \subseteq Nat /\ IsFiniteSet(DOMAIN shelf)
      /\ \A f \in DOMAIN shelf : shelf[f] \in Seq(Startable)
      /\ inUse.file \in DOMAIN shelf
      /\ r.to \in Nat
  BY DEF ShelfInv, Request
<1>1. CASE Select(r)
  <2>1. /\ r.file \in DOMAIN shelf /\ Opened(r.file, shelf)
        /\ chosen' = r.file /\ shelf' = shelf
    BY <1>1 DEF Select, Files
  <2>2. ShelfInv' /\ inUse'.file = r.file
    BY <1>0, <2>1, OpenedKeeps
  <2>3. QED
    BY <2>1, <2>2 DEF StaysInUse
<1>2. CASE NewRig(r)
  <2>1. (IF r.file = 0 THEN <<>> ELSE shelf[r.file]) \in Seq(Startable)
    BY <1>0, <1>2 DEF NewRig, Files
  <2>2. QED
    BY <1>0, <1>2, <2>1, BesideKeeps DEF NewRig
<1>3. CASE ImportRig(r)
  <2>1. shelf' = Shelving(r.to, Imports) /\ UNCHANGED <<chosen, inUse>>
    BY <1>3 DEF ImportRig
  <2>2. Imports \in Seq(Startable)
    BY ShelfAssumption
  <2>3. QED
    BY <1>0, <2>1, <2>2, BesideKeeps
<1>4. CASE DeleteRig(r)
  <2> DEFINE left == DOMAIN shelf \ {r.file}
  <2>1. /\ Cardinality(DOMAIN shelf) > 1 /\ r.file \in DOMAIN shelf
        /\ shelf' = [f \in left |-> shelf[f]]
        /\ Opened(Resolve(left, chosen), shelf)
    BY <1>4 DEF DeleteRig, Files
  <2>2. /\ IsFiniteSet(left) /\ Cardinality(left) = Cardinality(DOMAIN shelf) - 1
        /\ Cardinality(DOMAIN shelf) \in Nat
    BY <1>0, <2>1, FS_RemoveElement, FS_CardinalityType
  <2>3. left # {}
    BY <2>1, <2>2, FS_EmptySet
  <2>4. Resolve(left, chosen) \in left
    BY <1>0, <2>3, ResolveBelongs
  <2>5. ShelfInv'
    BY <1>0, <2>1, <2>2, <2>4, OpenedKeeps
  <2>6. Cardinality(DOMAIN shelf') < Cardinality(DOMAIN shelf)
    BY <2>1, <2>2
  <2>7. QED
    BY <2>5, <2>6 DEF StaysInUse
<1>5. CASE RenameRig(r)
  <2> DEFINE moved == (DOMAIN shelf \ {r.file}) \cup {r.to}
             choice == IF inUse.file = r.file THEN r.to ELSE chosen
  <2>1. /\ r.file \in DOMAIN shelf /\ r.file # r.to
        /\ shelf' = Moved(r) /\ DOMAIN Moved(r) = moved
        /\ chosen' = choice
        /\ Opened(Resolve(moved, choice), Moved(r))
    BY <1>5 DEF RenameRig, Files, Moved
  <2>2. IsFiniteSet(moved)
    BY <1>0, FS_RemoveElement, FS_AddElement
  <2>3. moved \subseteq Nat /\ moved # {}
    BY <1>0
  <2>4. \A f \in moved : shelf'[f] \in Seq(Startable)
    BY <1>0, <2>1 DEF Moved, Files
  <2>5. Resolve(moved, choice) \in moved
    BY <2>3, ResolveBelongs
  <2>6. ShelfInv' /\ inUse'.file = Resolve(moved, choice)
    <3> HIDE DEF moved, choice
    <3>1. QED
      BY <2>1, <2>2, <2>3, <2>4, <2>5, OpenedKeeps
  \* A choice that is on the shelf is what is opened; one in use that was not
  \* the file renamed still is.
  <2>7. chosen = inUse.file => choice \in moved
    BY <1>0
  <2>8. choice \in moved => inUse'.file = choice
    BY <2>6 DEF Resolve
  <2>9. QED
    BY <2>1, <2>6, <2>7, <2>8 DEF StaysInUse
<1>6. QED
  BY <1>1, <1>2, <1>3, <1>4, <1>5 DEF Does

-----------------------------------------------------------------------------
(* What is on its way *)

LEMMA CallsKeep ==
    ASSUME CallsInv, NEW k \in DOMAIN rigCalls, NEW call \in Call
    PROVE  /\ rigCalls[k] \in Call
           /\ [rigCalls EXCEPT ![k] = call] \in Seq(Call)
           /\ RemoveAt(rigCalls, k) \in Seq(Call)
           /\ Append(RemoveAt(rigCalls, k), call) \in Seq(Call)
<1>1. rigCalls[k] \in Call /\ [rigCalls EXCEPT ![k] = call] \in Seq(Call)
  BY ElementOfSeq, ExceptSeq DEF CallsInv
<1>2. RemoveAt(rigCalls, k) \in Seq(Call)
  BY RemoveAtType DEF CallsInv
<1>3. QED
  BY <1>1, <1>2, AppendProperties

LEMMA LoadIsCall == Load \in Call
<1>1. <<>> \in Seq(Startable)
  OBVIOUS
<1>2. Asked("", 0, 0) \in Request
  BY DEF Asked, Request
<1>3. QED
  BY <1>1, <1>2 DEF Load, RigCall, Call

\* Answers to a call.
LEMMA Answers ==
    ASSUME NEW call \in Call, NEW todo \in SUBSET {"rig", "list", "save", "do"},
           NEW devices \in Seq(Startable), NEW rigs \in SUBSET Nat, NEW file \in Nat
    PROVE  /\ [call EXCEPT !.todo = todo, !.devices = devices] \in Call
           /\ Listing([call EXCEPT !.todo = todo], rigs, file) \in Call
           /\ \A ok \in BOOLEAN : [call EXCEPT !.todo = todo, !.ok = ok] \in Call
<1>1. /\ [call EXCEPT !.todo = todo, !.devices = devices] \in Call
      /\ [call EXCEPT !.todo = todo] \in Call
      /\ \A c \in Call : [c EXCEPT !.rigs = rigs, !.current = file] \in Call
  BY DEF Call
<1>2. \A ok \in BOOLEAN : [call EXCEPT !.todo = todo, !.ok = ok] \in Call
  BY DEF Call
<1>3. QED
  BY <1>1, <1>2 DEF Listing

LEMMA ServeRigKeeps ==
    ASSUME RigInv, NEW k \in DOMAIN rigCalls, ServeRig(k)
    PROVE  ShelfInv' /\ CallsInv' /\ StaysInUse
<1> DEFINE call == rigCalls[k]
<1>1. call \in Call /\ call.asked \in Request /\ call.todo \in SUBSET {"rig", "list", "save", "do"}
  BY CallsKeep, LoadIsCall DEF RigInv, Call
<1>2. /\ ShelfInv /\ CallsInv /\ inUse.rig \in Seq(Startable) /\ inUse.file \in Nat
      /\ DOMAIN shelf \in SUBSET Nat
  BY DEF RigInv, ShelfInv
<1>3. CASE /\ "rig" \in call.todo
           /\ rigCalls' = [rigCalls EXCEPT ![k] = [call EXCEPT !.todo = @ \ {"rig"}, !.devices = inUse.rig]]
           /\ UNCHANGED <<shelf, chosen, inUse>>
  <2>1. call.todo \ {"rig"} \in SUBSET {"rig", "list", "save", "do"}
    BY <1>1
  <2> DEFINE todo == call.todo \ {"rig"}
             c == [call EXCEPT !.todo = todo, !.devices = inUse.rig]
  <2>2. c \in Call
    <3> HIDE DEF todo
    <3>1. todo \in SUBSET {"rig", "list", "save", "do"}
      BY <2>1 DEF todo
    <3>2. QED
      BY <1>1, <1>2, <3>1 DEF Call
  <2>3. rigCalls' = [rigCalls EXCEPT ![k] = c]
    BY <1>3
  <2> HIDE DEF c
  <2>4. CallsInv'
    BY <1>2, <2>2, <2>3, CallsKeep DEF CallsInv
  <2>5. QED
    BY <1>2, <1>3, <2>4 DEF ShelfInv, StaysInUse
<1>4. CASE /\ "list" \in call.todo
           /\ rigCalls' = [rigCalls EXCEPT ![k] = Listing([call EXCEPT !.todo = @ \ {"list"}], Files, inUse.file)]
           /\ UNCHANGED <<shelf, chosen, inUse>>
  <2> DEFINE todo == call.todo \ {"list"}
             c == Listing([call EXCEPT !.todo = todo], DOMAIN shelf, inUse.file)
  <2>1. todo \in SUBSET {"rig", "list", "save", "do"} /\ <<>> \in Seq(Startable)
    BY <1>1
  <2>2. c \in Call
    <3> HIDE DEF todo
    <3>1. QED
      BY <1>1, <1>2, <2>1, Answers
  <2>3. rigCalls' = [rigCalls EXCEPT ![k] = c]
    BY <1>4 DEF Files
  <2> HIDE DEF c
  <2>4. CallsInv'
    BY <1>2, <2>2, <2>3, CallsKeep DEF CallsInv
  <2>5. QED
    BY <1>2, <1>4, <2>4 DEF ShelfInv, StaysInUse
<1>5. CASE /\ "do" \in call.todo /\ Does(call.asked)
           /\ rigCalls' = [rigCalls EXCEPT ![k] = Listing([call EXCEPT !.todo = {}], DOMAIN shelf', inUse'.file)]
  <2>1. ShelfInv' /\ StaysInUse
    BY <1>1, <1>2, <1>5, DoesKeeps
  <2>2. DOMAIN shelf' \in SUBSET Nat /\ inUse'.file \in Nat
    BY <2>1 DEF ShelfInv
  <2> DEFINE c == Listing([call EXCEPT !.todo = {}], DOMAIN shelf', inUse'.file)
  <2>3. c \in Call
    <3>1. \A rigs \in SUBSET Nat, file \in Nat : Listing([call EXCEPT !.todo = {}], rigs, file) \in Call
      BY <1>1, <1>2, Answers
    <3>2. QED
      BY <2>2, <3>1
  <2>4. rigCalls' = [rigCalls EXCEPT ![k] = c]
    BY <1>5
  <2> HIDE DEF c
  <2>5. CallsInv'
    BY <1>2, <2>3, <2>4, CallsKeep DEF CallsInv
  <2>6. QED
    BY <2>1, <2>5
<1>6. CASE /\ "do" \in call.todo /\ Refuses(call.asked)
           /\ rigCalls' = [rigCalls EXCEPT ![k] = [call EXCEPT !.todo = {}, !.ok = FALSE]]
           /\ UNCHANGED <<shelf, chosen, inUse>>
  <2> DEFINE c == [call EXCEPT !.todo = {}, !.ok = FALSE]
  <2>1. c \in Call
    BY <1>1 DEF Call
  <2>2. rigCalls' = [rigCalls EXCEPT ![k] = c]
    BY <1>6
  <2> HIDE DEF c
  <2>3. CallsInv'
    BY <1>2, <2>1, <2>2, CallsKeep DEF CallsInv
  <2>4. QED
    BY <1>2, <1>6, <2>3 DEF ShelfInv, StaysInUse
<1>7. QED
  BY <1>3, <1>4, <1>5, <1>6 DEF ServeRig

\* A rig that is saved replaces the one in use and the file it is from.
LEMMA ServeSaveKeeps ==
    ASSUME RigInv, NEW k \in DOMAIN rigCalls, ServeSave(k)
    PROVE  ShelfInv' /\ CallsInv' /\ StaysInUse
<1> DEFINE call == rigCalls[k]
           next == Merged(call.devices)
<1>1. /\ call \in Call /\ call.devices \in Seq(Startable)
      /\ ShelfInv /\ CallsInv
  BY CallsKeep, LoadIsCall DEF RigInv, Call
<1>2. next \in Seq(Startable)
  BY <1>1, MergedStarts
<1>3. Accepted(next) \in BOOLEAN
  BY Zenon DEF Accepted
<1>4. CallsInv'
  <2> DEFINE c == [call EXCEPT !.todo = {}, !.ok = Accepted(next)]
  <2>1. \A ok \in BOOLEAN : [call EXCEPT !.todo = {}, !.ok = ok] \in Call
    BY <1>1 DEF Call
  <2>2. c \in Call
    <3> HIDE DEF next, call
    <3>1. QED
      BY <1>3, <2>1, Zenon
  <2>3. rigCalls' = [rigCalls EXCEPT ![k] = c]
    BY DEF ServeSave
  <2> HIDE DEF c
  <2>4. QED
    BY <1>1, <2>2, <2>3, CallsKeep DEF CallsInv
<1>5. CASE Accepted(next)
  <2>1. /\ shelf' = Shelving(inUse.file, next) /\ UNCHANGED chosen
        /\ inUse' = [inUse EXCEPT !.rig = next]
    BY <1>5 DEF ServeSave
  <2>2. /\ inUse \in [file : DOMAIN shelf, rig : Seq(Startable)]
        /\ inUse.file \in DOMAIN shelf /\ inUse.file \in Nat /\ DOMAIN shelf \subseteq Nat
    BY <1>1 DEF ShelfInv
  <2> HIDE DEF next
  <2>3. /\ DOMAIN shelf' = DOMAIN shelf /\ IsFiniteSet(DOMAIN shelf')
        /\ \A f \in DOMAIN shelf' : shelf'[f] \in Seq(Startable)
    <3>1. DOMAIN shelf \cup {inUse.file} = DOMAIN shelf
      BY <2>2
    <3>2. /\ DOMAIN Shelving(inUse.file, next) = DOMAIN shelf \cup {inUse.file}
          /\ IsFiniteSet(DOMAIN Shelving(inUse.file, next))
          /\ \A f \in DOMAIN Shelving(inUse.file, next) :
                Shelving(inUse.file, next)[f] \in Seq(Startable)
      BY <1>1, <1>2, <2>2, ShelvingKeeps
    <3>3. QED
      BY <2>1, <3>1, <3>2
  <2>4. inUse' \in [file : DOMAIN shelf, rig : Seq(Startable)] /\ inUse'.file = inUse.file
    BY <1>2, <2>1, <2>2
  <2>5. QED
    BY <1>4, <2>2, <2>3, <2>4 DEF ShelfInv, StaysInUse
<1>6. CASE ~Accepted(next)
  <2>1. UNCHANGED <<shelf, chosen, inUse>>
    BY <1>6 DEF ServeSave
  <2>2. QED
    BY <1>1, <1>4, <2>1 DEF ShelfInv, StaysInUse
<1>7. QED
  BY <1>5, <1>6

-----------------------------------------------------------------------------
(* The page *)

\* What an answer leaves on the page.
LEMMA ReceiveKeeps ==
    ASSUME RigInv, NEW k \in DOMAIN rigCalls, ReceiveRig(k)
    PROVE  PageInv' /\ CallsInv'
<1> DEFINE call == rigCalls[k]
           rest == RemoveAt(rigCalls, k)
<1>1. /\ call.devices \in Seq(Startable) /\ call.rigs \subseteq Nat /\ call.current \in Nat
      /\ rest \in Seq(Call) /\ Append(rest, Load) \in Seq(Call)
  BY CallsKeep, LoadIsCall DEF RigInv, Call
<1>2. CallsInv'
  BY <1>1 DEF ReceiveRig, CallsInv
<1>3. PageInv'
  BY <1>1 DEF ReceiveRig, RigInv, PageInv
<1>4. QED
  BY <1>2, <1>3

\* An edit of the page keeps its devices startable.
LEMMA EditsKeep ==
    ASSUME RigInv, NEW devices \in Seq(Startable), Edits(devices)
    PROVE  PageInv' /\ UNCHANGED <<shelf, chosen, inUse, rigCalls>>
  BY DEF RigInv, PageInv, Edits

LEMMA ChangeKeeps ==
    ASSUME RigInv, NEW i \in DOMAIN rigPage.devices, NEW d \in Startable, Change(i, d)
    PROVE  PageInv' /\ UNCHANGED <<shelf, chosen, inUse, rigCalls>>
<1>1. [rigPage.devices EXCEPT ![i] = d] \in Seq(Startable)
  BY ExceptSeq DEF RigInv, PageInv
<1>2. QED
  BY <1>1, EditsKeep DEF Change

LEMMA EditsDevicesKeeps ==
    ASSUME RigInv, EditsDevices
    PROVE  PageInv' /\ UNCHANGED <<shelf, chosen, inUse, rigCalls>>
<1>1. rigPage.devices \in Seq(Startable)
  BY DEF RigInv, PageInv
<1>2. ASSUME NEW i \in DOMAIN rigPage.devices,
             ChangeWhere(i) \/ Retitle(i) \/ ChangeDriver(i) \/ ChangeKind(i) \/ RemoveDevice(i)
      PROVE  PageInv' /\ UNCHANGED <<shelf, chosen, inUse, rigCalls>>
  <2> DEFINE d == rigPage.devices[i]
  <2>1. d \in Startable /\ d \in Device
    BY <1>1 DEF Startable
  <2>2. CASE ChangeWhere(i)
    <3>1. \A a \in BOOLEAN : [d EXCEPT !.addr = a] \in Startable
      <4>1. \A a \in BOOLEAN : [d EXCEPT !.addr = a] \in Device
        BY <2>1 DEF Device
      <4>2. QED
        BY <2>1, <4>1 DEF Startable, Device
    <3>2. \A s \in {"ok", "zero"} : [d EXCEPT !.start = s] \in Startable
      <4>1. \A s \in DmxStarts : [d EXCEPT !.start = s] \in Device
        BY <2>1 DEF Device
      <4>2. QED
        BY <2>1, <4>1 DEF Startable, Device, DmxStarts
    <3>3. PICK e \in Startable : Change(i, e)
      BY <2>2, <3>1, <3>2 DEF ChangeWhere
    <3>4. QED
      BY <3>3, ChangeKeeps
  <2>3. CASE Retitle(i)
    <3>1. \A id \in {"new", "named"} : [d EXCEPT !.id = id] \in Startable
      <4>1. \A id \in {"new", "named"} : [d EXCEPT !.id = id] \in Device
        BY <2>1 DEF Device
      <4>2. QED
        BY <2>1, <4>1 DEF Startable, Device
    <3>2. PICK e \in Startable : Change(i, e)
      BY <2>3, <3>1 DEF Retitle
    <3>3. QED
      BY <3>2, ChangeKeeps
  <2>4. CASE ChangeDriver(i)
    <3>1. PICK v \in ToSet(DriversOf[d.kind]) : Change(i, WithDriverDefaults(d, v))
      BY <2>4 DEF ChangeDriver
    <3>2. WithDriverDefaults(d, v) \in Startable
      BY <2>1, DefaultsStart
    <3>3. QED
      BY <3>1, <3>2, ChangeKeeps
  <2>5. CASE ChangeKind(i)
    <3>1. PICK kind \in DOMAIN DriversOf :
             Change(i, WithDriverDefaults([d EXCEPT !.kind = kind],
                         IF d.driver \in ToSet(DriversOf[kind]) THEN d.driver ELSE Head(DriversOf[kind])))
      BY <2>5 DEF ChangeKind
    <3> DEFINE keep == IF d.driver \in ToSet(DriversOf[kind]) THEN d.driver ELSE Head(DriversOf[kind])
    <3>2. keep \in ToSet(DriversOf[kind])
      BY DriversFit
    <3>3. [d EXCEPT !.kind = kind] \in Device /\ [d EXCEPT !.kind = kind].kind = kind
      BY <2>1 DEF Device
    <3>4. WithDriverDefaults([d EXCEPT !.kind = kind], keep) \in Startable
      <4> HIDE DEF keep
      <4>1. QED
        BY <3>2, <3>3, DefaultsStart
    <3>5. QED
      BY <3>1, <3>4, ChangeKeeps
  <2>6. CASE RemoveDevice(i)
    BY <1>1, <2>6, RemoveAtType, EditsKeep DEF RemoveDevice
  <2>7. QED
    BY <1>2, <2>2, <2>3, <2>4, <2>5, <2>6
<1>3. CASE AddDevice
  <2>1. BlankDevice \in Startable
    <3> DEFINE new == [id |-> "new", kind |-> "light", driver |-> "", start |-> "none", addr |-> FALSE]
               made == [id |-> "new", kind |-> "light", driver |-> "virtual", start |-> "none", addr |-> FALSE]
    <3>1. Head(DriversOf["light"]) = "virtual"
      BY DEF DriversOf
    <3>2. WithDriverDefaults(new, "virtual") = made
      <4>1. WithDriverDefaults(new, "virtual") = [new EXCEPT !.driver = "virtual", !.start = "none"]
        BY DEF WithDriverDefaults
      <4>2. QED
        BY <4>1
    <3>3. BlankDevice = made
      BY <3>1, <3>2 DEF BlankDevice
    <3>4. "light" \in DOMAIN DriversOf /\ "virtual" \in ToSet(DriversOf["light"])
      BY <3>1, DriversFit
    <3>5. made \in Device
      BY <3>4 DEF Device, Drivers, DmxStarts
    <3>6. QED
      BY <3>3, <3>4, <3>5 DEF Startable
  <2>2. Append(rigPage.devices, BlankDevice) \in Seq(Startable)
    BY <1>1, <2>1, AppendProperties
  <2>3. QED
    BY <1>3, <2>2, EditsKeep DEF AddDevice
<1>4. QED
  BY <1>2, <1>3 DEF EditsDevices

\* What a page asks for is a request the studio knows.
LEMMA SendsKeeps ==
    ASSUME RigInv, NEW call \in Call, Sends(call)
    PROVE  CallsInv' /\ UNCHANGED <<shelf, chosen, inUse>>
  BY AppendProperties DEF RigInv, CallsInv, Sends

LEMMA AskingIsCall ==
    ASSUME NEW op \in {"select", "new", "import", "delete", "rename"}, NEW file \in Nat, NEW to \in Nat
    PROVE  Asking(Asked(op, file, to)) \in Call
<1>1. Asked(op, file, to) \in Request
  BY DEF Asked, Request
<1>2. <<>> \in Seq(Startable)
  OBVIOUS
<1>3. QED
  BY <1>1, <1>2 DEF Asking, RigCall, Call

LEMMA AsksRigKeeps ==
    ASSUME RigInv, AsksRig
    PROVE  PageInv' /\ CallsInv' /\ UNCHANGED <<shelf, chosen, inUse>>
<1>1. /\ PageInv /\ rigPage.rigs \subseteq Nat /\ rigPage.current \in Nat
      /\ rigPage.devices \in Seq(Startable) /\ Rigs \subseteq Nat /\ 0 \in Nat
  BY AdminAssumption DEF RigInv, PageInv
<1>2. CASE SaveRig
  <2>1. Asked("", 0, 0) \in Request
    BY DEF Asked, Request
  <2>2. RigCall("save", {"save"}, Asked("", 0, 0), rigPage.devices) \in Call
    BY <1>1, <2>1 DEF RigCall, Call
  <2>3. QED
    BY <1>1, <1>2, <2>2, SendsKeeps DEF SaveRig, PageInv
<1>3. CASE ChooseRig
  <2>1. PICK f \in rigPage.rigs : Sends(Asking(Asked("select", f, 0)))
    BY <1>3 DEF ChooseRig
  <2>2. Asking(Asked("select", f, 0)) \in Call
    BY <1>1, AskingIsCall
  <2>3. QED
    BY <1>1, <1>3, <2>1, <2>2, SendsKeeps DEF ChooseRig, PageInv
\* The page of rigs says it is busy, and asks.
<1>4. ASSUME NEW op \in {"select", "new", "import", "delete", "rename"},
             NEW file \in Nat, NEW to \in Nat, SendsRig(Asked(op, file, to))
      PROVE  PageInv' /\ CallsInv' /\ UNCHANGED <<shelf, chosen, inUse>>
  <2>1. Asking(Asked(op, file, to)) \in Call
    BY AskingIsCall
  <2>2. CallsInv' /\ UNCHANGED <<shelf, chosen, inUse>>
    BY <1>4, <2>1, SendsKeeps DEF SendsRig
  <2>3. PageInv'
    BY <1>1, <1>4 DEF SendsRig, PageInv
  <2>4. QED
    BY <2>2, <2>3
<1>5. CASE UseRig
  <2>1. PICK f \in rigPage.rigs : SendsRig(Asked("select", f, 0))
    BY <1>5 DEF UseRig
  <2>2. QED
    BY <1>1, <1>4, <2>1
<1>6. CASE AskNew
  <2>1. PICK from \in rigPage.rigs \cup {rigPage.current, 0}, to \in Rigs : SendsRig(Asked("new", from, to))
    BY <1>6 DEF AskNew
  <2>2. from \in Nat /\ to \in Nat
    BY <1>1
  <2>3. QED
    BY <1>4, <2>1, <2>2
<1>7. CASE AskRename
  <2>1. PICK f \in rigPage.rigs, to \in Rigs : SendsRig(Asked("rename", f, to))
    BY <1>7 DEF AskRename
  <2>2. QED
    BY <1>1, <1>4, <2>1
<1>8. CASE Forget
  <2>1. PICK f \in rigPage.rigs : SendsRig(Asked("delete", f, 0))
    BY <1>8 DEF Forget
  <2>2. QED
    BY <1>1, <1>4, <2>1
<1>9. CASE Bring
  <2>1. PICK to \in Rigs : SendsRig(Asked("import", IF to \in rigPage.rigs THEN to ELSE 0, to))
    BY <1>9 DEF Bring
  <2>2. (IF to \in rigPage.rigs THEN to ELSE 0) \in Nat /\ to \in Nat
    BY <1>1
  <2>3. QED
    BY <1>4, <2>1, <2>2
<1>10. QED
  BY <1>2, <1>3, <1>5, <1>6, <1>7, <1>8, <1>9 DEF AsksRig

\* From another browser the studio is asked for no more than a page may ask.
LEMMA ElsewhereKeeps ==
    ASSUME RigInv, RigElsewhere
    PROVE  ShelfInv' /\ StaysInUse
<1>1. Shelved \subseteq Request
  <2>1. Rigs \subseteq Nat
    BY AdminAssumption
  <2>2. ASSUME NEW op \in {"select", "new", "import", "delete", "rename"},
               NEW file \in Rigs \cup {0}, NEW to \in Rigs \cup {0}
        PROVE  Asked(op, file, to) \in Request
    <3>1. file \in Nat /\ to \in Nat
      BY <2>1, <2>2
    <3>2. QED
      BY <2>2, <3>1 DEF Asked, Request
  <2>3. \A r \in Shelved :
           \E op \in {"select", "new", "import", "delete", "rename"},
              file \in Rigs \cup {0}, to \in Rigs \cup {0} : r = Asked(op, file, to)
    BY DEF Shelved
  <2>4. QED
    BY <2>2, <2>3
<1>2. PICK r \in Shelved : Does(r)
  BY DEF RigElsewhere
<1>3. QED
  BY <1>1, <1>2, DoesKeeps DEF RigInv

-----------------------------------------------------------------------------
LEMMA InitRigs == RigInit => RigInv
<1> SUFFICES ASSUME RigInit PROVE RigInv
  OBVIOUS
<1>1. /\ DOMAIN shelf \subseteq Nat /\ DOMAIN shelf # {} /\ IsFiniteSet(DOMAIN shelf)
      /\ \A f \in DOMAIN shelf : shelf[f] \in Seq(Startable)
  BY ShelfAssumption, AdminAssumption DEF RigInit
<1>2. Resolve(DOMAIN shelf, chosen) \in DOMAIN shelf
  BY <1>1, ResolveBelongs
<1>3. inUse = [file |-> Resolve(DOMAIN shelf, chosen), rig |-> shelf[Resolve(DOMAIN shelf, chosen)]]
  BY DEF RigInit
<1>4. ShelfInv
  BY <1>1, <1>2, <1>3 DEF ShelfInv
<1>5. PageInv
  <2>1. PICK p : rigPage = [at |-> p, loaded |-> FALSE, devices |-> <<>>, dirty |-> FALSE,
                            rigs |-> {}, current |-> 0, busy |-> FALSE]
    BY DEF RigInit
  <2>2. <<>> \in Seq(Startable)
    OBVIOUS
  <2>3. QED
    BY <2>1, <2>2 DEF PageInv
<1>6. CallsInv
  <2>1. rigCalls = <<Load>>
    BY DEF RigInit
  <2> HIDE DEF Load
  <2>2. QED
    BY <2>1, LoadIsCall DEF CallsInv
<1>7. QED
  BY <1>4, <1>5, <1>6 DEF RigInv

LEMMA NextRigs ==
    ASSUME RigInv, RigNext
    PROVE  RigInv' /\ StaysInUse
<1>0. ShelfInv /\ PageInv /\ CallsInv
  BY DEF RigInv
<1>1. CASE Serves
  <2>1. PICK k \in DOMAIN rigCalls : ServeRig(k) \/ ServeSave(k)
    BY <1>1 DEF Serves
  <2>2. ShelfInv' /\ CallsInv' /\ StaysInUse
    BY <2>1, ServeRigKeeps, ServeSaveKeeps
  <2>3. PageInv'
    BY <1>0, <1>1 DEF Serves, PageInv
  <2>4. QED
    BY <2>2, <2>3 DEF RigInv
<1>2. CASE EditsDevices
  BY <1>0, <1>2, EditsDevicesKeeps DEF RigInv, ShelfInv, CallsInv, StaysInUse
<1>3. CASE AsksRig
  BY <1>0, <1>3, AsksRigKeeps DEF RigInv, ShelfInv, StaysInUse
<1>4. CASE RigElsewhere
  <2>1. ShelfInv' /\ StaysInUse
    BY <1>4, ElsewhereKeeps
  <2>2. UNCHANGED <<rigPage, rigCalls>>
    BY <1>4 DEF RigElsewhere
  <2>3. QED
    BY <1>0, <2>1, <2>2 DEF RigInv, PageInv, CallsInv
<1>5. ASSUME NEW k \in DOMAIN rigCalls, ReceiveRig(k) PROVE RigInv' /\ StaysInUse
  <2>1. PageInv' /\ CallsInv'
    BY <1>5, ReceiveKeeps
  <2>2. UNCHANGED <<shelf, chosen, inUse>>
    BY <1>5 DEF ReceiveRig
  <2>3. QED
    BY <1>0, <2>1, <2>2 DEF RigInv, ShelfInv, StaysInUse
<1>6. ASSUME NEW k \in DOMAIN rigCalls, LoseRig(k) PROVE RigInv' /\ StaysInUse
  <2>1. CallsInv'
    BY <1>0, <1>6, CallsKeep, LoadIsCall DEF LoseRig, CallsInv
  <2>2. PageInv'
    BY <1>0, <1>6 DEF LoseRig, PageInv
  <2>3. QED
    BY <1>0, <1>6, <2>1, <2>2 DEF LoseRig, RigInv, ShelfInv, StaysInUse
<1>7. QED
  BY <1>1, <1>2, <1>3, <1>4, <1>5, <1>6 DEF RigNext

LEMMA QuietRigs ==
    ASSUME RigInv, UNCHANGED rigVars
    PROVE  RigInv' /\ StaysInUse
  BY DEF RigInv, ShelfInv, PageInv, CallsInv, StaysInUse, rigVars

LEMMA NextConsole == RigInv /\ [Next]_vars => RigInv' /\ [StaysInUse]_rigVars
<1> SUFFICES ASSUME RigInv, [Next]_vars PROVE RigInv' /\ StaysInUse
  OBVIOUS
<1>1. RigNext \/ UNCHANGED rigVars
  BY DEF Next, vars
<1>2. QED
  BY <1>1, NextRigs, QuietRigs

\* Whatever is edited, saved, chosen or brought, and in whatever order the
\* answers come, a page of devices holds only devices that would start
\* (Devices.tsx, rig/save.go).
THEOREM PagesHoldStartableDevices == Spec => []DevicesWouldStart
<1>1. RigInv => DevicesWouldStart
  <2> SUFFICES ASSUME RigInv, NEW i \in DOMAIN rigPage.devices
               PROVE  rigPage.devices[i] \in Startable
    BY DEF DevicesWouldStart
  <2>1. QED
    BY DEF RigInv, PageInv
<1>2. Init => RigInv
  BY InitRigs DEF Init
<1>3. QED
  BY <1>1, <1>2, NextConsole, PTL DEF Spec

\* The rig that was chosen and is in use stays in use until another is chosen
\* or a rig is deleted: a rename follows it (shelfmanage.go).
THEOREM TheChosenRigStays == Spec => ChosenStaysInUse
<1>1. Init => RigInv
  BY InitRigs DEF Init
<1>2. QED
  BY <1>1, NextConsole, PTL DEF Spec, ChosenStaysInUse, StaysInUse

-----------------------------------------------------------------------------
(* The queue: what waits and what is being done are jobs of films there may be, *)
(* and only an analysis is made of pieces.                                   *)

States == {"", "queued", "running", "done", "failed", "interrupted"}
Job == [state : States, chunks : Seq(States)]

RunInv ==
    /\ run = [key |-> run.key, at |-> run.at, phase |-> run.phase]
    /\ \/ run.phase = "idle"
       \/ run.key \in Keys /\ run.phase = "called"
       \/ run.key \in {"prepare"} \X Films /\ run.phase = "preparing"
       \/ run.key \in {"build"} \X Films /\ run.phase \in {"piece", "written", "joining"}

JobInv ==
    /\ films \subseteq Films /\ jobs \in [Keys -> Job]
    /\ queue \in Seq(Keys) /\ RunInv

\* What a step may do to the pieces of one film, and of all of them.
Kept(f) ==
    LET was == jobs[<<"build", f>>]
        is == jobs'[<<"build", f>>]
        reset == \E p \in posts \ posts' : p.what = "reset" /\ p.film = f
    IN /\ partials[f] \subseteq partials'[f] \/ reset \/ (run.phase = "joining" /\ is.state = "done")
       /\ \/ Cardinality(Finished(was) \ Finished(is)) <= 1 \/ reset
          \/ Finished(was) = DOMAIN was.chunks
AllKept == \A f \in Films : Kept(f)

LEMMA SetToSeqType ==
    ASSUME NEW S, NEW T, T \subseteq S, IsFiniteSet(T)
    PROVE  SetToSeq(T) \in Seq(S)
<1>1. Cardinality(T) \in Nat /\ \E f : f \in Bijection(1..Cardinality(T), T)
  BY FS_CardinalityType DEF ExistsBijection
<1>2. \E f \in [1..Cardinality(T) -> T] : IsInjective(f)
  BY <1>1 DEF Bijection, Injection, IsInjective
<1>3. SetToSeq(T) \in [1..Cardinality(T) -> T]
  BY <1>2 DEF SetToSeq
<1>4. QED
  BY <1>1, <1>3

\* All the films there may be are finitely many.
LEMMA SomeOfThem ==
    ASSUME NEW kind, NEW S, S \subseteq Films
    PROVE  IsFiniteSet({kind} \X S)
<1>1. IsFiniteSet(S)
  BY LibraryAssumption, FS_Subset
<1>2. IsFiniteSet({kind})
  BY FS_Singleton
<1>3. QED
  BY <1>1, <1>2, FS_Product

\* One piece at most is taken up again.
LEMMA OneTakenUp ==
    ASSUME NEW was, NEW is, NEW i, DOMAIN is.chunks = DOMAIN was.chunks,
           \A j \in DOMAIN was.chunks \ {i} : was.chunks[j] = "done" => is.chunks[j] = "done"
    PROVE  Cardinality(Finished(was) \ Finished(is)) <= 1
<1> DEFINE Lost == Finished(was) \ Finished(is)
<1>1. Lost \in SUBSET {i}
  BY DEF Finished
<1>2. IsFiniteSet({i}) /\ Cardinality({i}) = 1
  BY FS_Singleton
<1> HIDE DEF Lost
<1>3. QED
  BY <1>1, <1>2, FS_Subset DEF Lost

LEMMA NoneTakenUp ==
    ASSUME NEW was, NEW is, is.chunks = was.chunks
    PROVE  Cardinality(Finished(was) \ Finished(is)) <= 1
<1>1. Finished(was) \ Finished(is) = {}
  BY DEF Finished
<1>2. Cardinality(Finished(was) \ Finished(is)) = 0
  BY <1>1, FS_EmptySet
<1>3. QED
  BY <1>2

LEMMA MarkedType ==
    ASSUME NEW c \in Seq(States), NEW i, NEW s \in States
    PROVE  /\ Marked(c, i, s) \in Seq(States) /\ DOMAIN Marked(c, i, s) = DOMAIN c
           /\ \A j \in DOMAIN c \ {i} : Marked(c, i, s)[j] = c[j]
  BY DEF Marked

\* The next of those that wait, when there is one.
LEMMA HeadOfQueue ==
    ASSUME NEW waiting \in Seq(Keys), waiting # <<>>
    PROVE  Head(waiting) \in Keys /\ Tail(waiting) \in Seq(Keys)
  OBVIOUS

LEMMA PumpKeeps ==
    ASSUME JobInv, NEW js \in [Keys -> Job], NEW waiting \in Seq(Keys), Pump(js, waiting),
           films' \subseteq Films
    PROVE  JobInv'
<1>1. jobs' = js
  BY DEF Pump
<1>2. CASE run = Idle /\ waiting # <<>>
  <2>1. run' = [key |-> Head(waiting), at |-> 0, phase |-> "called"] /\ queue' = Tail(waiting)
    BY <1>2 DEF Pump
  <2>2. QED
    BY <1>1, <1>2, <2>1, HeadOfQueue DEF JobInv, RunInv
<1>3. CASE ~(run = Idle /\ waiting # <<>>)
  BY <1>1, <1>3 DEF Pump, JobInv, RunInv
<1>4. QED
  BY <1>2, <1>3

LEMMA DoneKeeps ==
    ASSUME JobInv, run.key \in Keys, NEW state \in States, NEW chunks \in Seq(States),
           Done(state, chunks), UNCHANGED films
    PROVE  JobInv'
<1>1. jobs' \in [Keys -> Job]
  BY DEF Done, JobInv, Job
<1>2. CASE queue = <<>>
  <2>1. run' = Idle /\ UNCHANGED <<films, queue>>
    BY <1>2 DEF Done
  <2>2. RunInv'
    BY <2>1 DEF RunInv, Idle
  <2>3. QED
    BY <1>1, <2>1, <2>2 DEF JobInv
<1>3. CASE queue # <<>>
  <2>1. run' = [key |-> Head(queue), at |-> 0, phase |-> "called"] /\ queue' = Tail(queue)
    BY <1>3 DEF Done
  <2>2. QED
    BY <1>1, <1>3, <2>1, HeadOfQueue DEF JobInv, RunInv
<1>4. QED
  BY <1>2, <1>3

\* A step that changes no chunk of an analysis and takes no partial.
LEMMA NothingTaken ==
    ASSUME \A f \in Films : /\ partials'[f] = partials[f]
                            /\ jobs'[<<"build", f>>].chunks = jobs[<<"build", f>>].chunks
    PROVE  AllKept
<1>1. \A f \in Films :
        Cardinality(Finished(jobs[<<"build", f>>]) \ Finished(jobs'[<<"build", f>>])) <= 1
  BY NoneTakenUp
<1>2. QED
  BY <1>1 DEF AllKept, Kept

\* A step that sets the record of what runs.
LEMMA SetsRecord ==
    ASSUME JobInv, run.key \in Keys, NEW job \in Job, jobs' = [jobs EXCEPT ![run.key] = job],
           \A f \in Films : \/ partials[f] \subseteq partials'[f]
                            \/ run.key = <<"build", f>> /\ run.phase = "joining"
                               /\ job.state = "done",
           \/ run.key[1] = "prepare"
           \/ Finished(jobs[run.key]) = DOMAIN jobs[run.key].chunks
           \/ Cardinality(Finished(jobs[run.key]) \ Finished(job)) <= 1
    PROVE  AllKept
<1> SUFFICES ASSUME NEW f \in Films PROVE Kept(f)
  BY DEF AllKept
<1> DEFINE k == <<"build", f>>
<1>1. k \in Keys /\ jobs \in [Keys -> Job] /\ run.key \in Kinds \X Films
  BY DEF Keys, Kinds, JobInv
<1>2. CASE run.key = k
  <2>1. jobs'[k] = job /\ run.key[1] = "build"
    BY <1>1, <1>2
  <2>2. partials[f] \subseteq partials'[f] \/ (run.phase = "joining" /\ job.state = "done")
    OBVIOUS
  <2>3. QED
    BY <1>2, <2>1, <2>2 DEF Kept
<1>3. CASE run.key # k
  <2>1. jobs'[k] = jobs[k]
    BY <1>1, <1>3
  <2>2. partials[f] \subseteq partials'[f]
    BY <1>3 DEF JobInv, RunInv
  <2>3. Cardinality(Finished(jobs[k]) \ Finished(jobs'[k])) <= 1
    BY <2>1, NoneTakenUp
  <2>4. QED
    BY <2>2, <2>3 DEF Kept
<1>4. QED
  BY <1>2, <1>3

\* A new list of keys is queued.
LEMMA EnqueueKeeps ==
    ASSUME JobInv, NEW kind \in Kinds, NEW S, S \subseteq Films, Enqueue({kind} \X S),
           UNCHANGED <<films, partials>>
    PROVE  JobInv' /\ AllKept
<1> DEFINE keys == {kind} \X S
           new == {k \in keys : ~Busy(jobs[k])}
<1>1. keys \subseteq Keys /\ IsFiniteSet(keys) /\ new \in SUBSET keys
  BY SomeOfThem DEF Keys
<1>2. IsFiniteSet(new) /\ new \subseteq Keys
  <2> HIDE DEF keys, new
  <2>1. QED
    BY <1>1, FS_Subset
<1>3. SetToSeq(new) \in Seq(Keys)
  <2> HIDE DEF new
  <2>1. QED
    BY <1>2, SetToSeqType
<1>4. queue \o SetToSeq(new) \in Seq(Keys)
  <2> HIDE DEF new
  <2>1. QED
    BY <1>3 DEF JobInv
<1>5. /\ Enqueued(keys) \in [Keys -> Job]
      /\ \A k \in Keys : Enqueued(keys)[k].chunks = jobs[k].chunks
  <2>1. jobs \in [Keys -> Job]
    BY DEF JobInv
  <2>2. \A k \in Keys : [state |-> "queued", chunks |-> jobs[k].chunks] \in Job
    BY <2>1 DEF Job, States
  <2> HIDE DEF keys
  <2>3. QED
    BY <2>1, <2>2 DEF Enqueued
<1>6. Pump(Enqueued(keys), queue \o SetToSeq(new))
  BY DEF Enqueue
<1>7. JobInv'
  <2> HIDE DEF keys, new
  <2>1. films' \subseteq Films
    BY DEF JobInv
  <2>2. QED
    BY <1>4, <1>5, <1>6, <2>1, PumpKeeps
<1>8. AllKept
  <2>1. jobs' = Enqueued(keys)
    BY <1>6 DEF Pump
  <2>2. \A f \in Films : <<"build", f>> \in Keys
    BY DEF Keys, Kinds
  <2> HIDE DEF keys, new
  <2>3. QED
    BY <1>5, <2>1, <2>2, NothingTaken
<1>9. QED
  BY <1>7, <1>8

LEMMA NoJobType == NoJob \in Job
<1>1. "" \in States
  BY DEF States
<1>2. \A c \in Seq(States) : [state |-> "", chunks |-> c] \in Job
  BY <1>1 DEF Job
<1>3. [state |-> "", chunks |-> <<>>] \in Job
  BY <1>2, EmptySeq
<1>4. QED
  BY <1>3 DEF NoJob

LEMMA HandleKeeps ==
    ASSUME JobInv, NEW p \in posts, posts' = posts \ {p}, Handle(p)
    PROVE  JobInv' /\ AllKept
<1>1. CASE p.what = "build"
  <2> DEFINE S == IF p.film = "" THEN films ELSE {p.film} \cap films
  <2>1. Enqueue({"build"} \X S) /\ UNCHANGED <<films, partials>>
    BY <1>1 DEF Handle
  <2>2. S \subseteq Films /\ "build" \in Kinds
    BY DEF JobInv, Kinds
  <2> HIDE DEF S
  <2>3. QED
    BY <2>1, <2>2, EnqueueKeeps
<1>2. CASE p.what = "prepare"
  <2> DEFINE S == IF p.film = "" THEN films \ prepared ELSE {p.film} \cap films
  <2>1. Enqueue({"prepare"} \X S) /\ UNCHANGED <<films, partials>>
    BY <1>2 DEF Handle
  <2>2. S \subseteq Films /\ "prepare" \in Kinds
    BY DEF JobInv, Kinds
  <2> HIDE DEF S
  <2>3. QED
    BY <2>1, <2>2, EnqueueKeeps
<1>3. CASE p.what = "reset" /\ p.film \in films
  <2> DEFINE k == <<"build", p.film>>
             js == [jobs EXCEPT ![k] = [NoJob EXCEPT !.state = "queued"]]
  <2>1. /\ partials' = [partials EXCEPT ![p.film] = {}]
        /\ Pump(js, Append(queue, k)) /\ UNCHANGED films
    BY <1>3 DEF Handle
  <2>2. k \in Keys /\ jobs \in [Keys -> Job] /\ p.film \in Films /\ queue \in Seq(Keys)
    BY <1>3 DEF JobInv, Keys, Kinds
  <2>3. [NoJob EXCEPT !.state = "queued"] \in Job
    <3>1. "queued" \in States /\ "" \in States
      BY DEF States
    <3>2. NoJob \in Job
      BY <3>1, NoJobType
    <3>3. QED
      BY <3>1, <3>2 DEF Job
  <2>4. js \in [Keys -> Job] /\ \A m \in Keys \ {k} : js[m] = jobs[m]
    BY <2>2, <2>3
  <2>5. JobInv'
    <3>1. Append(queue, k) \in Seq(Keys) /\ films' \subseteq Films
      BY <2>1, <2>2 DEF JobInv
    <3> HIDE DEF js
    <3>2. QED
      BY <2>1, <2>4, <3>1, PumpKeeps
  <2>6. AllKept
    <3> SUFFICES ASSUME NEW f \in Films PROVE Kept(f)
      BY DEF AllKept
    <3>1. CASE f = p.film
      BY <1>3, <3>1 DEF Kept
    <3>2. CASE f # p.film
      <4>1. <<"build", f>> \in Keys \ {k}
        BY <3>2 DEF Keys, Kinds
      <4>2. jobs'[<<"build", f>>] = jobs[<<"build", f>>]
        BY <2>1, <2>4, <4>1 DEF Pump
      <4>3. partials'[f] = partials[f] \/ partials[f] \subseteq partials'[f]
        BY <2>1, <3>2
      <4>4. Cardinality(Finished(jobs[<<"build", f>>]) \ Finished(jobs'[<<"build", f>>])) <= 1
        BY <4>2, NoneTakenUp
      <4>5. QED
        BY <4>3, <4>4 DEF Kept
    <3>3. QED
      BY <3>1, <3>2
  <2>7. QED
    BY <2>5, <2>6
<1>4. CASE p.what = "delete" /\ p.film \in films
  <2>1. films' = films \ {p.film} /\ UNCHANGED <<partials, jobs, queue, run>>
    BY <1>4 DEF Handle
  <2>2. QED
    BY <2>1, NothingTaken DEF JobInv, RunInv
<1>5. CASE ~(p.what \in {"build", "prepare"} \/ (p.what \in {"reset", "delete"} /\ p.film \in films))
  <2>1. UNCHANGED server
    BY <1>5 DEF Handle
  <2>2. QED
    BY <2>1, NothingTaken DEF server, JobInv, RunInv
<1>6. QED
  BY <1>1, <1>2, <1>3, <1>4, <1>5

\* A new plan, and one piece of a plan taken up, whether the plan has such a piece or not.
LEMMA FreshType == ASSUME NEW s \in States PROVE [i \in 1..Pieces |-> s] \in Seq(States)
<1>1. Pieces \in Nat
  BY LibraryAssumption
<1> HIDE DEF States
<1>2. QED
  BY <1>1

LEMMA ReplacedType ==
    ASSUME NEW c \in Seq(States), NEW i, NEW s \in States
    PROVE  [c EXCEPT ![i] = s] \in Seq(States)
<1>1. c \in [1..Len(c) -> States] /\ Len(c) \in Nat
  OBVIOUS
<1>2. [c EXCEPT ![i] = s] \in [1..Len(c) -> States]
  BY <1>1
<1>3. QED
  BY <1>1, <1>2

LEMMA StartsKeeps == ASSUME JobInv, Starts, UNCHANGED pageVars PROVE JobInv' /\ AllKept
<1> DEFINE old == jobs[run.key]
           plan == IF Len(Chunks) = 0 \/ Finished(jobs[run.key]) = DOMAIN Chunks
                   THEN [i \in 1..Pieces |-> "queued"] ELSE Chunks
           first == ResumeAt(plan)
<1>1. /\ run.phase = "called" /\ run.key \in Keys /\ old \in Job /\ Chunks = old.chunks
      /\ UNCHANGED <<films, partials, queue>>
  BY DEF Starts, JobInv, RunInv, Chunks
<1>2. CASE run.key[1] = "prepare"
  <2>1. /\ jobs' = [jobs EXCEPT ![run.key] = [state |-> "running", chunks |-> <<>>]]
        /\ run' = [run EXCEPT !.phase = "preparing"]
    BY <1>2 DEF Starts, SetJob
  <2>2. [state |-> "running", chunks |-> <<>>] \in Job
    BY EmptySeq DEF Job, States
  <2>3. run.key \in {"prepare"} \X Films
    BY <1>1, <1>2 DEF Keys
  <2>4. RunInv'
    BY <2>1, <2>3 DEF JobInv, RunInv
  <2>5. AllKept
    BY <1>1, <1>2, <2>1, <2>2, SetsRecord
  <2>6. QED
    BY <1>1, <2>1, <2>2, <2>4, <2>5 DEF JobInv
<1>3. CASE run.key[1] # "prepare"
  <2> DEFINE job == [state |-> "running", chunks |-> [plan EXCEPT ![first] = "running"]]
  <2>1. /\ jobs' = [jobs EXCEPT ![run.key] = job]
        /\ run' = [run EXCEPT !.at = first, !.phase = "piece"]
    BY <1>3 DEF Starts, SetJob
  <2>2. plan \in Seq(States)
    <3>1. Chunks \in Seq(States)
      BY <1>1 DEF Job
    <3>2. "queued" \in States
      BY DEF States
    <3>3. [i \in 1..Pieces |-> "queued"] \in Seq(States)
      BY <3>2, FreshType
    <3>4. QED
      BY <3>1, <3>3
  <2>3. [plan EXCEPT ![first] = "running"] \in Seq(States)
    <3>1. "running" \in States
      BY DEF States
    <3> HIDE DEF plan, first
    <3>2. QED
      BY <2>2, <3>1, ReplacedType
  <2>4. job \in Job
    <3>1. "running" \in States
      BY DEF States
    <3> HIDE DEF plan, first
    <3>2. QED
      BY <2>3, <3>1 DEF Job
  <2>5. run.key \in {"build"} \X Films
    BY <1>1, <1>3 DEF Keys, Kinds
  <2>6. RunInv'
    <3> HIDE DEF plan, first, job
    <3>1. QED
      BY <2>1, <2>5 DEF JobInv, RunInv
  <2>7. \/ Finished(old) = DOMAIN old.chunks
        \/ Cardinality(Finished(old) \ Finished(job)) <= 1
    <3>1. CASE Len(Chunks) = 0
      <4>1. DOMAIN old.chunks = {}
        BY <1>1, <3>1 DEF Job
      <4>2. QED
        BY <4>1 DEF Finished
    <3>2. CASE Finished(old) = DOMAIN old.chunks
      BY <3>2
    <3>3. CASE ~(Len(Chunks) = 0 \/ Finished(old) = DOMAIN old.chunks)
      <4>1. plan = old.chunks
        BY <1>1, <3>3
      <4>2. /\ DOMAIN job.chunks = DOMAIN old.chunks
            /\ \A j \in DOMAIN old.chunks \ {first} : job.chunks[j] = old.chunks[j]
        <5> HIDE DEF plan, first
        <5>1. QED
          BY <4>1
      <4>3. QED
        <5> HIDE DEF first, job, old
        <5>1. QED
          BY <4>2, OneTakenUp
    <3>4. QED
      BY <3>1, <3>2, <3>3
  <2>8. AllKept
    <3> HIDE DEF plan, first, job
    <3>1. QED
      BY <1>1, <2>1, <2>4, <2>7, SetsRecord
  <2>9. QED
    <3> HIDE DEF job
    <3>1. QED
      BY <1>1, <2>1, <2>4, <2>6, <2>8 DEF JobInv
<1>4. QED
  BY <1>2, <1>3

\* What is on disk is kept film by film.
Whole == partials = [f \in Films |-> partials[f]]

LEMMA DoneRecord ==
    ASSUME JobInv, run.key \in Keys, NEW state \in States, NEW chunks \in Seq(States),
           Done(state, chunks)
    PROVE  /\ [state |-> state, chunks |-> chunks] \in Job
           /\ jobs' = [jobs EXCEPT ![run.key] = [state |-> state, chunks |-> chunks]]
  BY DEF Done, Job

LEMMA PreparesKeeps == ASSUME JobInv, Prepares, UNCHANGED pageVars PROVE JobInv' /\ AllKept
<1>1. /\ run.key \in {"prepare"} \X Films /\ UNCHANGED <<films, partials>>
      /\ Done("done", <<>>)
  BY DEF Prepares, JobInv, RunInv
<1>2. run.key \in Keys /\ run.key[1] = "prepare"
  BY <1>1 DEF Keys, Kinds
<1>3. "done" \in States /\ <<>> \in Seq(States)
  <2>1. "done" \in States
    BY DEF States
  <2>2. QED
    BY <2>1, EmptySeq
<1>4. JobInv'
  BY <1>1, <1>2, <1>3, DoneKeeps
<1> DEFINE job == [state |-> "done", chunks |-> <<>>]
<1>5. job \in Job /\ jobs' = [jobs EXCEPT ![run.key] = job]
  BY <1>1, <1>2, <1>3, DoneRecord
<1>6. AllKept
  <2> HIDE DEF job
  <2>1. QED
    BY <1>1, <1>2, <1>5, SetsRecord
<1>7. QED
  BY <1>4, <1>6

LEMMA WritesPartialKeeps ==
    ASSUME JobInv, Whole, WritesPartial, UNCHANGED pageVars
    PROVE  JobInv' /\ AllKept
<1>1. /\ run.phase = "piece" /\ UNCHANGED <<films, jobs, queue>>
      /\ partials' = [partials EXCEPT ![Film] = @ \cup {run.at}]
      /\ run' = [run EXCEPT !.phase = "written"]
  BY DEF WritesPartial
<1>2. run.key \in {"build"} \X Films
  BY <1>1 DEF JobInv, RunInv
<1>3. RunInv'
  BY <1>1, <1>2 DEF JobInv, RunInv
<1>4. JobInv'
  BY <1>1, <1>3 DEF JobInv
<1>5. AllKept
  <2> SUFFICES ASSUME NEW f \in Films PROVE Kept(f)
    BY DEF AllKept
  <2>1. partials[f] \subseteq partials'[f]
    BY <1>1, <1>2 DEF Whole
  <2>2. Cardinality(Finished(jobs[<<"build", f>>]) \ Finished(jobs'[<<"build", f>>])) <= 1
    BY <1>1, NoneTakenUp
  <2>3. QED
    BY <2>1, <2>2 DEF Kept
<1>6. QED
  BY <1>4, <1>5

LEMMA FinishesPieceKeeps ==
    ASSUME JobInv, FinishesPiece, UNCHANGED pageVars
    PROVE  JobInv' /\ AllKept
<1> DEFINE old == jobs[run.key]
           next == Marked(Chunks, run.at, "done")
<1>1. /\ run.phase = "written" /\ run.key \in {"build"} \X Films
      /\ UNCHANGED <<films, partials, queue>>
  BY DEF FinishesPiece, JobInv, RunInv
<1>2. run.key \in Keys /\ old \in Job /\ Chunks = old.chunks
  BY <1>1 DEF JobInv, Keys, Kinds, Chunks
<1>3. old.chunks \in Seq(States) /\ old.state \in States
  BY <1>2 DEF Job
<1>4. "done" \in States /\ "running" \in States
  BY DEF States
<1>5. /\ next \in Seq(States) /\ DOMAIN next = DOMAIN old.chunks
      /\ \A j \in DOMAIN old.chunks : old.chunks[j] = "done" => next[j] = "done"
  <2>1. \A j \in DOMAIN old.chunks : j = run.at => next[j] = "done"
    BY <1>2, <1>3 DEF Marked
  <2> HIDE DEF old
  <2>2. QED
    BY <1>2, <1>3, <1>4, <2>1, MarkedType
<1>6. CASE run.at < Pieces
  <2> DEFINE then == Marked(next, run.at + 1, "running")
             job == [state |-> old.state, chunks |-> then]
  <2>1. jobs' = [jobs EXCEPT ![run.key] = job] /\ run' = [run EXCEPT !.at = @ + 1, !.phase = "piece"]
    BY <1>6 DEF FinishesPiece, SetJob
  <2>2. /\ then \in Seq(States) /\ DOMAIN then = DOMAIN next
        /\ \A j \in DOMAIN next \ {run.at + 1} : then[j] = next[j]
    <3> HIDE DEF next
    <3>1. QED
      BY <1>4, <1>5, MarkedType
  <2>3. job \in Job
    <3> HIDE DEF then, old
    <3>1. QED
      BY <1>3, <2>2 DEF Job
  <2>4. Cardinality(Finished(old) \ Finished(job)) <= 1
    <3>1. /\ DOMAIN job.chunks = DOMAIN old.chunks
          /\ \A j \in DOMAIN old.chunks \ {run.at + 1} : old.chunks[j] = "done" => job.chunks[j] = "done"
      <4> HIDE DEF old, next, then
      <4>1. QED
        BY <1>5, <2>2
    <3> HIDE DEF old, job
    <3>2. QED
      BY <3>1, OneTakenUp
  <2>5. AllKept
    <3> HIDE DEF job
    <3>1. QED
      BY <1>1, <1>2, <2>1, <2>3, <2>4, SetsRecord
  <2>6. JobInv'
    <3> HIDE DEF job
    <3>1. RunInv'
      BY <1>1, <2>1 DEF JobInv, RunInv
    <3>2. QED
      BY <1>1, <1>2, <2>1, <2>3, <3>1 DEF JobInv
  <2>7. QED
    BY <2>5, <2>6
<1>7. CASE ~(run.at < Pieces)
  <2> DEFINE job == [state |-> old.state, chunks |-> next]
  <2>1. jobs' = [jobs EXCEPT ![run.key] = job] /\ run' = [run EXCEPT !.phase = "joining"]
    BY <1>7 DEF FinishesPiece, SetJob
  <2>2. job \in Job
    <3> HIDE DEF next, old
    <3>1. QED
      BY <1>3, <1>5 DEF Job
  <2>3. Cardinality(Finished(old) \ Finished(job)) <= 1
    <3>1. /\ DOMAIN job.chunks = DOMAIN old.chunks
          /\ \A j \in DOMAIN old.chunks \ {run.at} : old.chunks[j] = "done" => job.chunks[j] = "done"
      <4> HIDE DEF old, next
      <4>1. QED
        BY <1>5
    <3> HIDE DEF old, job
    <3>2. QED
      BY <3>1, OneTakenUp
  <2>4. AllKept
    <3> HIDE DEF job
    <3>1. QED
      BY <1>1, <1>2, <2>1, <2>2, <2>3, SetsRecord
  <2>5. JobInv'
    <3> HIDE DEF job
    <3>1. RunInv'
      BY <1>1, <2>1 DEF JobInv, RunInv
    <3>2. QED
      BY <1>1, <1>2, <2>1, <2>2, <3>1 DEF JobInv
  <2>6. QED
    BY <2>4, <2>5
<1>8. QED
  BY <1>6, <1>7

LEMMA JoinsKeeps ==
    ASSUME JobInv, Whole, Joins, UNCHANGED pageVars
    PROVE  JobInv' /\ AllKept
<1>1. /\ run.phase = "joining" /\ run.key \in {"build"} \X Films /\ UNCHANGED films
      /\ Done("done", Chunks) /\ partials' = [partials EXCEPT ![Film] = {}]
  BY DEF Joins, JobInv, RunInv
<1>2. run.key \in Keys /\ Film \in Films /\ run.key = <<"build", Film>>
  BY <1>1 DEF Keys, Kinds, Film
<1>3. "done" \in States
  BY DEF States
<1>4. Chunks \in Seq(States) /\ Chunks = jobs[run.key].chunks
  BY <1>2 DEF JobInv, Job, Chunks
<1>5. JobInv'
  BY <1>1, <1>2, <1>3, <1>4, DoneKeeps
<1> DEFINE job == [state |-> "done", chunks |-> Chunks]
<1>6. job \in Job /\ jobs' = [jobs EXCEPT ![run.key] = job]
  BY <1>1, <1>2, <1>3, <1>4, DoneRecord
<1>7. job.state = "done" /\ Cardinality(Finished(jobs[run.key]) \ Finished(job)) <= 1
  <2>1. job.chunks = jobs[run.key].chunks /\ job.state = "done"
    BY <1>4
  <2> HIDE DEF job
  <2>2. QED
    BY <2>1, NoneTakenUp
<1>8. \A f \in Films : \/ partials[f] \subseteq partials'[f]
                       \/ run.key = <<"build", f>> /\ run.phase = "joining" /\ job.state = "done"
  <2> HIDE DEF job
  <2> SUFFICES ASSUME NEW f \in Films, f # Film PROVE partials[f] \subseteq partials'[f]
    BY <1>1, <1>2, <1>7
  <2>1. QED
    BY <1>1 DEF Whole
<1>9. AllKept
  <2> HIDE DEF job
  <2>1. QED
    BY <1>2, <1>6, <1>7, <1>8, SetsRecord
<1>10. QED
  BY <1>5, <1>9

LEMMA FailsKeeps == ASSUME JobInv, Fails, UNCHANGED pageVars PROVE JobInv' /\ AllKept
<1> DEFINE left == IF run.phase = "piece" THEN Marked(Chunks, run.at, "failed") ELSE Chunks
<1>1. run.phase # "idle" /\ UNCHANGED <<films, partials>> /\ Done("failed", left)
  BY DEF Fails
<1>2. run.key \in Keys
  BY <1>1 DEF JobInv, RunInv, Keys, Kinds
<1>3. "failed" \in States
  BY DEF States
<1>4. Chunks \in Seq(States) /\ Chunks = jobs[run.key].chunks
  BY <1>2 DEF JobInv, Job, Chunks
<1>5. /\ left \in Seq(States) /\ DOMAIN left = DOMAIN Chunks
      /\ \A j \in DOMAIN Chunks \ {run.at} : left[j] = Chunks[j]
  BY <1>3, <1>4, MarkedType
<1> HIDE DEF left
<1>6. JobInv'
  BY <1>1, <1>2, <1>3, <1>5, DoneKeeps
<1> DEFINE job == [state |-> "failed", chunks |-> left]
<1>7. job \in Job /\ jobs' = [jobs EXCEPT ![run.key] = job]
  BY <1>1, <1>2, <1>3, <1>5, DoneRecord
<1>8. Cardinality(Finished(jobs[run.key]) \ Finished(job)) <= 1
  <2>1. /\ DOMAIN job.chunks = DOMAIN jobs[run.key].chunks
        /\ \A j \in DOMAIN jobs[run.key].chunks \ {run.at} : job.chunks[j] = jobs[run.key].chunks[j]
    BY <1>4, <1>5
  <2> HIDE DEF job
  <2>2. QED
    BY <2>1, OneTakenUp
<1>9. AllKept
  <2> HIDE DEF job
  <2>1. QED
    BY <1>1, <1>2, <1>7, <1>8, SetsRecord
<1>10. QED
  BY <1>6, <1>9

LEMMA RestartKeeps == ASSUME JobInv, Restart PROVE JobInv' /\ AllKept
<1> DEFINE stopped(c) == IF c \in {"running", "queued"} THEN "interrupted" ELSE c
           put(k) == [i \in DOMAIN jobs[k].chunks |-> stopped(jobs[k].chunks[i])]
<1>1. /\ jobs' = [k \in Keys |-> [state |-> stopped(jobs[k].state), chunks |-> put(k)]]
      /\ queue' = <<>> /\ run' = Idle /\ UNCHANGED <<films, partials>>
  BY DEF Restart
<1>2. \A s \in States : stopped(s) \in States /\ (s = "done" => stopped(s) = "done")
  BY DEF States
<1> HIDE DEF stopped
<1>3. ASSUME NEW k \in Keys
      PROVE  /\ jobs[k].chunks \in Seq(States) /\ stopped(jobs[k].state) \in States
             /\ put(k) \in Seq(States) /\ DOMAIN put(k) = DOMAIN jobs[k].chunks
  <2>1. jobs[k].chunks \in Seq(States) /\ jobs[k].state \in States
    BY DEF JobInv, Job
  <2>2. QED
    BY <1>2, <2>1
<1>4. jobs' \in [Keys -> Job]
  <2> HIDE DEF put
  <2>1. QED
    BY <1>1, <1>3 DEF Job
<1>5. JobInv'
  <2>1. RunInv'
    BY <1>1 DEF RunInv, Idle
  <2>2. queue' \in Seq(Keys) /\ films' \subseteq Films
    <3>1. queue' = <<>> /\ UNCHANGED films
      BY <1>1
    <3>2. QED
      BY <3>1, EmptySeq DEF JobInv
  <2>3. QED
    BY <1>4, <2>1, <2>2 DEF JobInv
<1>6. ASSUME NEW f \in Films PROVE Kept(f)
  <2> DEFINE k == <<"build", f>>
  <2>1. k \in Keys
    BY DEF Keys, Kinds
  <2>2. jobs'[k].chunks = put(k)
    <3> HIDE DEF put, k
    <3>1. QED
      BY <1>1, <2>1
  <2>3. \A j \in DOMAIN jobs[k].chunks : jobs[k].chunks[j] = "done" => jobs'[k].chunks[j] = "done"
    <3> HIDE DEF k
    <3>1. QED
      BY <1>2, <1>3, <2>1, <2>2
  <2>4. DOMAIN jobs'[k].chunks = DOMAIN jobs[k].chunks
    BY <1>3, <2>1, <2>2
  <2>5. Cardinality(Finished(jobs[k]) \ Finished(jobs'[k])) <= 1
    <3> HIDE DEF k, put
    <3>1. QED
      BY <2>3, <2>4, OneTakenUp
  <2>6. QED
    BY <1>1, <2>5 DEF Kept
<1>7. QED
  BY <1>5, <1>6 DEF AllKept

\* The page's own steps leave the queue as it is.
LEMMA RestKeeps ==
    ASSUME JobInv, UNCHANGED <<partials, jobs, queue, run>>, films' \subseteq Films
    PROVE  JobInv' /\ AllKept
<1>1. AllKept
  BY NothingTaken
<1>2. QED
  BY <1>1 DEF JobInv, RunInv

LEMMA WholeStays == ASSUME Whole, JobNext \/ UNCHANGED jobVars PROVE Whole'
<1>1. ASSUME NEW f, NEW S, partials' = [partials EXCEPT ![f] = S] PROVE Whole'
  BY <1>1 DEF Whole
<1>2. CASE UNCHANGED partials
  BY <1>2 DEF Whole
<1>3. UNCHANGED partials \/ \E f, S : partials' = [partials EXCEPT ![f] = S]
  <2>1. ASSUME NEW p, Handle(p) PROVE UNCHANGED partials \/ partials' = [partials EXCEPT ![p.film] = {}]
    BY <2>1 DEF Handle, server
  <2>2. CASE Works
    <3>1. CASE WritesPartial
      BY <3>1 DEF WritesPartial
    <3>2. CASE Joins
      BY <3>2 DEF Joins
    <3>3. QED
      BY <2>2, <3>1, <3>2 DEF Works, Starts, Prepares, FinishesPiece, Fails
  <2>3. CASE ~Works /\ UNCHANGED jobVars
    BY <2>3 DEF jobVars, server
  <2>4. CASE ~Works /\ JobNext
    <3>1. CASE \E p \in posts : Served(p) \/ ServedUnheard(p)
      BY <2>1, <3>1 DEF Served, ServedUnheard
    <3>2. CASE ~\E p \in posts : Served(p) \/ ServedUnheard(p)
      BY <2>4, <3>2 DEF JobNext, Restart, Tick, Confirmed, KeepIt, ServeList, ReceiveList, NoList,
                        Press, PressAll, AskAbout, Upload, server
    <3>3. QED
      BY <3>1, <3>2
  <2>5. QED
    BY <2>2, <2>3, <2>4
<1>4. QED
  BY <1>1, <1>2, <1>3

LEMMA JobsKeep == ASSUME JobInv, Whole, JobNext \/ UNCHANGED jobVars PROVE JobInv' /\ AllKept
<1>1. CASE UNCHANGED jobVars
  BY <1>1, RestKeeps DEF jobVars, server, JobInv
<1>2. CASE Works
  BY <1>2, StartsKeeps, PreparesKeeps, WritesPartialKeeps, FinishesPieceKeeps, JoinsKeeps, FailsKeeps
     DEF Works
<1>3. CASE Restart
  BY <1>3, RestartKeeps
<1>4. CASE \E p \in posts : Served(p) \/ ServedUnheard(p)
  BY <1>4, HandleKeeps DEF Served, ServedUnheard
<1>5. CASE \E f \in Films : Upload(f)
  <2>1. films' \subseteq Films /\ UNCHANGED <<partials, jobs, queue, run>>
    BY <1>5 DEF Upload, JobInv
  <2>2. QED
    BY <2>1, RestKeeps
<1>6. CASE \/ Tick \/ Confirmed \/ KeepIt
           \/ \E k \in DOMAIN asks : ServeList(k) \/ ReceiveList(k) \/ NoList(k)
           \/ \E f \in Films : \E what \in {"build", "resume", "prepare"} : Press(f, what)
           \/ \E what \in Kinds : PressAll(what)
           \/ \E f \in Films : \E what \in {"reset", "delete"} : AskAbout(f, what)
  <2>1. UNCHANGED server
    BY <1>6 DEF Tick, Confirmed, KeepIt, ServeList, ReceiveList, NoList, Press, PressAll, AskAbout
  <2>2. QED
    BY <2>1, RestKeeps DEF server, JobInv
<1>7. QED
  BY <1>1, <1>2, <1>3, <1>4, <1>5, <1>6 DEF JobNext

LEMMA InitJobs == ASSUME JobInit PROVE JobInv /\ Whole
<1>1. \A k \in Keys : NoJob \in Job
  BY NoJobType
<1>2. jobs \in [Keys -> Job]
  BY <1>1 DEF JobInit
<1>3. queue \in Seq(Keys)
  BY EmptySeq DEF JobInit
<1>4. RunInv
  BY DEF JobInit, RunInv, Idle
<1>5. QED
  BY <1>2, <1>3, <1>4 DEF JobInit, JobInv, Whole

LEMMA JobsOfThePages == ASSUME Next \/ UNCHANGED vars PROVE JobNext \/ UNCHANGED jobVars
  BY DEF Next, vars

(* A finished piece is not lost (jobs.go, analyse.go, partials.go): whatever is *)
(* queued twice, fails or is cut off, its score stays until the pieces are       *)
(* joined, and of the record one piece at most is taken up again.               *)
THEOREM FinishedPiecesStay == Spec => PiecesAreKept
<1> DEFINE Inv == JobInv /\ Whole
<1>1. Init => Inv
  BY InitJobs DEF Init
<1>2. Inv /\ [Next]_vars => Inv'
  BY JobsOfThePages, JobsKeep, WholeStays
<1>3. Inv /\ [Next]_vars => [\A f \in Films : Kept(f)]_jobVars
  BY JobsOfThePages, JobsKeep DEF AllKept
<1>4. Spec => [][\A f \in Films : Kept(f)]_jobVars
  <2> HIDE DEF Inv
  <2>1. QED
    BY <1>1, <1>2, <1>3, PTL DEF Spec
<1>5. QED
  BY <1>4 DEF PiecesAreKept, Kept

-----------------------------------------------------------------------------
(* Loops over a list, as functions of how far they got                      *)

LEMMA StepByStep ==
    ASSUME NEW n \in Nat, NEW S, 0 \in S, \A i \in 1..n : i - 1 \in S => i \in S
    PROVE  0..n \subseteq S
<1> SUFFICES ASSUME (0..n) \ S # {} PROVE FALSE
  OBVIOUS
<1> DEFINE Rest == (0..n) \ S
           m == Min(Rest)
<1>1. Rest \subseteq Nat
  OBVIOUS
<1>2. Rest # {}
  OBVIOUS
<1>3. m \in Rest /\ \A x \in Rest : m <= x
  <2> HIDE DEF Rest
  <2>1. QED
    BY <1>1, <1>2, MinBelongs
<1>4. m \in 1..n /\ m - 1 \in 0..n /\ m - 1 < m
  <2> HIDE DEF m
  <2>1. QED
    BY <1>3
<1> HIDE DEF m
<1>5. m - 1 \in S
  BY <1>3, <1>4
<1>6. QED
  BY <1>3, <1>4, <1>5

\* How far each turn of a loop got, from where it begins.
Turns(n, base, step, out) == out[0] = base /\ \A i \in 1..n : out[i] = step[<<i, out[i - 1]>>]

LEMMA LoopExists ==
    ASSUME NEW n \in Nat, NEW V, NEW base \in V, NEW step \in [(1..n) \X V -> V]
    PROVE  \E out \in [0..n -> V] : Turns(n, base, step, out)
<1> DEFINE Runs(m, out) == out[0] = base /\ \A i \in 1..m : out[i] = step[<<i, out[i - 1]>>]
           S == {m \in 0..n : \E out \in [0..m -> V] : Runs(m, out)}
<1>1. 0 \in S
  <2>1. Runs(0, [i \in 0..0 |-> base])
    OBVIOUS
  <2>2. [i \in 0..0 |-> base] \in [0..0 -> V]
    OBVIOUS
  <2> HIDE DEF Runs
  <2>3. QED
    BY <2>1, <2>2
<1>2. ASSUME NEW m \in 1..n, m - 1 \in S PROVE m \in S
  <2>1. PICK out \in [0..(m - 1) -> V] : Runs(m - 1, out)
    BY <1>2
  <2> DEFINE next == [i \in 0..m |-> IF i = m THEN step[<<m, out[m - 1]>>] ELSE out[i]]
  <2>2. next \in [0..m -> V]
    OBVIOUS
  <2>3. next[0] = base
    BY <2>1
  <2>4. ASSUME NEW i \in 1..m PROVE next[i] = step[<<i, next[i - 1]>>]
    <3>1. next[i - 1] = out[i - 1]
      OBVIOUS
    <3>2. CASE i = m
      <4>1. next[i] = step[<<i, out[i - 1]>>]
        BY <3>2
      <4>2. QED
        BY <3>1, <4>1
    <3>3. CASE i # m
      <4>1. i \in 1..(m - 1) /\ next[i] = out[i]
        BY <3>3
      <4>2. QED
        BY <2>1, <3>1, <4>1
    <3>4. QED
      BY <3>2, <3>3
  <2>5. Runs(m, next)
    <3> HIDE DEF next
    <3>1. QED
      BY <2>3, <2>4
  <2> HIDE DEF next, Runs
  <2>6. QED
    BY <2>2, <2>5
<1>3. n \in S
  <2> HIDE DEF S
  <2>1. 0..n \subseteq S
    BY <1>1, <1>2, StepByStep
  <2>2. QED
    BY <2>1
<1>4. QED
  BY <1>3 DEF Turns

-----------------------------------------------------------------------------
(* What is remembered of the stage: what was made good once stays as it is    *)

Viewport == [columns : 2..10, height : 160..900, room : BOOLEAN, force : BOOLEAN,
             camera : Cameras \cup {NoCamera}]
Clean == {n \in ViewNames : n # "" /\ CleanNames[n] = n}
Arranged == [name : Clean, viewport : Viewport]
Views == {l \in Seq(Arranged) : /\ Len(l) <= MaxViews
                                /\ \A i, j \in DOMAIN l : l[i].name = l[j].name => i = j}

PrefInv ==
    /\ viewport \in Viewport /\ storedView \in Viewport /\ live \in Cameras \cup {NoCamera}
    /\ Live(storedView, NoCamera) = Live(viewport, NoCamera)
    /\ ~timerSet => storedView.camera = live
    /\ savedViews \in Views /\ storedList = savedViews
    /\ SettingOf(storedLevel) = level

LEMMA ClampedFits ==
    ASSUME NEW n \in Int, NEW low \in Int, NEW high \in Int, low <= high
    PROVE  /\ Clamped(n, low, high) \in low..high
           /\ n \in low..high => Clamped(n, low, high) = n
<1>1. ASSUME NEW a \in Int, NEW b \in Int
      PROVE  Min({a, b}) \in {a, b} /\ Min({a, b}) <= a /\ Min({a, b}) <= b
  <2>1. \E x \in {a, b} : \A y \in {a, b} : x <= y
    OBVIOUS
  <2>2. QED
    BY <2>1 DEF Min
<1>2. ASSUME NEW a \in Int, NEW b \in Int
      PROVE  Max({a, b}) \in {a, b} /\ Max({a, b}) >= a /\ Max({a, b}) >= b
  <2>1. \E x \in {a, b} : \A y \in {a, b} : x >= y
    OBVIOUS
  <2>2. QED
    BY <2>1 DEF Max
<1> DEFINE m == Min({high, n})
<1>3. m \in Int /\ m <= high /\ m <= n /\ m \in {high, n}
  BY <1>1
<1> HIDE DEF m
<1>4. Max({low, m}) \in {low, m} /\ Max({low, m}) >= low /\ Max({low, m}) >= m
  BY <1>2, <1>3
<1>5. QED
  BY <1>3, <1>4 DEF Clamped, m

LEMMA Snapped ==
    ASSUME NEW n \in Int
    PROVE  /\ ColumnsAt(n) \in 2..10 /\ (n \in 2..10 => ColumnsAt(n) = n)
           /\ HeightAt(n) \in 160..900 /\ (n \in 160..900 => HeightAt(n) = n)
<1> DEFINE Fits(low, high) == /\ Clamped(n, low, high) \in low..high
                              /\ n \in low..high => Clamped(n, low, high) = n
<1>0. \A low, high \in Int : low <= high => Fits(low, high)
  BY ClampedFits
<1> HIDE DEF Fits
<1>1. Fits(2, 10) /\ Fits(160, 900)
  BY <1>0
<1> USE DEF Fits
<1>2. QED
  BY <1>1 DEF ColumnsAt, HeightAt

LEMMA DefaultIsViewport == DefaultViewport \in Viewport
  BY SMTT(30) DEF DefaultViewport, Viewport

\* Whatever usable is stored is made into a viewport.
LEMMA NormaliseType == ASSUME NEW raw, Usable(raw) PROVE Normalise(raw) \in Viewport
<1> DEFINE v == Normalise(raw)
<1>1. DOMAIN DefaultViewport = {"columns", "height", "room", "force", "camera"}
  BY DEF DefaultViewport
<1>2. v = [f \in {"columns", "height", "room", "force", "camera"} |-> v[f]]
  BY <1>1 DEF Normalise
<1>3. v.columns \in 2..10
  <2>1. v.columns = IF "columns" \in DOMAIN raw THEN ColumnsAt(raw["columns"]) ELSE 6
    BY <1>1 DEF Normalise, DefaultViewport
  <2>2. QED
    BY <2>1, Snapped DEF Usable
<1>4. v.height \in 160..900
  <2>1. v.height = IF "height" \in DOMAIN raw THEN HeightAt(raw["height"]) ELSE 300
    BY <1>1 DEF Normalise, DefaultViewport
  <2>2. QED
    BY <2>1, Snapped, SMTT(30) DEF Usable
<1>5. v.room \in BOOLEAN
  <2>1. v.room = IF "room" \in DOMAIN raw THEN raw["room"] ELSE TRUE
    BY <1>1 DEF Normalise, DefaultViewport
  <2>2. QED
    BY <2>1 DEF Usable
<1>6. v.force \in BOOLEAN
  <2>1. v.force = IF "force" \in DOMAIN raw THEN raw["force"] ELSE TRUE
    BY <1>1 DEF Normalise, DefaultViewport
  <2>2. QED
    BY <2>1 DEF Usable
<1>7. v.camera \in Cameras \cup {NoCamera}
  <2>1. v.camera = IF "camera" \in DOMAIN raw THEN raw["camera"] ELSE NoCamera
    BY <1>1 DEF Normalise, DefaultViewport
  <2>2. QED
    BY <2>1 DEF Usable
<1> HIDE DEF v
<1>8. QED
  BY <1>2, <1>3, <1>4, <1>5, <1>6, <1>7 DEF Viewport, v

\* A viewport is as good as it gets.
LEMMA NormaliseAgain == ASSUME NEW v \in Viewport PROVE Normalise(v) = v /\ Usable(v)
<1>1. DOMAIN DefaultViewport = {"columns", "height", "room", "force", "camera"} /\ DOMAIN v = DOMAIN DefaultViewport
  BY DEF DefaultViewport, Viewport
<1>2. v.columns \in 2..10 /\ v.height \in 160..900 /\ v.room \in BOOLEAN /\ v.force \in BOOLEAN
      /\ v.camera \in Cameras \cup {NoCamera}
  BY DEF Viewport
<1>3. ColumnsAt(v.columns) = v.columns /\ HeightAt(v.height) = v.height
  BY <1>2, Snapped, SMTT(30)
<1>4. v = [f \in DOMAIN DefaultViewport |-> v[f]]
  BY <1>1 DEF Viewport
<1>5. Normalise(v) = [f \in DOMAIN DefaultViewport |-> v[f]]
  <2>1. \A f \in DOMAIN DefaultViewport :
           (CASE f = "columns" -> ColumnsAt(v[f]) [] f = "height" -> HeightAt(v[f]) [] OTHER -> v[f]) = v[f]
    BY <1>3
  <2>2. QED
    BY <1>1, <2>1 DEF Normalise
<1>6. Usable(v)
  BY <1>1, <1>2 DEF Usable
<1>7. QED
  BY <1>4, <1>5, <1>6

LEMMA LiveType ==
    ASSUME NEW v \in Viewport, NEW c \in Cameras \cup {NoCamera}
    PROVE  /\ Live(v, c) \in Viewport /\ Live(v, c).camera = c
           /\ Live(Live(v, c), NoCamera) = Live(v, NoCamera)
<1>1. v = [columns |-> v.columns, height |-> v.height, room |-> v.room, force |-> v.force,
           camera |-> v.camera]
  BY DEF Viewport
<1>2. \A x : Live(v, x) = [columns |-> v.columns, height |-> v.height, room |-> v.room,
                           force |-> v.force, camera |-> x]
  BY <1>1 DEF Live
<1>3. Live(v, c) \in Viewport
  BY <1>2 DEF Viewport
<1>4. Live(Live(v, c), NoCamera) = Live(v, NoCamera)
  BY <1>2 DEF Live
<1>5. QED
  BY <1>2, <1>3, <1>4

-----------------------------------------------------------------------------
(* The lists of arrangements *)

\* One more entry of a name that is not there yet.
LEMMA OneMore ==
    ASSUME NEW l \in Views, NEW e \in Arranged, e.name \notin NamesIn(l), Len(l) < MaxViews
    PROVE  Append(l, e) \in Views /\ NamesIn(Append(l, e)) = NamesIn(l) \cup {e.name}
<1> DEFINE m == Append(l, e)
<1>1. l \in Seq(Arranged) /\ \A i, j \in DOMAIN l : l[i].name = l[j].name => i = j
  BY DEF Views
<1>2. /\ m \in Seq(Arranged) /\ Len(m) = Len(l) + 1 /\ DOMAIN m = 1..(Len(l) + 1)
      /\ DOMAIN l = 1..Len(l) /\ Len(l) \in Nat
      /\ \A i \in 1..Len(l) : m[i] = l[i]
      /\ m[Len(l) + 1] = e
  BY <1>1
<1> HIDE DEF m
<1>3. Len(m) <= MaxViews
  BY <1>2, PrefsAssumption
<1>4. ASSUME NEW i \in DOMAIN m, NEW j \in DOMAIN m, m[i].name = m[j].name PROVE i = j
  <2>1. \A k \in 1..Len(l) : l[k].name # e.name
    BY <1>2 DEF NamesIn
  <2>2. CASE i \in 1..Len(l) /\ j \in 1..Len(l)
    BY <1>1, <1>2, <1>4, <2>2
  <2>3. CASE i = Len(l) + 1 \/ j = Len(l) + 1
    BY <1>2, <1>4, <2>1, <2>3
  <2>4. QED
    BY <1>2, <2>2, <2>3
<1>5. m \in Views
  BY <1>2, <1>3, <1>4 DEF Views
<1>6. NamesIn(m) = NamesIn(l) \cup {e.name}
  BY <1>2 DEF NamesIn
<1>7. QED
  BY <1>5, <1>6 DEF m

LEMMA NoViews == <<>> \in Views /\ NamesIn(<<>>) = {}
<1>1. <<>> \in Seq(Arranged) /\ Len(<<>>) = 0
  BY EmptySeq
<1>2. DOMAIN <<>> = {}
  OBVIOUS
<1>3. QED
  BY <1>1, <1>2, PrefsAssumption DEF Views, NamesIn

\* A list that may be read: of entries whose viewport is usable.
Readable(list) ==
    /\ Len(list) \in Nat /\ DOMAIN list = 1..Len(list)
    /\ \A i \in DOMAIN list : list[i].name \in ViewNames /\ Usable(list[i].viewport)

LEMMA CleanEntry ==
    ASSUME NEW list, Readable(list), NEW i \in 1..Len(list), CleanNames[list[i].name] # ""
    PROVE  Named(CleanNames[list[i].name], Normalise(list[i].viewport)) \in Arranged
<1>1. list[i].name \in ViewNames /\ Usable(list[i].viewport)
  BY DEF Readable
<1>2. CleanNames[list[i].name] \in Clean
  BY <1>1, PrefsAssumption DEF Clean
<1>3. Normalise(list[i].viewport) \in Viewport
  BY <1>1, NormaliseType
<1>4. QED
  BY <1>2, <1>3 DEF Named, Arranged

\* The loop of normaliseList.
NextView(list, i, out) ==
    LET named == Named(CleanNames[list[i].name], Normalise(list[i].viewport))
    IN IF named.name \in {""} \cup NamesIn(out) \/ Len(out) >= MaxViews THEN out ELSE Append(out, named)

LEMMA NextViewType ==
    ASSUME NEW list, Readable(list), NEW i \in 1..Len(list), NEW out \in Views
    PROVE  NextView(list, i, out) \in Views
<1> DEFINE named == Named(CleanNames[list[i].name], Normalise(list[i].viewport))
<1>1. named.name = CleanNames[list[i].name]
  BY DEF Named
<1>2. CASE named.name \in {""} \cup NamesIn(out) \/ Len(out) >= MaxViews
  BY <1>2 DEF NextView
<1>3. CASE ~(named.name \in {""} \cup NamesIn(out) \/ Len(out) >= MaxViews)
  <2>1. named \in Arranged
    BY <1>1, <1>3, CleanEntry
  <2>2. Len(out) < MaxViews
    <3>1. Len(out) \in Nat /\ MaxViews \in Nat
      <4>1. out \in Seq(Arranged)
        BY DEF Views
      <4>2. QED
        BY <4>1, PrefsAssumption
    <3>2. ~(Len(out) >= MaxViews)
      BY <1>3
    <3>3. QED
      BY <3>1, <3>2
  <2>3. NextView(list, i, out) = Append(out, named)
    BY <1>3 DEF NextView
  <2> HIDE DEF named
  <2>4. QED
    BY <1>3, <2>1, <2>2, <2>3, OneMore
<1>4. QED
  BY <1>2, <1>3

LEMMA NormaliseListLoop ==
    ASSUME NEW list, Readable(list)
    PROVE  \E out \in [0..Len(list) -> Views] :
              /\ out[0] = <<>>
              /\ \A i \in 1..Len(list) : out[i] = NextView(list, i, out[i - 1])
              /\ NormaliseList(list) = out[Len(list)]
<1> DEFINE n == Len(list)
           step == [p \in (1..n) \X Views |-> NextView(list, p[1], p[2])]
           Runs(out) == out = [i \in 0..n |-> IF i = 0 THEN <<>> ELSE NextView(list, i, out[i - 1])]
           out0 == CHOOSE out : Runs(out)
<1>1. n \in Nat
  BY DEF Readable
<1>2. step \in [(1..n) \X Views -> Views]
  BY NextViewType
<1>3. \A i \in 1..n : \A l \in Views : step[<<i, l>>] = NextView(list, i, l)
  OBVIOUS
<1> HIDE DEF n, step
<1>4. PICK out \in [0..n -> Views] :
         out[0] = <<>> /\ \A i \in 1..n : out[i] = step[<<i, out[i - 1]>>]
  <2>1. <<>> \in Views
    BY NoViews
  <2>2. \E out \in [0..n -> Views] : Turns(n, <<>>, step, out)
    BY <1>1, <1>2, <2>1, LoopExists
  <2>3. QED
    BY <2>2 DEF Turns
<1>5. Runs(out)
  <2>1. \A i \in 0..n : out[i] = IF i = 0 THEN <<>> ELSE NextView(list, i, out[i - 1])
    <3>1. ASSUME NEW i \in 1..n PROVE out[i] = NextView(list, i, out[i - 1])
      <4>1. out[i - 1] \in Views
        BY <1>1
      <4>2. QED
        BY <1>3, <1>4, <4>1
    <3>2. QED
      BY <1>1, <1>4, <3>1
  <2>2. QED
    BY <2>1
<1>6. Runs(out0)
  <2> HIDE DEF Runs
  <2>1. QED
    BY <1>5
<1>7. NormaliseList(list) = out0[n]
  BY DEF NormaliseList, NextView, n
<1> HIDE DEF out0
<1>8. /\ out0[0] = <<>>
      /\ \A i \in 1..n : out0[i] = NextView(list, i, out0[i - 1])
  BY <1>1, <1>6
<1>9. \A i \in 0..n : out0[i] \in Views
  <2> DEFINE S == {i \in 0..n : out0[i] \in Views}
  <2>1. 0 \in S
    BY <1>1, <1>8, NoViews
  <2>2. \A i \in 1..n : i - 1 \in S => i \in S
    <3> SUFFICES ASSUME NEW i \in 1..n, i - 1 \in S PROVE out0[i] \in Views
      BY <1>1
    <3>1. QED
      BY <1>8, NextViewType DEF n
  <2> HIDE DEF S
  <2>3. 0..n \subseteq S
    BY <1>1, <2>1, <2>2, StepByStep
  <2>4. QED
    BY <2>3 DEF S
<1>10. out0 \in [0..n -> Views]
  BY <1>6, <1>9
<1>11. QED
  BY <1>7, <1>8, <1>10 DEF n

\* What is read is a list of arrangements, and one that is is read as it is.
LEMMA NormaliseListType == ASSUME NEW list, Readable(list) PROVE NormaliseList(list) \in Views
<1>1. Len(list) \in 0..Len(list)
  BY DEF Readable
<1>2. QED
  BY <1>1, NormaliseListLoop

LEMMA ViewsReadable == ASSUME NEW l \in Views PROVE Readable(l)
<1>1. l \in Seq(Arranged)
  BY DEF Views
<1>2. \A i \in DOMAIN l : l[i].name \in ViewNames /\ l[i].viewport \in Viewport
  <2>1. \A i \in DOMAIN l : l[i] \in Arranged
    BY <1>1
  <2>2. \A e \in Arranged : e.name \in ViewNames /\ e.viewport \in Viewport
    BY DEF Arranged, Clean
  <2>3. QED
    BY <2>1, <2>2
<1>3. Len(l) \in Nat /\ DOMAIN l = 1..Len(l)
  BY <1>1
<1>4. QED
  BY <1>2, <1>3, NormaliseAgain DEF Readable

LEMMA NormaliseListAgain == ASSUME NEW l \in Views PROVE NormaliseList(l) = l
<1> DEFINE n == Len(l)
<1>1. /\ l \in Seq(Arranged) /\ n <= MaxViews /\ n \in Nat /\ DOMAIN l = 1..n
      /\ \A i, j \in DOMAIN l : l[i].name = l[j].name => i = j
  BY DEF Views
<1>2. PICK out \in [0..n -> Views] :
         /\ out[0] = <<>>
         /\ \A i \in 1..n : out[i] = NextView(l, i, out[i - 1])
         /\ NormaliseList(l) = out[n]
  BY NormaliseListLoop, ViewsReadable
<1> HIDE DEF n
<1>3. ASSUME NEW i \in 1..n, out[i - 1] = SubSeq(l, 1, i - 1) PROVE out[i] = SubSeq(l, 1, i)
  <2> DEFINE before == SubSeq(l, 1, i - 1)
             named == Named(CleanNames[l[i].name], Normalise(l[i].viewport))
  <2>1. l[i] \in Arranged
    BY <1>1
  <2>2. named = l[i] /\ l[i].name # ""
    <3>1. l[i].name \in Clean /\ l[i].viewport \in Viewport /\ l[i] = [name |-> l[i].name, viewport |-> l[i].viewport]
      BY <2>1 DEF Arranged
    <3>2. Normalise(l[i].viewport) = l[i].viewport
      BY <3>1, NormaliseAgain
    <3>3. CleanNames[l[i].name] = l[i].name /\ l[i].name # ""
      BY <3>1 DEF Clean
    <3>4. QED
      BY <3>1, <3>2, <3>3 DEF Named
  <2>3. /\ before \in Seq(Arranged) /\ Len(before) = i - 1 /\ DOMAIN before = 1..(i - 1)
        /\ \A k \in 1..(i - 1) : before[k] = l[k]
    BY <1>1
  <2>4. l[i].name \notin NamesIn(before)
    <3>1. \A k \in 1..(i - 1) : l[k].name # l[i].name
      BY <1>1
    <3> HIDE DEF before
    <3>2. QED
      BY <2>3, <3>1 DEF NamesIn
  <2>5. ~(Len(before) >= MaxViews)
    BY <1>1, <2>3, PrefsAssumption
  <2>6. NextView(l, i, before) = Append(before, l[i])
    <3> HIDE DEF before
    <3>1. QED
      BY <2>2, <2>4, <2>5 DEF NextView
  <2>7. Append(before, l[i]) = SubSeq(l, 1, i)
    BY <1>1
  <2>8. QED
    BY <1>2, <1>3, <2>6, <2>7
<1> DEFINE S == {i \in 0..n : out[i] = SubSeq(l, 1, i)}
<1>4. 0 \in S
  <2>1. SubSeq(l, 1, 0) = <<>>
    BY SubSeqEmpty
  <2>2. out[0] = SubSeq(l, 1, 0) /\ 0 \in 0..n
    BY <1>1, <1>2, <2>1
  <2>3. QED
    BY <2>2
<1>5. \A i \in 1..n : i - 1 \in S => i \in S
  BY <1>1, <1>3, SMTT(30)
<1>6. n \in S
  <2> HIDE DEF S
  <2>1. 0..n \subseteq S
    BY <1>1, <1>4, <1>5, StepByStep
  <2>2. QED
    BY <1>1, <2>1
<1>7. SubSeq(l, 1, n) = l
  BY <1>1, SubSeqFull DEF n
<1>8. QED
  BY <1>2, <1>6, <1>7

\* The filter of drop.
NextKept(l, name, i, out) == IF l[i].name = name THEN out ELSE Append(out, l[i])

LEMMA DroppedLoop ==
    ASSUME NEW l \in Seq(Arranged), NEW name
    PROVE  \E out :
              /\ out[0] = <<>>
              /\ \A i \in 1..Len(l) : out[i] = NextKept(l, name, i, out[i - 1])
              /\ Dropped(l, name) = out[Len(l)]
<1> DEFINE n == Len(l)
           All == Seq(Arranged)
           step == [p \in (1..n) \X All |-> NextKept(l, name, p[1], p[2])]
           Runs(out) == out = [i \in 0..n |-> IF i = 0 THEN <<>> ELSE NextKept(l, name, i, out[i - 1])]
           out0 == CHOOSE out : Runs(out)
<1>1. n \in Nat /\ \A i \in 1..n : l[i] \in Arranged
  OBVIOUS
<1>2. step \in [(1..n) \X All -> All]
  <2>1. \A i \in 1..n : \A m \in All : NextKept(l, name, i, m) \in All
    BY <1>1, AppendProperties DEF NextKept
  <2> HIDE DEF All, n
  <2>2. QED
    BY <2>1
<1>3. \A i \in 1..n : \A m \in All : step[<<i, m>>] = NextKept(l, name, i, m)
  OBVIOUS
<1>4. <<>> \in All
  BY EmptySeq
<1> HIDE DEF n, step, All
<1>5. PICK out \in [0..n -> All] : out[0] = <<>> /\ \A i \in 1..n : out[i] = step[<<i, out[i - 1]>>]
  <2>1. \E out \in [0..n -> All] : Turns(n, <<>>, step, out)
    BY <1>1, <1>2, <1>4, LoopExists
  <2>2. QED
    BY <2>1 DEF Turns
<1>6. Runs(out)
  <2>1. ASSUME NEW i \in 1..n
        PROVE  out[i] = NextKept(l, name, i, out[i - 1])
    <3>1. out[i - 1] \in All
      BY <1>1
    <3>2. QED
      BY <1>3, <1>5, <3>1
  <2>2. QED
    BY <1>1, <1>5, <2>1
<1>7. Runs(out0)
  <2> HIDE DEF Runs
  <2>1. QED
    BY <1>6
<1>8. Dropped(l, name) = out0[n]
  BY DEF Dropped, NextKept, n
<1> HIDE DEF out0
<1>9. /\ out0[0] = <<>>
      /\ \A i \in 1..n : out0[i] = NextKept(l, name, i, out0[i - 1])
  BY <1>1, <1>7
<1>10. QED
  BY <1>8, <1>9 DEF n

LEMMA DroppedType == ASSUME NEW l \in Views, NEW name PROVE Dropped(l, name) \in Views
<1> DEFINE n == Len(l)
           Upto(i) == {l[j].name : j \in 1..i}
<1>1. /\ l \in Seq(Arranged) /\ n \in Nat /\ n <= MaxViews /\ DOMAIN l = 1..n
      /\ \A i, j \in DOMAIN l : l[i].name = l[j].name => i = j
  BY DEF Views
<1>2. PICK out :
         /\ out[0] = <<>>
         /\ \A i \in 1..n : out[i] = NextKept(l, name, i, out[i - 1])
         /\ Dropped(l, name) = out[n]
  BY <1>1, DroppedLoop
<1> DEFINE Good(i) == out[i] \in Views /\ Len(out[i]) <= i /\ NamesIn(out[i]) \subseteq Upto(i)
           S == {i \in 0..n : Good(i)}
<1> HIDE DEF n
<1>3. Good(0)
  <2>1. Len(<<>>) <= 0 /\ NamesIn(<<>>) \subseteq Upto(0)
    BY NoViews
  <2>2. QED
    BY <1>2, <2>1, NoViews
<1>4. ASSUME NEW i \in 1..n, Good(i - 1) PROVE Good(i)
  <2> DEFINE m == out[i - 1]
  <2>1. m \in Views /\ Len(m) <= i - 1 /\ NamesIn(m) \subseteq Upto(i - 1)
    BY <1>4
  <2>2. Upto(i - 1) \subseteq Upto(i) /\ l[i].name \in Upto(i) /\ l[i] \in Arranged
    BY <1>1
  <2>3. l[i].name \notin Upto(i - 1)
    BY <1>1
  <2>4. Len(m) \in Nat
    <3>1. m \in Seq(Arranged)
      BY <2>1 DEF Views
    <3>2. QED
      BY <3>1
  <2> HIDE DEF m, Upto
  <2>5. CASE l[i].name = name
    <3>1. out[i] = m
      BY <1>2, <2>5 DEF m, NextKept
    <3>2. QED
      BY <2>1, <2>2, <2>4, <3>1
  <2>6. CASE l[i].name # name
    <3>1. out[i] = Append(m, l[i])
      BY <1>2, <2>6 DEF m, NextKept
    <3>2. l[i].name \notin NamesIn(m)
      BY <2>1, <2>3
    <3>3. Len(m) < MaxViews
      BY <1>1, <2>1, <2>4, PrefsAssumption
    <3>4. Append(m, l[i]) \in Views /\ NamesIn(Append(m, l[i])) = NamesIn(m) \cup {l[i].name}
      BY <2>1, <2>2, <3>2, <3>3, OneMore
    <3>5. Len(Append(m, l[i])) = Len(m) + 1
      BY <2>1, <2>2, AppendProperties DEF Views
    <3>6. Len(out[i]) <= i
      BY <2>1, <2>4, <3>1, <3>5
    <3>7. NamesIn(out[i]) \subseteq Upto(i)
      BY <2>1, <2>2, <3>1, <3>4
    <3>8. QED
      BY <3>1, <3>4, <3>6, <3>7
  <2>7. QED
    BY <2>5, <2>6
<1>5. n \in S
  <2> HIDE DEF Good
  <2>1. 0 \in S /\ \A i \in 1..n : i - 1 \in S => i \in S
    BY <1>1, <1>3, <1>4
  <2> HIDE DEF S
  <2>2. 0..n \subseteq S
    BY <1>1, <2>1, StepByStep
  <2>3. QED
    BY <1>1, <2>2
<1>6. QED
  BY <1>2, <1>5

\* One of that name takes its place; a new one is added where there is room.
LEMMA PutType ==
    ASSUME NEW l \in Views, NEW name \in Clean, NEW v \in Viewport
    PROVE  Put(l, name, v) \in Views
<1> DEFINE e == Named(name, v)
<1>1. /\ l \in Seq(Arranged) /\ Len(l) \in Nat /\ Len(l) <= MaxViews /\ DOMAIN l = 1..Len(l)
      /\ \A i, j \in DOMAIN l : l[i].name = l[j].name => i = j
  BY DEF Views
<1>2. e \in Arranged /\ e.name = name
  BY DEF Named, Arranged
<1>3. CASE name \in NamesIn(l)
  <2> DEFINE m == [i \in DOMAIN l |-> IF l[i].name = name THEN e ELSE l[i]]
  <2>1. Put(l, name, v) = m
    BY <1>3 DEF Put
  <2>2. \A i \in DOMAIN l : m[i] \in Arranged /\ m[i].name = l[i].name
    <3> HIDE DEF e
    <3>1. QED
      BY <1>1, <1>2
  <2>3. m \in Seq(Arranged) /\ Len(m) = Len(l) /\ DOMAIN m = DOMAIN l
    <3> HIDE DEF e
    <3>1. DOMAIN m = 1..Len(l) /\ \A i \in 1..Len(l) : m[i] \in Arranged
      BY <1>1, <2>2
    <3>2. m \in [1..Len(l) -> Arranged]
      BY <3>1
    <3> HIDE DEF m
    <3>3. QED
      BY <1>1, <3>1, <3>2
  <2> HIDE DEF m, e
  <2>4. \A i, j \in DOMAIN m : m[i].name = m[j].name => i = j
    BY <1>1, <2>2, <2>3
  <2>5. QED
    BY <1>1, <2>1, <2>3, <2>4 DEF Views
<1>4. CASE name \notin NamesIn(l) /\ Len(l) >= MaxViews
  BY <1>4 DEF Put
<1>5. CASE name \notin NamesIn(l) /\ ~(Len(l) >= MaxViews)
  <2>1. Len(l) < MaxViews
    BY <1>1, <1>5, PrefsAssumption
  <2>2. Put(l, name, v) = Append(l, e)
    BY <1>5 DEF Put
  <2> HIDE DEF e
  <2>3. QED
    BY <1>2, <1>5, <2>1, <2>2, OneMore
<1>6. QED
  BY <1>3, <1>4, <1>5

-----------------------------------------------------------------------------
(* The page keeps them                                                      *)

LEMMA PrefInitial == ASSUME PrefInit PROVE PrefInv
<1>1. PICK view \in FirstViewports, list \in FirstLists, stored \in FirstLights :
         /\ viewport = Normalise(view) /\ live = viewport.camera
         /\ savedViews = NormaliseList(list)
         /\ storedView = viewport /\ storedList = savedViews
         /\ level = SettingOf(stored) /\ storedLevel = stored
  BY DEF PrefInit
<1>2. Usable(view) /\ Readable(list)
  BY PrefsAssumption DEF Readable
<1>3. viewport \in Viewport /\ savedViews \in Views
  BY <1>1, <1>2, NormaliseType, NormaliseListType
<1>4. viewport.camera \in Cameras \cup {NoCamera}
  BY <1>3 DEF Viewport
<1>5. QED
  BY <1>1, <1>3, <1>4 DEF PrefInv

\* Arranged in any way, the page stores it so, with the camera where it is.
LEMMA ArrangeKeeps ==
    ASSUME PrefInv, NEW v \in Viewport, viewport' = v, storedView' = Live(v, live),
           UNCHANGED <<live, savedViews, storedList, level, storedLevel>>
    PROVE  PrefInv'
<1>1. /\ Live(v, live) \in Viewport /\ Live(v, live).camera = live
      /\ Live(Live(v, live), NoCamera) = Live(v, NoCamera)
  BY LiveType DEF PrefInv
<1> DEFINE inView == Live(v, live)
<1>2. inView \in Viewport /\ inView.camera = live /\ Live(inView, NoCamera) = Live(v, NoCamera)
  BY <1>1
<1> HIDE DEF inView
<1>3. viewport' = v /\ storedView' = inView /\ live' = live
  BY DEF inView
<1>4. viewport' \in Viewport /\ storedView' \in Viewport /\ live' \in Cameras \cup {NoCamera}
  BY <1>2, <1>3 DEF PrefInv
<1>5. Live(storedView', NoCamera) = Live(viewport', NoCamera) /\ storedView'.camera = live'
  BY <1>2, <1>3
<1>6. /\ savedViews' \in Views /\ storedList' = savedViews'
      /\ SettingOf(storedLevel') = level'
  BY DEF PrefInv
<1>7. QED
  BY <1>4, <1>5, <1>6 DEF PrefInv

LEMMA ListsKeep ==
    ASSUME PrefInv, NEW list \in Views, Lists(list)
    PROVE  PrefInv'
  BY DEF PrefInv, Lists

LEMMA Rearranged ==
    ASSUME NEW v \in Viewport
    PROVE  /\ \A n \in Int : [v EXCEPT !.columns = ColumnsAt(n)] \in Viewport
           /\ \A n \in Int : [v EXCEPT !.height = HeightAt(n)] \in Viewport
           /\ \A on \in BOOLEAN : [v EXCEPT !.room = on] \in Viewport
           /\ \A on \in BOOLEAN : [v EXCEPT !.force = on] \in Viewport
           /\ v.columns \in Int /\ v.height \in Int
<1>1. \A n \in Int : ColumnsAt(n) \in 2..10 /\ HeightAt(n) \in 160..900
  BY Snapped, SMTT(30)
<1>2. \A c \in 2..10 : [v EXCEPT !.columns = c] \in Viewport
  BY DEF Viewport
<1>3. \A h \in 160..900 : [v EXCEPT !.height = h] \in Viewport
  BY DEF Viewport
<1>4. \A on \in BOOLEAN : [v EXCEPT !.room = on] \in Viewport /\ [v EXCEPT !.force = on] \in Viewport
  BY DEF Viewport
<1>5. v.columns \in Int /\ v.height \in Int
  BY DEF Viewport
<1>6. \A n \in Int : [v EXCEPT !.columns = ColumnsAt(n)] \in Viewport
  BY <1>1, <1>2, ZenonT(60)
<1>7. \A n \in Int : [v EXCEPT !.height = HeightAt(n)] \in Viewport
  BY <1>1, <1>3, ZenonT(60)
<1>8. QED
  BY <1>4, <1>5, <1>6, <1>7, Zenon

LEMMA PrefsKeep == ASSUME PrefInv, PrefNext \/ UNCHANGED prefVars PROVE PrefInv'
<1>0. viewport \in Viewport
  BY DEF PrefInv
<1>1. \A n \in Int : SetColumns(n) \/ SetHeight(n) => PrefInv'
  BY <1>0, Rearranged, ArrangeKeeps DEF SetColumns, SetHeight, Arrange
<1>2. CASE ShowOrHide
  BY <1>0, <1>2, Rearranged, ArrangeKeeps DEF ShowOrHide, Arrange
<1>3. CASE TakeDivider \/ LetGo
  BY <1>3 DEF TakeDivider, LetGo, PrefInv
<1>4. CASE DragDivider
  <2>1. \E n \in Int : SetColumns(n) \/ SetHeight(n)
    BY <1>4, PrefsAssumption DEF DragDivider
  <2>2. QED
    BY <1>1, <2>1
<1>5. CASE DividerKey
  <2>1. viewport.columns \in Int /\ viewport.height \in Int
    BY <1>0, Rearranged
  <2>2. \E n \in Int : SetColumns(n) \/ SetHeight(n)
    BY <1>5, <2>1 DEF DividerKey
  <2>3. QED
    BY <1>1, <2>2
<1>6. CASE OnCamera
  BY <1>6 DEF OnCamera, PrefInv
<1>7. CASE TimerFires
  <2>1. /\ storedView' = Live(storedView, live) /\ live \in Cameras \cup {NoCamera}
        /\ storedView \in Viewport
    BY <1>7, NormaliseAgain DEF TimerFires, PrefInv
  <2>2. /\ storedView' \in Viewport /\ storedView'.camera = live
        /\ Live(storedView', NoCamera) = Live(storedView, NoCamera)
    BY <2>1, LiveType
  <2>3. QED
    BY <1>7, <2>2 DEF TimerFires, PrefInv
<1>8. CASE SaveView
  <2>1. PICK typed \in ViewNames :
           /\ CleanNames[typed] # ""
           /\ Lists(Put(savedViews, CleanNames[typed], Live(viewport, live)))
    BY <1>8 DEF SaveView
  <2>2. CleanNames[typed] \in Clean
    BY <2>1, PrefsAssumption DEF Clean
  <2>3. Live(viewport, live) \in Viewport
    BY LiveType DEF PrefInv
  <2>4. Put(savedViews, CleanNames[typed], Live(viewport, live)) \in Views
    BY <2>2, <2>3, PutType DEF PrefInv
  <2>5. QED
    BY <2>1, <2>4, ListsKeep
<1>9. CASE RemoveView
  <2>1. PICK name \in NamesIn(savedViews) : Lists(Dropped(savedViews, name))
    BY <1>9 DEF RemoveView
  <2>2. Dropped(savedViews, name) \in Views
    BY DroppedType DEF PrefInv
  <2>3. QED
    BY <2>1, <2>2, ListsKeep
<1>10. CASE ApplyView
  <2>1. PICK i \in DOMAIN savedViews :
           /\ viewport' = savedViews[i].viewport
           /\ storedView' = Live(savedViews[i].viewport, live)
    BY <1>10 DEF ApplyView
  <2>2. savedViews[i].viewport \in Viewport
    <3>1. savedViews \in Seq(Arranged)
      BY DEF PrefInv, Views
    <3>2. savedViews[i] \in Arranged
      BY <3>1
    <3>3. QED
      BY <3>2 DEF Arranged
  <2>3. UNCHANGED <<live, savedViews, storedList, level, storedLevel>>
    BY <1>10 DEF ApplyView
  <2>4. QED
    BY <2>1, <2>2, <2>3, ArrangeKeeps
<1>11. CASE ResetViewport
  <2>1. DefaultViewport \in Viewport /\ DefaultViewport.camera = NoCamera
    BY DefaultIsViewport DEF DefaultViewport
  <2>2. QED
    BY <1>11, <2>1 DEF ResetViewport, PrefInv
<1>12. CASE SetLevel
  <2>1. SettingOf(storedLevel') = level'
    BY <1>12, PrefsAssumption DEF SetLevel, SettingOf
  <2>2. QED
    BY <1>12, <2>1 DEF SetLevel, PrefInv
<1>13. CASE Reopen
  <2>1. Normalise(storedView) = storedView /\ NormaliseList(storedList) = storedList
    BY NormaliseAgain, NormaliseListAgain DEF PrefInv
  <2>2. /\ viewport' = storedView /\ live' = storedView.camera /\ savedViews' = storedList
        /\ storedView' = viewport' /\ storedList' = savedViews'
        /\ level' = SettingOf(storedLevel) /\ storedLevel' = storedLevel
    BY <1>13, <2>1 DEF Reopen, OpensWith
  <2>3. storedView.camera \in Cameras \cup {NoCamera}
    BY DEF PrefInv, Viewport
  <2>4. QED
    BY <2>2, <2>3 DEF PrefInv
<1>14. CASE UNCHANGED prefVars
  BY <1>14 DEF prefVars, PrefInv
<1>15. QED
  BY <1>2, <1>3, <1>4, <1>5, <1>6, <1>7, <1>8, <1>9, <1>10, <1>11, <1>12, <1>13, <1>14 DEF PrefNext

LEMMA PrefsOfThePages == ASSUME Next \/ UNCHANGED vars PROVE PrefNext \/ UNCHANGED prefVars
  BY DEF Next, vars

(* The page opens as it was left (useViewport.ts, viewport.ts, settings.ts),     *)
(* whatever an older build left in the storage, however often it is arranged,    *)
(* saved, applied and opened again, and wherever the camera's timer falls.      *)
THEOREM StageReopensAsLeft == Spec => []ReopensAsArranged
<1>1. Init => PrefInv
  BY PrefInitial DEF Init
<1>2. PrefInv /\ [Next]_vars => PrefInv'
  BY PrefsOfThePages, PrefsKeep
<1>3. PrefInv => ReopensAsArranged
  <2> SUFFICES ASSUME PrefInv PROVE ReopensAsArranged
    OBVIOUS
  <2>1. Normalise(storedView) = storedView /\ NormaliseList(storedList) = savedViews
    BY NormaliseAgain, NormaliseListAgain DEF PrefInv
  <2>2. QED
    BY <2>1 DEF PrefInv, ReopensAsArranged
<1>4. QED
  BY <1>1, <1>2, <1>3, PTL DEF Spec

-----------------------------------------------------------------------------
(* The timeline: the tracks and what is on them *)

LEMMA TracksAre ==
    /\ Len(Tracks) \in Nat /\ DOMAIN Tracks = 1..Len(Tracks)
    /\ \A i \in DOMAIN Tracks : Tracks[i].curve \in BOOLEAN /\ Tracks[i].channels \in Seq(Channels)
<1> DEFINE Kind == [id : TrackIds, curve : BOOLEAN, channels : Seq(Channels)]
<1>1. Tracks \in Seq(Kind)
  BY TracksAssumption
<1>2. \A k \in Kind : k.curve \in BOOLEAN /\ k.channels \in Seq(Channels)
  OBVIOUS
<1> HIDE DEF Kind
<1>3. Len(Tracks) \in Nat /\ DOMAIN Tracks = 1..Len(Tracks) /\ \A i \in DOMAIN Tracks : Tracks[i] \in Kind
  BY <1>1
<1>4. QED
  BY <1>2, <1>3

\* What is on the tracks is one of the scores.
ScenesAre == scene \in Scenes

LEMMA EventIs ==
    ASSUME ScenesAre, NEW i \in DOMAIN Tracks
    PROVE  /\ scene[i] \in Seq(Marks)
           /\ \A k \in DOMAIN scene[i] : /\ scene[i][k] \in Marks /\ scene[i][k].t \in Nat /\ scene[i][k].end \in Nat
                                       /\ scene[i][k].t <= scene[i][k].end
           /\ \A j, k \in DOMAIN scene[i] : j <= k => scene[i][j].t <= scene[i][k].t
<1>1. /\ scene[i] \in Seq(Marks)
      /\ \A j, k \in DOMAIN scene[i] : j <= k => scene[i][j].t <= scene[i][k].t
      /\ \A k \in DOMAIN scene[i] : scene[i][k].t <= scene[i][k].end
  BY ScenesAssumption DEF ScenesAre
<1>2. ASSUME NEW k \in DOMAIN scene[i]
      PROVE  scene[i][k] \in Marks /\ scene[i][k].t \in Nat /\ scene[i][k].end \in Nat
  <2>1. scene[i][k] \in Marks
    BY <1>1
  <2>2. QED
    BY <2>1 DEF Marks
<1>3. QED
  BY <1>1, <1>2

-----------------------------------------------------------------------------
(* The timeline: where its window is *)

\* It lies in the film, and is not too narrow.
WindowInv ==
    /\ start \in Int /\ span \in Int
    /\ MinSpan <= span /\ 0 <= start /\ start + span <= Duration

LEMMA QuotientIs ==
    ASSUME NEW a \in Int, NEW b \in Nat \ {0}
    PROVE  a \div b \in Int /\ b * (a \div b) <= a /\ a < b * (a \div b) + b
  OBVIOUS

LEMMA MinSpanIs ==
    /\ Duration \in Nat \ {0} /\ Width \in Nat \ {0} /\ Frame \in Nat \ {0}
    /\ MinSpan \in Nat \ {0} /\ MinSpan <= Duration
<1>1. Duration \in Nat \ {0} /\ MinFrames \in Nat \ {0} /\ Frame \in Nat \ {0} /\ Width \in Nat \ {0}
  BY CanvasAssumption
<1>2. MinFrames * Frame \in Nat \ {0}
  <2>1. \A a, b \in Nat \ {0} : a * b \in Nat \ {0}
    OBVIOUS
  <2>2. QED
    BY <1>1, <2>1
<1>3. QED
  BY <1>1, <1>2 DEF MinSpan, Lesser

LEMMA WindowIs == ASSUME WindowInv PROVE start \in Nat /\ span \in Nat \ {0} /\ End \in Nat /\ start <= End
  BY MinSpanIs DEF WindowInv, End

\* The width that is asked for is brought into what the film allows, and then the start.
LEMMA SetMoves ==
    ASSUME NEW s \in Int, NEW n \in Int, Set(s, n)
    PROVE  /\ WindowInv'
           /\ span' = Clamp(n, MinSpan, Duration)
           /\ start' = Clamp(s, 0, Duration - span')
<1>1. Duration \in Nat /\ MinSpan \in Nat /\ MinSpan <= Duration
  BY MinSpanIs
<1> DEFINE to == Clamp(n, MinSpan, Duration)
<1>2. to \in Nat /\ MinSpan <= to /\ to <= Duration
  BY <1>1 DEF Clamp
<1>3. span' = to /\ start' = Clamp(s, 0, Greater(0, Duration - to))
  BY DEF Set
<1> HIDE DEF to
<1>4. Greater(0, Duration - to) = Duration - to
  BY <1>1, <1>2 DEF Greater
<1>5. start' \in Int /\ 0 <= start' /\ start' + span' <= Duration
  BY <1>1, <1>2, <1>3, <1>4 DEF Clamp
<1>6. MinSpan' = MinSpan
  BY DEF MinSpan
<1>7. QED
  BY <1>2, <1>3, <1>4, <1>5, <1>6 DEF WindowInv, to

\* A width that is allowed is the one that is had.
LEMMA SetFits ==
    ASSUME NEW s \in Int, NEW n \in Int, MinSpan <= n, n <= Duration, Set(s, n)
    PROVE  /\ span' = n /\ start' \in Int
           /\ \/ start' = s
              \/ s < 0 /\ start' = 0
              \/ s > Duration - n /\ start' = Duration - n
<1>1. Duration \in Nat /\ MinSpan \in Nat
  BY MinSpanIs
<1>2. span' = Clamp(n, MinSpan, Duration) /\ start' = Clamp(s, 0, Duration - span')
  BY SetMoves
<1>3. span' = n
  BY <1>1, <1>2 DEF Clamp
<1>4. QED
  BY <1>1, <1>2, <1>3 DEF Clamp

LEMMA InitWindow == ASSUME CanvasInit PROVE WindowInv
<1>1. Duration \in Nat /\ MinSpan \in Nat /\ MinSpan <= Duration
  BY MinSpanIs
<1>2. Duration \div 10 \in Int /\ 10 * (Duration \div 10) <= Duration
  BY <1>1, QuotientIs
<1>3. QED
  BY <1>1, <1>2 DEF CanvasInit, WindowInv, DefaultSpan

\* Every way of moving the window sets it.
LEMMA WindowKeeps == ASSUME WindowInv, ScenesAre, [CanvasNext]_canvasVars PROVE WindowInv'
<1>1. /\ Duration \in Nat \ {0} /\ Width \in Nat \ {0} /\ Frame \in Nat \ {0}
      /\ MinSpan \in Nat \ {0} /\ MinSpan <= Duration /\ MinSpan' = MinSpan
  BY MinSpanIs DEF MinSpan
<1>2. start \in Nat /\ span \in Nat \ {0} /\ End \in Nat
  BY WindowIs
<1>3. ASSUME NEW s \in Int, NEW n \in Int, Set(s, n) PROVE WindowInv'
  BY <1>3, SetMoves
<1>4. ASSUME Fit \/ Reset PROVE WindowInv'
  <2>1. DefaultSpan \in Int
    BY <1>1, QuotientIs DEF DefaultSpan
  <2>2. QED
    BY <1>1, <1>3, <1>4, <2>1 DEF Fit, Reset
<1>5. ASSUME NEW by \in {-Width, -3, 3, Width}, Pan(by) PROVE WindowInv'
  <2> DEFINE far == span * by * 6
             of == 5 * Width
  <2>1. by \in Int /\ far \in Int /\ of \in Nat \ {0}
    BY <1>1, <1>2
  <2>2. Set(start + far \div of, span)
    BY <1>5 DEF Pan
  <2> HIDE DEF far, of
  <2>3. far \div of \in Int
    BY <2>1, QuotientIs
  <2>4. QED
    BY <1>2, <1>3, <2>2, <2>3
<1>6. ASSUME NEW x \in Pointers, NEW num \in 1..2, NEW den \in 1..2, ZoomAt(x, num, den) PROVE WindowInv'
  <2> DEFINE off == (span * Clamp(x, 0, Width)) \div Width
             wanted == Clamp((span * num) \div den, MinSpan, Duration)
             s == start + off - (off * wanted) \div span
  <2>1. Clamp(x, 0, Width) \in Int
    BY <1>1, CanvasAssumption DEF Clamp
  <2>2. off \in Int
    <3>1. span * Clamp(x, 0, Width) \in Int
      BY <1>2, <2>1
    <3>2. QED
      BY <1>1, <3>1, QuotientIs
  <2>3. wanted \in Int
    <3>1. (span * num) \div den \in Int
      BY <1>2, QuotientIs
    <3>2. QED
      BY <1>1, <3>1 DEF Clamp
  <2> HIDE DEF off, wanted
  <2>4. s \in Int
    <3>1. off * wanted \in Int
      BY <2>2, <2>3
    <3>2. (off * wanted) \div span \in Int
      BY <1>2, <3>1, QuotientIs
    <3>3. QED
      BY <1>2, <2>2, <3>2
  <2>5. Set(s, wanted)
    BY <1>6 DEF ZoomAt, off, wanted
  <2>6. QED
    BY <1>3, <2>3, <2>4, <2>5
<1>7. ASSUME NEW a \in Int, NEW b \in Int, ZoomTo(a, b) PROVE WindowInv'
  <2> DEFINE lo == Lesser(a, b)
             hi == Greater(a, b)
             room == Greater(((hi - lo) * 8) \div 100, MinSpan \div 4)
  <2>1. lo \in Int /\ hi \in Int
    BY DEF Lesser, Greater
  <2>2. room \in Int
    BY <1>1, <2>1, QuotientIs DEF Greater
  <2>3. Set(lo - room, hi - lo + 2 * room)
    BY <1>7 DEF ZoomTo
  <2> HIDE DEF lo, hi, room
  <2>4. QED
    BY <1>3, <2>1, <2>2, <2>3
<1>8. ASSUME NEW t \in 0..Duration, Reveal(t) PROVE WindowInv'
  <2> DEFINE margin == (span * 6) \div 100
  <2>1. margin \in Int /\ span \div 3 \in Int
    BY <1>2, QuotientIs
  <2>2. \E s \in Int : Set(s, span)
    BY <1>1, <1>2, <1>8, <2>1 DEF Reveal
  <2>3. QED
    BY <1>2, <1>3, <2>2
<1>9. ASSUME NEW t \in -2..(Duration + 2), NEW part \in {"move", "start", "end"}, DragBox(part, t) PROVE WindowInv'
  <2>1. span \div 2 \in Int
    BY <1>2, QuotientIs
  <2>2. t \in Int /\ t - span \div 2 \in Int /\ End - t \in Int /\ t - start \in Int
    BY <1>1, <1>2, <2>1
  <2>3. Set(t - span \div 2, span) \/ Set(t, End - t) \/ Set(start, t - start)
    BY <1>9 DEF DragBox
  <2>4. QED
    BY <1>2, <1>3, <2>2, <2>3
<1>10. ASSUME UNCHANGED <<start, span>> PROVE WindowInv'
  BY <1>1, <1>10 DEF WindowInv
<1>11. ASSUME NEW i \in DOMAIN Tracks, NEW k \in DOMAIN scene[i], ZoomTo(scene[i][k].t, scene[i][k].end)
       PROVE  WindowInv'
  <2>1. scene[i][k].t \in Int /\ scene[i][k].end \in Int
    BY EventIs
  <2>2. QED
    BY <1>7, <1>11, <2>1
<1>12. CASE \E id \in TrackIds : (\E by \in {-1, 1} : MoveBy(id, by)) \/ \E before \in TrackIds : MoveTo(id, before)
  BY <1>10, <1>12 DEF MoveBy, MoveTo, window
<1>13. CASE \E i \in DOMAIN Tracks : Toggle(i)
  BY <1>10, <1>13 DEF Toggle, window
<1>14. CASE UNCHANGED canvasVars
  BY <1>10, <1>14 DEF canvasVars, window
<1>15. CASE \E x \in Pointers : ZoomAt(x, 1, 2) \/ ZoomAt(x, 2, 1)
  BY <1>6, <1>15
<1>16. QED
  BY <1>4, <1>5, <1>8, <1>9, <1>11, <1>12, <1>13, <1>14, <1>15 DEF CanvasNext

\* The score that is shown does not change while it is looked at.
LEMMA ScenesKept == ASSUME ScenesAre, [CanvasNext]_canvasVars PROVE ScenesAre'
<1>1. scene' = scene
  BY DEF CanvasNext, canvasVars, Fit, Reset, Pan, ZoomAt, ZoomTo, Reveal, DragBox, MoveBy, MoveTo, Toggle
<1>2. QED
  BY <1>1 DEF ScenesAre

\* What is revealed is in the window that follows.
LEMMA RevealShows == ASSUME WindowInv, NEW t \in 0..Duration, Reveal(t) PROVE Inside(t)'
<1> DEFINE margin == (span * 6) \div 100
           third == span \div 3
<1>1. /\ start \in Nat /\ span \in Nat \ {0} /\ MinSpan <= span /\ start + span <= Duration
      /\ Duration \in Nat /\ End = start + span
  BY WindowIs, MinSpanIs DEF WindowInv, End
<1>2. /\ margin \in Int /\ 100 * margin <= span * 6 /\ span * 6 < 100 * margin + 100
      /\ third \in Int /\ 3 * third <= span /\ span < 3 * third + 3
  <2>1. span * 6 \in Int
    BY <1>1
  <2>2. QED
    BY <1>1, <2>1, QuotientIs
<1>3. \/ /\ t < start + margin
         /\ Set(t - third, span) \/ Set(t - margin, span)
      \/ /\ t > End - margin
         /\ Set(t - third, span) \/ Set(t - span + margin, span)
  BY <1>1 DEF Reveal
<1> HIDE DEF margin, third
<1>4. 0 <= margin /\ margin <= span /\ 0 <= third /\ third <= span
  BY <1>1, <1>2
<1>5. ASSUME NEW s \in Int, Set(s, span), s <= t, t <= s + span PROVE Inside(t)'
  <2>1. span' = span /\ start' \in Int
    BY <1>1, <1>5, SetFits
  <2>2. start' = s \/ (s < 0 /\ start' = 0) \/ (s > Duration - span /\ start' = Duration - span)
    BY <1>1, <1>5, SetFits
  <2>3. start' <= t /\ t <= start' + span'
    <3>1. t \in Int /\ 0 <= t /\ t <= Duration /\ span \in Int /\ Duration \in Int
      BY <1>1
    <3>2. CASE start' = s
      BY <1>5, <2>1, <3>2
    <3>3. CASE s < 0 /\ start' = 0
      BY <1>5, <2>1, <3>1, <3>3
    <3>4. CASE s > Duration - span /\ start' = Duration - span
      BY <1>5, <2>1, <3>1, <3>4
    <3>5. QED
      BY <2>2, <3>2, <3>3, <3>4
  <2>4. QED
    BY <2>3 DEF Inside, End
<1>6. QED
  BY <1>1, <1>2, <1>3, <1>4, <1>5

\* Of a zoom that keeps the moment at a pixel: what is rounded away is less than a tick.
LEMMA ZoomRounds ==
    ASSUME NEW x \in Nat, NEW W \in Nat \ {0}, NEW n \in Nat \ {0}, NEW w \in Nat, w <= n \/ w = 2 * n,
           NEW off \in Nat, off = (x * n) \div W
    PROVE  LET b == (off * w) \div n
               c == (x * w) \div W
           IN b \in Int /\ c \in Int /\ b <= c /\ c <= b + 1
<1> DEFINE b == (off * w) \div n
           c == (x * w) \div W
<1>1. x * n \in Nat /\ off * w \in Nat /\ x * w \in Nat
  OBVIOUS
<1>2. W * off <= x * n /\ x * n < W * off + W
  BY <1>1, QuotientIs
<1>3. b \in Int /\ n * b <= off * w /\ off * w < n * b + n
  <2>1. \A p \in Nat : p \div n \in Int /\ n * (p \div n) <= p /\ p < n * (p \div n) + n
    BY QuotientIs
  <2>2. QED
    BY <1>1, <2>1, Zenon
<1>4. c \in Int /\ W * c <= x * w /\ x * w < W * c + W
  <2>1. \A p \in Nat : p \div W \in Int /\ W * (p \div W) <= p /\ p < W * (p \div W) + W
    BY QuotientIs
  <2>2. QED
    BY <1>1, <2>1, Zenon
<1> HIDE DEF b, c
<1>5. b <= c
  <2> SUFFICES ASSUME c + 1 <= b PROVE FALSE
    BY <1>3, <1>4
  <2>1. W * (c + 1) <= W * b
    BY <1>3, <1>4
  <2>2. x * w < W * b
    BY <1>3, <1>4, <2>1
  <2>3. n * (x * w) < n * (W * b)
    BY <1>1, <1>3, <2>2
  <2>4. W * (n * b) <= W * (off * w)
    BY <1>1, <1>3
  <2>5. (W * off) * w <= (x * n) * w
    BY <1>1, <1>2
  <2>6. n * (x * w) = (x * n) * w /\ n * (W * b) = W * (n * b) /\ W * (off * w) = (W * off) * w
    BY <1>3
  <2>7. /\ n * (x * w) \in Int /\ n * (W * b) \in Int /\ W * (off * w) \in Int
    BY <1>1, <1>3
  <2>8. QED
    BY <2>3, <2>4, <2>5, <2>6, <2>7
<1>6. CASE w <= n
  <2> SUFFICES ASSUME b + 2 <= c PROVE c <= b + 1
    BY <1>3, <1>4
  <2>1. W * (b + 2) <= W * c
    BY <1>3, <1>4
  <2>2. W * (b + 2) <= x * w
    BY <1>1, <1>3, <1>4, <2>1
  <2>3. n * (W * (b + 2)) <= n * (x * w)
    BY <1>1, <1>3, <2>2
  <2>4. W * (off * w) < W * (n * b + n)
    BY <1>1, <1>3
  <2>5. (x * n - W) * w <= (W * off) * w
    BY <1>1, <1>2
  <2>6. W * w <= W * n
    BY <1>6
  <2>7. /\ (x * n - W) * w = n * (x * w) - W * w
        /\ n * (W * (b + 2)) = W * (n * b + n) + W * n
        /\ W * (off * w) = (W * off) * w
    BY <1>3
  <2>8. /\ n * (x * w) \in Int /\ W * w \in Int /\ W * n \in Int /\ W * (n * b + n) \in Int
        /\ W * (off * w) \in Int /\ (x * n - W) * w \in Int
    BY <1>1, <1>3
  <2>9. QED
    BY <2>3, <2>4, <2>5, <2>6, <2>7, <2>8
<1>7. CASE w = 2 * n
  <2>1. off * w = n * (2 * off) /\ x * w = 2 * (x * n)
    BY <1>7
  <2>2. n * (2 * off) < n * b + n /\ n * b + n = n * (b + 1)
    BY <1>3, <2>1
  <2>3. 2 * off < b + 1
    <3> SUFFICES ASSUME b + 1 <= 2 * off PROVE FALSE
      BY <1>3
    <3>1. n * (b + 1) <= n * (2 * off)
      BY <1>3
    <3>2. n * (b + 1) \in Int /\ n * (2 * off) \in Int
      BY <1>3
    <3>3. QED
      BY <2>2, <3>1, <3>2
  <2>4. W * c < 2 * (W * off + W) /\ 2 * (W * off + W) = W * (2 * off + 2)
    BY <1>1, <1>2, <1>4, <2>1
  <2>5. c < 2 * off + 2
    <3> SUFFICES ASSUME 2 * off + 2 <= c PROVE FALSE
      BY <1>4
    <3>1. W * (2 * off + 2) <= W * c
      BY <1>4
    <3>2. W * (2 * off + 2) \in Int /\ W * c \in Int
      BY <1>4
    <3>3. QED
      BY <2>4, <3>1, <3>2
  <2>6. QED
    BY <1>3, <1>4, <2>3, <2>5
<1>8. QED
  BY <1>3, <1>4, <1>5, <1>6, <1>7 DEF b, c

LEMMA ZoomHolds ==
    ASSUME WindowInv, NEW x \in Pointers, NEW f \in {<<1, 2>>, <<2, 1>>}, ZoomAt(x, f[1], f[2])
    PROVE  Distance(TimeAt(x)', TimeAt(x)) <= 1 \/ start' = 0 \/ End' = Duration
<1> DEFINE asked == (span * f[1]) \div f[2]
           wanted == Clamp(asked, MinSpan, Duration)
           off == (x * span) \div Width
           b == (off * wanted) \div span
           c == (x * wanted) \div Width
<1>1. /\ start \in Nat /\ span \in Nat \ {0} /\ MinSpan <= span /\ start + span <= Duration
      /\ Duration \in Nat /\ Width \in Nat \ {0} /\ MinSpan \in Nat
  BY WindowIs, MinSpanIs DEF WindowInv
<1>2. x \in 0..Width /\ Clamp(x, 0, Width) = x
  BY <1>1, CanvasAssumption DEF Clamp
<1>3. asked \in Int /\ (asked <= span \/ asked = 2 * span)
  <2>1. CASE f = <<1, 2>>
    <3>1. asked = (span * 1) \div 2
      BY <2>1
    <3>2. asked \in Int /\ 2 * asked <= span
      BY <1>1, <3>1, QuotientIs
    <3>3. QED
      BY <1>1, <3>2
  <2>2. CASE f = <<2, 1>>
    <3>1. asked = (span * 2) \div 1
      BY <2>2
    <3>2. QED
      BY <1>1, <3>1
  <2>3. QED
    BY <2>1, <2>2
<1> HIDE DEF asked
<1>4. /\ wanted \in Nat /\ MinSpan <= wanted /\ wanted <= Duration
      /\ wanted <= span \/ wanted = 2 * span \/ wanted = Duration
  BY <1>1, <1>3 DEF Clamp
<1>5. off \in Nat
  <2>1. \A p \in Nat : \A d \in Nat \ {0} : p \div d \in Nat
    OBVIOUS
  <2>2. x * span \in Nat
    BY <1>1, <1>2
  <2>3. QED
    BY <1>1, <2>1, <2>2
<1>6. Set(start + off - b, wanted)
  <2>1. span * x = x * span
    BY <1>1, <1>2
  <2>2. QED
    BY <1>2, <2>1 DEF ZoomAt, asked
<1>7. TimeAt(x) = start + off
  BY DEF TimeAt
<1>8. b \in Int
  <2>1. off * wanted \in Int
    BY <1>4, <1>5
  <2>2. QED
    BY <1>1, <2>1, QuotientIs
<1> DEFINE s == start + off - b
<1>9. s \in Int
  BY <1>1, <1>5, <1>8
<1>10. /\ span' = wanted /\ start' \in Int
       /\ start' = s \/ start' = 0 \/ start' = Duration - wanted
  <2> HIDE DEF wanted, s
  <2>1. QED
    BY <1>4, <1>6, <1>9, SetFits DEF s
<1>11. TimeAt(x)' = start' + c
  <2>1. TimeAt(x)' = start' + (x * span') \div Width
    BY DEF TimeAt
  <2>2. QED
    BY <1>10, <2>1
<1>12. CASE wanted = Duration
  <2>1. start' = 0 \/ start' = Duration - span' \/ start' = s
    BY <1>10
  <2>2. WindowInv'
    BY <1>4, <1>6, <1>9, SetMoves
  <2>3. start' = 0
    <3>1. start' \in Int /\ 0 <= start' /\ start' + span' <= Duration
      BY <2>2 DEF WindowInv
    <3>2. span' = Duration /\ Duration \in Int
      BY <1>1, <1>10, <1>12
    <3>3. \A a, d \in Int : 0 <= a /\ a + d <= d => a = 0
      OBVIOUS
    <3>4. QED
      BY <3>1, <3>2, <3>3
  <2>4. QED
    BY <2>3
<1>13. CASE start' = Duration - wanted
  <2>1. End' = Duration
    BY <1>1, <1>4, <1>10, <1>13 DEF End
  <2>2. QED
    BY <2>1
<1>14. CASE start' = s /\ (wanted <= span \/ wanted = 2 * span)
  <2>1. x \in Nat
    BY <1>2
  <2>2. b \in Int /\ c \in Int /\ b <= c /\ c <= b + 1
    <3> HIDE DEF wanted
    <3>1. QED
      BY <1>1, <1>4, <1>5, <1>14, <2>1, ZoomRounds
  <2> HIDE DEF off, b, c
  <2>3. TimeAt(x)' = start + off - b + c
    BY <1>11, <1>14
  <2>4. QED
    BY <1>1, <1>5, <1>7, <2>2, <2>3 DEF Distance
<1>15. QED
  BY <1>4, <1>10, <1>12, <1>13, <1>14

\* The other edge of the box stays.
LEMMA EdgeStays ==
    ASSUME WindowInv, NEW t \in 0..(End - MinSpan), DragBox("start", t) PROVE End' = End
<1>1. /\ start \in Nat /\ span \in Nat \ {0} /\ start + span <= Duration
      /\ Duration \in Nat /\ End = start + span /\ MinSpan \in Nat
  BY WindowIs, MinSpanIs DEF WindowInv, End
<1>2. Set(t, End - t)
  BY DEF DragBox
<1>3. t \in Int /\ End - t \in Int /\ MinSpan <= End - t /\ End - t <= Duration /\ t <= Duration - (End - t)
  BY <1>1
<1>4. span' = End - t /\ start' = t
  <2>1. span' = End - t /\ (start' = t \/ (t < 0 /\ start' = 0) \/ (t > Duration - (End - t)))
    BY <1>2, <1>3, SetFits
  <2>2. QED
    BY <1>1, <1>3, <2>1
<1>5. QED
  BY <1>1, <1>4 DEF End

\* For any film, widths and moments: what is revealed is seen, what is under the pointer
\* stays there while the wheel zooms, and an edge that is dragged leaves the other
\* (web/src/core/view.ts reveal, zoomAt; web/src/ui/Overview.tsx onPointerMove).
THEOREM WindowGoesWhereSent == CanvasSpec => WindowFollows
<1>1. CanvasInit => WindowInv /\ ScenesAre
  BY InitWindow DEF CanvasInit, ScenesAre
<1>2. (WindowInv /\ ScenesAre) /\ [CanvasNext]_canvasVars => (WindowInv /\ ScenesAre)'
  BY WindowKeeps, ScenesKept
<1>3. WindowInv =>
        [/\ \A t \in 0..Duration : Reveal(t) => Inside(t)'
         /\ \A x \in Pointers : \A f \in {<<1, 2>>, <<2, 1>>} :
              ZoomAt(x, f[1], f[2]) => \/ Distance(TimeAt(x)', TimeAt(x)) <= 1
                                       \/ start' = 0 \/ End' = Duration
         /\ \A t \in 0..(End - MinSpan) : DragBox("start", t) => End' = End]_canvasVars
  <2> SUFFICES ASSUME WindowInv
               PROVE  /\ \A t \in 0..Duration : Reveal(t) => Inside(t)'
                      /\ \A x \in Pointers : \A f \in {<<1, 2>>, <<2, 1>>} :
                           ZoomAt(x, f[1], f[2]) => \/ Distance(TimeAt(x)', TimeAt(x)) <= 1
                                                    \/ start' = 0 \/ End' = Duration
                      /\ \A t \in 0..(End - MinSpan) : DragBox("start", t) => End' = End
    OBVIOUS
  <2>1. QED
    BY RevealShows, ZoomHolds, EdgeStays
<1>4. QED
  BY <1>1, <1>2, <1>3, PTL DEF CanvasSpec, WindowFollows

-----------------------------------------------------------------------------
(* The timeline: what the loops over a track find *)

LEMMA ItemsOf ==
    ASSUME NEW S, NEW s \in Seq(S)
    PROVE  /\ ToSet(s) = {s[i] : i \in 1..Len(s)} /\ ToSet(s) \subseteq S
           /\ DOMAIN s = 1..Len(s) /\ Len(s) \in Nat
  BY DEF ToSet

LEMMA OneLonger ==
    ASSUME NEW S, NEW s \in Seq(S), NEW x \in S
    PROVE  /\ Append(s, x) \in Seq(S) /\ Len(Append(s, x)) = Len(s) + 1
           /\ \A k \in 1..Len(s) : Append(s, x)[k] = s[k]
           /\ Append(s, x)[Len(s) + 1] = x
           /\ ToSet(Append(s, x)) = ToSet(s) \cup {x}
<1> DEFINE m == Append(s, x)
<1>1. /\ m \in Seq(S) /\ Len(m) = Len(s) + 1
      /\ \A k \in 1..Len(s) : m[k] = s[k]
      /\ m[Len(s) + 1] = x
  BY AppendProperties
<1>2. ToSet(m) = {m[k] : k \in 1..(Len(s) + 1)}
  BY <1>1, ItemsOf
<1>3. ToSet(s) = {s[k] : k \in 1..Len(s)} /\ Len(s) \in Nat
  BY ItemsOf
<1>4. \A k \in 1..(Len(s) + 1) : k = Len(s) + 1 \/ k \in 1..Len(s)
  BY <1>3
<1>5. 1..Len(s) \subseteq 1..(Len(s) + 1) /\ Len(s) + 1 \in 1..(Len(s) + 1)
  BY <1>3
<1> HIDE DEF m
<1>6. ToSet(m) \subseteq ToSet(s) \cup {x}
  BY <1>1, <1>2, <1>3, <1>4
<1>7. ToSet(s) \cup {x} \subseteq ToSet(m)
  BY <1>1, <1>2, <1>3, <1>5
<1>8. QED
  BY <1>1, <1>6, <1>7 DEF m

\* One round of each of the loops.
Holding(i, ch, k, held) == IF ch \in DOMAIN scene[i][k].v THEN Append(held, scene[i][k]) ELSE held

LEMMA LaneLoop ==
    ASSUME NEW i, scene[i] \in Seq(Marks), NEW ch
    PROVE  \E out \in [0..Len(scene[i]) -> Seq(Marks)] :
              /\ out[0] = <<>>
              /\ \A k \in 1..Len(scene[i]) : out[k] = Holding(i, ch, k, out[k - 1])
              /\ Lane(i, ch) = out[Len(scene[i])]
<1> DEFINE n == Len(scene[i])
           All == Seq(Marks)
           step == [p \in (1..n) \X All |-> Holding(i, ch, p[1], p[2])]
           Runs(out) == out = [k \in 0..n |-> IF k = 0 THEN <<>> ELSE Holding(i, ch, k, out[k - 1])]
           out0 == CHOOSE out : Runs(out)
<1>1. n \in Nat /\ \A k \in 1..n : scene[i][k] \in Marks
  OBVIOUS
<1>2. step \in [(1..n) \X All -> All]
  <2>1. \A k \in 1..n : \A m \in All : Holding(i, ch, k, m) \in All
    BY <1>1, AppendProperties DEF Holding
  <2> HIDE DEF All, n
  <2>2. QED
    BY <2>1
<1>3. \A k \in 1..n : \A m \in All : step[<<k, m>>] = Holding(i, ch, k, m)
  OBVIOUS
<1>4. <<>> \in All
  BY EmptySeq
<1> HIDE DEF n, step, All
<1>5. PICK out \in [0..n -> All] : out[0] = <<>> /\ \A k \in 1..n : out[k] = step[<<k, out[k - 1]>>]
  <2>1. \E out \in [0..n -> All] : Turns(n, <<>>, step, out)
    BY <1>1, <1>2, <1>4, LoopExists
  <2>2. QED
    BY <2>1 DEF Turns
<1>6. \A k \in 1..n : k - 1 \in 0..n /\ out[k - 1] \in All /\ out[k] = Holding(i, ch, k, out[k - 1])
  <2>1. \A k \in 1..n : k - 1 \in 0..n
    BY <1>1
  <2>2. QED
    BY <1>3, <1>5, <2>1
<1>7. Runs(out)
  BY <1>1, <1>5, <1>6
<1>8. Runs(out0)
  <2> HIDE DEF Runs
  <2>1. QED
    BY <1>7
<1>9. Lane(i, ch) = out0[n]
  BY DEF Lane, Holding, n
<1> HIDE DEF out0
<1>10. out0[0] = <<>> /\ \A k \in 1..n : out0[k] = Holding(i, ch, k, out0[k - 1])
  BY <1>1, <1>8
<1>11. out0 \in [0..n -> All]
  <2> DEFINE S == {k \in 0..n : out0[k] = out[k]}
  <2>1. 0 \in S
    BY <1>1, <1>5, <1>10
  <2>2. ASSUME NEW k \in 1..n, k - 1 \in S PROVE k \in S
    BY <1>6, <1>10, <2>2
  <2> HIDE DEF S
  <2>3. 0..n \subseteq S
    BY <1>1, <2>1, <2>2, StepByStep
  <2>4. \A k \in 0..n : out0[k] = out[k]
    BY <2>3 DEF S
  <2>5. DOMAIN out0 = 0..n /\ out0 = [k \in 0..n |-> out0[k]]
    BY <1>8
  <2>6. QED
    BY <1>5, <2>4, <2>5
<1>12. QED
  BY <1>9, <1>10, <1>11 DEF n, All

\* The points of a lane are in order.
LEMMA LaneIs ==
    ASSUME ScenesAre, NEW i \in DOMAIN Tracks, NEW ch
    PROVE  /\ Lane(i, ch) \in Seq(Marks)
           /\ \A j, k \in DOMAIN Lane(i, ch) : j <= k => Lane(i, ch)[j].t <= Lane(i, ch)[k].t
<1> DEFINE n == Len(scene[i])
<1>1. /\ scene[i] \in Seq(Marks) /\ n \in Nat /\ DOMAIN scene[i] = 1..n
      /\ \A k \in 1..n : scene[i][k] \in Marks /\ scene[i][k].t \in Nat
      /\ \A j, k \in 1..n : j <= k => scene[i][j].t <= scene[i][k].t
  BY EventIs
<1>2. PICK out \in [0..n -> Seq(Marks)] :
         /\ out[0] = <<>>
         /\ \A k \in 1..n : out[k] = Holding(i, ch, k, out[k - 1])
         /\ Lane(i, ch) = out[n]
  BY <1>1, LaneLoop
<1> HIDE DEF n
<1> DEFINE Good(m) ==
              /\ \A j, k \in 1..Len(out[m]) : j <= k => out[m][j].t <= out[m][k].t
              /\ \A j \in 1..Len(out[m]) : out[m][j].t \in Nat /\ \A k \in (m + 1)..n : out[m][j].t <= scene[i][k].t
           T == {m \in 0..n : Good(m)}
<1>3. 0 \in T
  BY <1>1, <1>2
<1>4. ASSUME NEW m \in 1..n, m - 1 \in T PROVE m \in T
  <2> DEFINE r == out[m - 1]
             q == out[m]
             x == scene[i][m]
  <2>1. m - 1 \in 0..n /\ Good(m - 1) /\ r \in Seq(Marks) /\ x \in Marks /\ x.t \in Nat
    BY <1>1, <1>2, <1>4
  <2>2. /\ \A j, k \in 1..Len(r) : j <= k => r[j].t <= r[k].t
        /\ \A j \in 1..Len(r) : r[j].t \in Nat /\ r[j].t <= x.t
        /\ \A j \in 1..Len(r) : \A k \in (m + 1)..n : r[j].t <= scene[i][k].t
    <3>1. m \in ((m - 1) + 1)..n /\ (m + 1)..n \subseteq ((m - 1) + 1)..n
      BY <1>1
    <3> HIDE DEF r, x
    <3>2. /\ \A j, k \in 1..Len(r) : j <= k => r[j].t <= r[k].t
          /\ \A j \in 1..Len(r) : r[j].t \in Nat /\ \A k \in ((m - 1) + 1)..n : r[j].t <= scene[i][k].t
      BY <2>1 DEF r
    <3>3. QED
      BY <3>1, <3>2 DEF x
  <2>3. \A k \in (m + 1)..n : x.t <= scene[i][k].t
    BY <1>1, SMTT(30)
  <2>4. q = Holding(i, ch, m, r)
    BY <1>2
  <2> HIDE DEF q, r
  <2>5. Len(r) \in Nat
    BY <2>1
  <2>6. CASE q = r
    <3>1. Good(m)
      BY <2>2, <2>6 DEF q
    <3>2. QED
      BY <1>1, <3>1
  <2>7. CASE q = Append(r, x)
    <3>1. Len(q) = Len(r) + 1 /\ (\A k \in 1..Len(r) : q[k] = r[k]) /\ q[Len(r) + 1] = x
      BY <2>1, <2>7, OneLonger
    <3>2. \A k \in 1..Len(q) : k = Len(r) + 1 \/ k \in 1..Len(r)
      BY <2>5, <3>1
    <3> HIDE DEF x
    <3>3. ASSUME NEW j \in 1..Len(q), NEW k \in 1..Len(q), j <= k PROVE q[j].t <= q[k].t
      <4>1. CASE k \in 1..Len(r)
        <5>1. j \in 1..Len(r)
          BY <2>5, <3>3, <4>1
        <5>2. QED
          BY <2>2, <3>1, <3>3, <4>1, <5>1
      <4>2. CASE k = Len(r) + 1
        BY <2>1, <2>2, <3>1, <3>2, <4>2, SMTT(30)
      <4>3. QED
        BY <3>2, <4>1, <4>2
    <3>4. ASSUME NEW j \in 1..Len(q)
          PROVE  q[j].t \in Nat /\ \A k \in (m + 1)..n : q[j].t <= scene[i][k].t
      BY <2>1, <2>2, <2>3, <3>1, <3>2
    <3>5. QED
      BY <3>3, <3>4 DEF q
  <2>8. QED
    BY <2>4, <2>6, <2>7 DEF Holding
<1>5. n \in T
  <2> HIDE DEF T
  <2>1. 0..n \subseteq T
    BY <1>1, <1>3, <1>4, StepByStep
  <2>2. QED
    BY <1>1, <2>1
<1>6. Lane(i, ch) = out[n] /\ Lane(i, ch) \in Seq(Marks) /\ Good(n)
  BY <1>1, <1>2, <1>5
<1>7. QED
  BY <1>6

\* What is halved, and what is found where it ends.
Bounds == [lo : Int, hi : Int]

LEMMA HalfType == ASSUME NEW s, NEW t, NEW b \in Bounds PROVE Half(s, t, b) \in Bounds
<1>1. b.lo \in Int /\ b.hi \in Int
  BY DEF Bounds
<1>2. (b.lo + b.hi) \div 2 \in Int
  BY <1>1, QuotientIs
<1>3. QED
  BY <1>1, <1>2 DEF Half, Bounds

LEMMA HalvingLoop ==
    ASSUME NEW s, Len(s) \in Nat, NEW t
    PROVE  \E out \in [0..Len(s) -> Bounds] :
              /\ out[0] = [lo |-> 1, hi |-> Len(s) + 1]
              /\ \A k \in 1..Len(s) : out[k] = Half(s, t, out[k - 1])
              /\ LowerBound(s, t) = out[Len(s)].lo
<1> DEFINE n == Len(s)
           first == [lo |-> 1, hi |-> Len(s) + 1]
           step == [p \in (1..n) \X Bounds |-> Half(s, t, p[2])]
           Runs(out) == out = [k \in 0..n |-> IF k = 0 THEN first ELSE Half(s, t, out[k - 1])]
           out0 == CHOOSE out : Runs(out)
<1>1. n \in Nat /\ first \in Bounds
  BY DEF Bounds
<1>2. step \in [(1..n) \X Bounds -> Bounds]
  BY HalfType
<1>3. \A k \in 1..n : \A m \in Bounds : step[<<k, m>>] = Half(s, t, m)
  OBVIOUS
<1>4. LowerBound(s, t) = out0[n].lo
  BY DEF LowerBound
<1> HIDE DEF n, step, first
<1>5. PICK out \in [0..n -> Bounds] : out[0] = first /\ \A k \in 1..n : out[k] = step[<<k, out[k - 1]>>]
  <2>1. \E out \in [0..n -> Bounds] : Turns(n, first, step, out)
    BY <1>1, <1>2, LoopExists
  <2>2. QED
    BY <2>1 DEF Turns
<1>6. \A k \in 1..n : k - 1 \in 0..n /\ out[k - 1] \in Bounds /\ out[k] = Half(s, t, out[k - 1])
  <2>1. \A k \in 1..n : k - 1 \in 0..n
    BY <1>1
  <2>2. QED
    BY <1>3, <1>5, <2>1
<1>7. Runs(out)
  BY <1>1, <1>5, <1>6
<1>8. Runs(out0)
  <2> HIDE DEF Runs
  <2>1. QED
    BY <1>7
<1> HIDE DEF out0
<1>9. out0[0] = first /\ \A k \in 1..n : out0[k] = Half(s, t, out0[k - 1])
  BY <1>1, <1>8
<1>10. out0 \in [0..n -> Bounds]
  <2> DEFINE S == {k \in 0..n : out0[k] = out[k]}
  <2>1. 0 \in S
    BY <1>1, <1>5, <1>9
  <2>2. ASSUME NEW k \in 1..n, k - 1 \in S PROVE k \in S
    BY <1>1, <1>6, <1>9, <2>2
  <2> HIDE DEF S
  <2>3. 0..n \subseteq S
    BY <1>1, <2>1, <2>2, StepByStep
  <2>4. \A k \in 0..n : out0[k] = out[k]
    BY <2>3 DEF S
  <2>5. DOMAIN out0 = 0..n /\ out0 = [k \in 0..n |-> out0[k]]
    BY <1>8
  <2>6. QED
    BY <1>5, <2>4, <2>5
<1>11. QED
  BY <1>4, <1>9, <1>10 DEF n, first

\* Of times in order: those before the bound are earlier, the others are not.
LEMMA LowerBoundIs ==
    ASSUME NEW s \in Seq(Nat), \A j, k \in DOMAIN s : j <= k => s[j] <= s[k], NEW t \in Int
    PROVE  /\ LowerBound(s, t) \in 1..(Len(s) + 1)
           /\ \A k \in 1..Len(s) : IF k < LowerBound(s, t) THEN s[k] < t ELSE t <= s[k]
<1> DEFINE n == Len(s)
<1>1. /\ n \in Nat /\ DOMAIN s = 1..n /\ \A k \in 1..n : s[k] \in Nat
      /\ \A j, k \in 1..n : j <= k => s[j] <= s[k]
  OBVIOUS
<1>2. PICK out \in [0..n -> Bounds] :
         /\ out[0] = [lo |-> 1, hi |-> n + 1]
         /\ \A k \in 1..n : out[k] = Half(s, t, out[k - 1])
         /\ LowerBound(s, t) = out[n].lo
  BY <1>1, HalvingLoop
<1> HIDE DEF n
<1> DEFINE Good(m, b) ==
              /\ b.lo \in 1..(n + 1) /\ b.hi \in 1..(n + 1)
              /\ b.lo <= b.hi /\ b.hi - b.lo <= n - m
              /\ \A k \in 1..n : (k < b.lo => s[k] < t) /\ (b.hi <= k => t <= s[k])
           T == {m \in 0..n : Good(m, out[m])}
<1>3. 0 \in T
  <2>1. Good(0, [lo |-> 1, hi |-> n + 1])
    BY <1>1
  <2> HIDE DEF Good
  <2>2. QED
    BY <1>1, <1>2, <2>1
<1>4. ASSUME NEW m \in 1..n, m - 1 \in T PROVE m \in T
  <2> DEFINE b == out[m - 1]
             c == out[m]
             mid == (b.lo + b.hi) \div 2
  <2>1. m - 1 \in 0..n /\ m \in 0..n /\ Good(m - 1, b)
    BY <1>1, <1>4
  <2>2. c = Half(s, t, b)
    BY <1>2
  <2> HIDE DEF b, c
  <2>3. /\ b.lo \in 1..(n + 1) /\ b.hi \in 1..(n + 1)
        /\ b.lo <= b.hi /\ b.hi - b.lo <= n - (m - 1)
        /\ \A k \in 1..n : (k < b.lo => s[k] < t) /\ (b.hi <= k => t <= s[k])
    BY <2>1
  <2>4. mid \in Int /\ 2 * mid <= b.lo + b.hi /\ b.lo + b.hi < 2 * mid + 2
    BY <1>1, <2>3, QuotientIs, SMTT(30)
  <2>5. c = IF b.lo >= b.hi THEN b ELSE IF s[mid] < t THEN [lo |-> mid + 1, hi |-> b.hi] ELSE [lo |-> b.lo, hi |-> mid]
    BY <2>2 DEF Half
  <2> HIDE DEF mid
  <2>6. CASE b.lo >= b.hi
    <3>1. c = b /\ b.hi - b.lo <= n - m
      BY <1>1, <2>3, <2>5, <2>6, SMTT(30)
    <3>2. Good(m, c)
      BY <2>3, <3>1
    <3>3. QED
      BY <2>1, <3>2 DEF c
  <2>7. CASE b.lo < b.hi
    <3>1. mid \in 1..n /\ b.lo <= mid /\ mid < b.hi
      BY <1>1, <2>3, <2>4, <2>7, SMTT(30)
    <3>2. CASE s[mid] < t
      <4>1. c.lo = mid + 1 /\ c.hi = b.hi
        BY <2>3, <2>5, <2>7, <3>2
      <4>2. \A k \in 1..n : k < mid + 1 => s[k] < t
        <5>1. ASSUME NEW k \in 1..n, k < mid + 1 PROVE s[k] < t
          <6>1. k <= mid
            BY <3>1, <5>1
          <6>2. s[k] <= s[mid] /\ s[k] \in Int /\ s[mid] \in Int
            BY <1>1, <3>1, <6>1
          <6>3. QED
            BY <3>2, <6>2
        <5>2. QED
          BY <5>1
      <4>3. Good(m, c)
        BY <1>1, <2>3, <3>1, <4>1, <4>2, SMTT(30)
      <4>4. QED
        BY <2>1, <4>3 DEF c
    <3>3. CASE ~(s[mid] < t)
      <4>1. c.lo = b.lo /\ c.hi = mid
        BY <2>3, <2>5, <2>7, <3>3
      <4>2. \A k \in 1..n : mid <= k => t <= s[k]
        <5>1. ASSUME NEW k \in 1..n, mid <= k PROVE t <= s[k]
          <6>1. s[mid] <= s[k] /\ s[k] \in Int /\ s[mid] \in Int
            BY <1>1, <3>1, <5>1
          <6>2. QED
            BY <3>3, <6>1
        <5>2. QED
          BY <5>1
      <4>3. Good(m, c)
        BY <1>1, <2>3, <3>1, <4>1, <4>2, SMTT(30)
      <4>4. QED
        BY <2>1, <4>3 DEF c
    <3>4. QED
      BY <3>2, <3>3
  <2>8. QED
    BY <2>3, <2>6, <2>7
<1>5. n \in T
  <2> HIDE DEF T
  <2>1. 0..n \subseteq T
    BY <1>1, <1>3, <1>4, StepByStep
  <2>2. QED
    BY <1>1, <2>1
<1>6. Good(n, out[n]) /\ LowerBound(s, t) = out[n].lo
  BY <1>2, <1>5
<1>7. QED
  <2> DEFINE b == out[n]
  <2>1. /\ b.lo \in 1..(n + 1) /\ b.hi \in 1..(n + 1)
        /\ b.lo <= b.hi /\ b.hi - b.lo <= n - n
        /\ \A k \in 1..n : (k < b.lo => s[k] < t) /\ (b.hi <= k => t <= s[k])
    BY <1>6
  <2> HIDE DEF b
  <2>2. b.hi = b.lo
    BY <1>1, <2>1
  <2>3. b.lo \in 1..(n + 1) /\ \A k \in 1..n : IF k < b.lo THEN s[k] < t ELSE t <= s[k]
    BY <1>1, <2>1, <2>2
  <2>4. QED
    BY <1>6, <2>3 DEF b, n

\* The line of a curve reaches both edges of the window.
LEMMA LineReaches ==
    ASSUME WindowInv, NEW points \in Seq(Marks),
           \A j, k \in DOMAIN points : j <= k => points[j].t <= points[k].t
    PROVE  /\ \A k \in 1..(Len(points) - 1) :
                points[k].t < End /\ points[k + 1].t > start
                => {k, k + 1} \subseteq Visible(points)
           /\ \A k \in DOMAIN points : Inside(points[k].t) /\ points[k].t < End => k \in Visible(points)
           /\ Cardinality(Visible(points) \cap {k \in DOMAIN points : ~Inside(points[k].t)}) <= 2
<1> DEFINE n == Len(points)
           s == Times(points)
           a == LowerBound(s, start)
           b == LowerBound(s, End)
<1>1. /\ n \in Nat /\ DOMAIN points = 1..n /\ \A k \in 1..n : points[k].t \in Nat
      /\ \A j, k \in 1..n : j <= k => points[j].t <= points[k].t
  <2>1. \A k \in 1..n : points[k] \in Marks
    OBVIOUS
  <2>2. QED
    BY <2>1, SMTT(30) DEF Marks
<1>2. s \in Seq(Nat) /\ Len(s) = n /\ DOMAIN s = 1..n /\ \A k \in 1..n : s[k] = points[k].t
  BY <1>1 DEF Times
<1>3. start \in Int /\ End \in Int
  BY WindowIs
<1>4. /\ a \in 1..(n + 1) /\ \A k \in 1..n : IF k < a THEN points[k].t < start ELSE start <= points[k].t
      /\ b \in 1..(n + 1) /\ \A k \in 1..n : IF k < b THEN points[k].t < End ELSE End <= points[k].t
  <2>1. \A j, k \in DOMAIN s : j <= k => s[j] <= s[k]
    BY <1>1, <1>2
  <2> HIDE DEF s
  <2>2. /\ a \in 1..(n + 1) /\ \A k \in 1..n : IF k < a THEN s[k] < start ELSE start <= s[k]
        /\ b \in 1..(n + 1) /\ \A k \in 1..n : IF k < b THEN s[k] < End ELSE End <= s[k]
    BY <1>2, <1>3, <2>1, LowerBoundIs
  <2> HIDE DEF a, b
  <2>3. QED
    BY <1>2, <2>2
<1>5. Visible(points) = Greater(1, a - 1)..Lesser(n, b)
  BY DEF Visible
<1> HIDE DEF n, s, a, b
<1>6. \A k \in 1..n : k \in Visible(points) <=> a - 1 <= k /\ k <= b
  BY <1>1, <1>4, <1>5 DEF Greater, Lesser
<1>7. ASSUME NEW k \in 1..(n - 1), points[k].t < End, points[k + 1].t > start
      PROVE  {k, k + 1} \subseteq Visible(points)
  <2>1. k \in 1..n /\ k + 1 \in 1..n
    BY <1>1
  <2>2. k < b
    <3>1. points[k].t \in Int /\ (~(k < b) => End <= points[k].t)
      BY <1>1, <1>4, <2>1
    <3>2. QED
      BY <1>3, <1>7, <3>1
  <2>3. a <= k + 1
    <3>1. points[k + 1].t \in Int /\ (k + 1 < a => points[k + 1].t < start)
      BY <1>1, <1>4, <2>1
    <3>2. QED
      BY <1>3, <1>4, <1>7, <3>1
  <2>4. QED
    BY <1>4, <1>6, <2>1, <2>2, <2>3
<1>8. ASSUME NEW k \in DOMAIN points, Inside(points[k].t), points[k].t < End PROVE k \in Visible(points)
  <2>1. k \in 1..n /\ points[k].t \in Int /\ start <= points[k].t
    BY <1>1, <1>8 DEF Inside
  <2>2. (~(k < b) => End <= points[k].t) /\ (k < a => points[k].t < start)
    BY <1>4, <2>1
  <2>3. k < b /\ ~(k < a)
    BY <1>3, <1>8, <2>1, <2>2
  <2>4. QED
    BY <1>4, <1>6, <2>1, <2>3
<1>9. Cardinality(Visible(points) \cap {k \in DOMAIN points : ~Inside(points[k].t)}) <= 2
  <2> DEFINE out == Visible(points) \cap {k \in DOMAIN points : ~Inside(points[k].t)}
  <2>1. out \subseteq {a - 1, b}
    <3>1. ASSUME NEW k \in out PROVE k \in {a - 1, b}
      <4>1. k \in 1..n /\ a - 1 <= k /\ k <= b /\ ~Inside(points[k].t) /\ points[k].t \in Int
        BY <1>1, <1>6
      <4>2. CASE a <= k /\ k < b
        <5>1. start <= points[k].t /\ points[k].t < End
          BY <1>4, <4>1, <4>2
        <5>2. QED
          BY <1>3, <4>1, <5>1 DEF Inside
      <4>3. QED
        BY <1>4, <4>1, <4>2
    <3>2. QED
      BY <3>1
  <2>2. IsFiniteSet({a - 1, b}) /\ Cardinality({a - 1, b}) <= 2
    <3>1. IsFiniteSet({b}) /\ Cardinality({b}) = 1
      BY FS_Singleton
    <3>2. /\ IsFiniteSet({b} \cup {a - 1})
          /\ Cardinality({b} \cup {a - 1}) = IF a - 1 \in {b} THEN Cardinality({b}) ELSE Cardinality({b}) + 1
      BY <3>1, FS_AddElement
    <3> DEFINE N == Cardinality({b} \cup {a - 1})
    <3>3. N = 1 \/ N = 1 + 1
      BY <3>1, <3>2
    <3> HIDE DEF N
    <3>4. N <= 2
      BY <3>3
    <3>5. {b} \cup {a - 1} = {a - 1, b}
      OBVIOUS
    <3>6. QED
      BY <3>2, <3>4, <3>5, Zenon DEF N
  <2> HIDE DEF out
  <2>3. IsFiniteSet(out) /\ Cardinality(out) <= Cardinality({a - 1, b})
    BY <2>1, <2>2, FS_Subset
  <2>4. Cardinality(out) \in Nat /\ Cardinality({a - 1, b}) \in Nat
    BY <2>2, <2>3, FS_CardinalityType
  <2>5. QED
    BY <2>2, <2>3, <2>4 DEF out
<1>10. QED
  BY <1>7, <1>8, <1>9 DEF n

\* For any scores, films and windows: a curve is drawn from edge to edge, with the point
\* on either side of it and no more (web/src/render/lanes.ts visibleRange, drawCurve).
THEOREM CurvesAlwaysReach == CanvasSpec => []CurvesReachTheEdges
<1>1. CanvasInit => WindowInv /\ ScenesAre
  BY InitWindow DEF CanvasInit, ScenesAre
<1>2. (WindowInv /\ ScenesAre) /\ [CanvasNext]_canvasVars => (WindowInv /\ ScenesAre)'
  BY WindowKeeps, ScenesKept
<1>3. WindowInv /\ ScenesAre => CurvesReachTheEdges
  <2> SUFFICES ASSUME WindowInv, ScenesAre PROVE CurvesReachTheEdges
    OBVIOUS
  <2>1. \A i \in DOMAIN Tracks : \A ch :
          /\ Lane(i, ch) \in Seq(Marks)
          /\ \A j, k \in DOMAIN Lane(i, ch) : j <= k => Lane(i, ch)[j].t <= Lane(i, ch)[k].t
    BY LaneIs
  <2>2. QED
    BY <2>1, LineReaches DEF CurvesReachTheEdges
<1>4. QED
  BY <1>1, <1>2, <1>3, PTL DEF CanvasSpec

-----------------------------------------------------------------------------
(* The timeline: what a drag locks on to *)

LEMMA ImageIsFinite ==
    ASSUME NEW S, IsFiniteSet(S), NEW f, DOMAIN f = S
    PROVE  IsFiniteSet({f[x] : x \in S})
<1> DEFINE T == {f[x] : x \in S}
           g == [x \in S |-> f[x]]
<1>1. g \in Surjection(S, T)
  BY DEF Surjection
<1> HIDE DEF T, g
<1>2. IsFiniteSet(T)
  BY <1>1, FS_Surjection
<1>3. QED
  BY <1>2 DEF T

LEMMA EventsAre == ASSUME ScenesAre, NEW except PROVE Events(except) \subseteq Nat /\ IsFiniteSet(Events(except))
<1> DEFINE Others(i) == {k \in DOMAIN scene[i] : <<i, k>> # except}
           Of(i) == {scene[i][k].t : k \in Others(i)} \cup {scene[i][k].end : k \in Others(i)}
           each == [i \in DOMAIN Tracks |-> Of(i)]
<1>1. IsFiniteSet(DOMAIN Tracks)
  BY TracksAre, FS_Interval
<1>2. ASSUME NEW i \in DOMAIN Tracks PROVE Of(i) \subseteq Nat /\ IsFiniteSet(Of(i))
  <2>1. /\ Len(scene[i]) \in Nat /\ DOMAIN scene[i] = 1..Len(scene[i])
        /\ \A k \in DOMAIN scene[i] : scene[i][k].t \in Nat /\ scene[i][k].end \in Nat
    BY EventIs
  <2>2. IsFiniteSet(Others(i))
    <3>1. IsFiniteSet(1..Len(scene[i]))
      BY <2>1, FS_Interval
    <3>2. Others(i) \subseteq 1..Len(scene[i])
      BY <2>1
    <3>3. QED
      BY <3>1, <3>2, FS_Subset
  <2> DEFINE begins == [k \in Others(i) |-> scene[i][k].t]
             ends == [k \in Others(i) |-> scene[i][k].end]
  <2>3. Of(i) \subseteq Nat
    BY <2>1
  <2>4. Of(i) = {begins[k] : k \in Others(i)} \cup {ends[k] : k \in Others(i)}
    OBVIOUS
  <2>5. DOMAIN begins = Others(i) /\ DOMAIN ends = Others(i)
    OBVIOUS
  <2> HIDE DEF Others, begins, ends
  <2>6. IsFiniteSet({begins[k] : k \in Others(i)}) /\ IsFiniteSet({ends[k] : k \in Others(i)})
    BY <2>2, <2>5, ImageIsFinite
  <2> HIDE DEF Of
  <2>7. QED
    BY <2>3, <2>4, <2>6, FS_Union
<1>3. Events(except) = UNION {each[i] : i \in DOMAIN Tracks}
  BY DEF Events
<1>4. DOMAIN each = DOMAIN Tracks /\ \A i \in DOMAIN Tracks : each[i] = Of(i)
  OBVIOUS
<1> HIDE DEF each, Of
<1>5. IsFiniteSet({each[i] : i \in DOMAIN Tracks})
  BY <1>1, <1>4, ImageIsFinite
<1>6. \A T \in {each[i] : i \in DOMAIN Tracks} : T \subseteq Nat /\ IsFiniteSet(T)
  BY <1>2, <1>4
<1> DEFINE all == {each[i] : i \in DOMAIN Tracks}
<1> HIDE DEF all
<1>7. IsFiniteSet(all) /\ (\A T \in all : T \subseteq Nat /\ IsFiniteSet(T)) /\ Events(except) = UNION all
  BY <1>3, <1>5, <1>6 DEF all
<1>8. QED
  BY <1>7, FS_UNION

LEMMA SortingLoop ==
    ASSUME NEW times, times \subseteq Nat, IsFiniteSet(times)
    PROVE  \E out :
              /\ out[0] = <<>>
              /\ \A k \in 1..Cardinality(times) : out[k] = WithEarliest(times, out[k - 1])
              /\ InOrder(times) = out[Cardinality(times)]
<1> DEFINE n == Cardinality(times)
           Taken == times \cup {Min({})}
           All == Seq(Taken)
           step == [p \in (1..n) \X All |-> WithEarliest(times, p[2])]
           Runs(out) == out = [k \in 0..n |-> IF k = 0 THEN <<>> ELSE WithEarliest(times, out[k - 1])]
           out0 == CHOOSE out : Runs(out)
<1>1. n \in Nat
  BY FS_CardinalityType
<1>2. step \in [(1..n) \X All -> All]
  <2>1. ASSUME NEW m \in All PROVE WithEarliest(times, m) \in All
    <3>1. Min(times \ ToSet(m)) \in Taken
      <4>1. CASE times \ ToSet(m) = {}
        BY <4>1, Zenon
      <4>2. CASE times \ ToSet(m) # {}
        <5>1. Min(times \ ToSet(m)) \in times
          BY <4>2, MinBelongs
        <5>2. QED
          BY <5>1
      <4>3. QED
        BY <4>1, <4>2
    <3> HIDE DEF Taken
    <3>2. QED
      BY <3>1, AppendProperties DEF WithEarliest
  <2> HIDE DEF All, n
  <2>2. QED
    BY <2>1
<1>3. \A k \in 1..n : \A m \in All : step[<<k, m>>] = WithEarliest(times, m)
  OBVIOUS
<1>4. <<>> \in All
  BY EmptySeq
<1>5. InOrder(times) = out0[n]
  BY DEF InOrder
<1> HIDE DEF n, step, All
<1>6. PICK out \in [0..n -> All] : out[0] = <<>> /\ \A k \in 1..n : out[k] = step[<<k, out[k - 1]>>]
  <2>1. \E out \in [0..n -> All] : Turns(n, <<>>, step, out)
    BY <1>1, <1>2, <1>4, LoopExists
  <2>2. QED
    BY <2>1 DEF Turns
<1>7. \A k \in 1..n : out[k] = WithEarliest(times, out[k - 1])
  <2>1. \A k \in 1..n : k - 1 \in 0..n
    BY <1>1
  <2>2. QED
    BY <1>3, <1>6, <2>1
<1>8. Runs(out)
  BY <1>1, <1>6, <1>7
<1>9. Runs(out0)
  <2> HIDE DEF Runs
  <2>1. QED
    BY <1>8
<1> HIDE DEF out0
<1>10. out0[0] = <<>> /\ \A k \in 1..n : out0[k] = WithEarliest(times, out0[k - 1])
  BY <1>1, <1>9
<1>11. QED
  BY <1>5, <1>10 DEF n

\* The sorted times are those times, each later than the one before it.
LEMMA InOrderIs ==
    ASSUME NEW times, times \subseteq Nat, IsFiniteSet(times)
    PROVE  /\ InOrder(times) \in Seq(Nat)
           /\ ToSet(InOrder(times)) = times
           /\ \A j, k \in DOMAIN InOrder(times) : j <= k => InOrder(times)[j] <= InOrder(times)[k]
<1> DEFINE n == Cardinality(times)
<1>1. n \in Nat
  BY FS_CardinalityType
<1>2. PICK out :
         /\ out[0] = <<>>
         /\ \A k \in 1..n : out[k] = WithEarliest(times, out[k - 1])
         /\ InOrder(times) = out[n]
  BY SortingLoop
<1> DEFINE Good(m, s) ==
              /\ s \in Seq(Nat) /\ ToSet(s) \subseteq times
              /\ IsFiniteSet(times \ ToSet(s)) /\ Cardinality(times \ ToSet(s)) = n - m
              /\ \A j, k \in 1..Len(s) : j <= k => s[j] <= s[k]
              /\ \A j \in 1..Len(s) : \A x \in times \ ToSet(s) : s[j] <= x
           T == {m \in 0..n : Good(m, out[m])}
<1>3. Good(0, <<>>)
  <2>1. <<>> \in Seq(Nat) /\ ToSet(<<>>) = {} /\ Len(<<>>) = 0
    BY EmptySeq DEF ToSet
  <2>2. times \ ToSet(<<>>) = times
    BY <2>1
  <2>3. n - 0 = n
    BY <1>1
  <2>4. \A j \in 1..0 : FALSE
    OBVIOUS
  <2>5. QED
    BY <2>1, <2>2, <2>3, <2>4, Zenon
<1> HIDE DEF n
<1>4. ASSUME NEW m \in 1..n, m - 1 \in T PROVE m \in T
  <2> DEFINE s == out[m - 1]
             rest == times \ ToSet(s)
             x == Min(rest)
             q == out[m]
  <2>1. Good(m - 1, s) /\ m \in 0..n
    BY <1>1, <1>4
  <2>2. q = Append(s, x)
    BY <1>2 DEF WithEarliest
  <2> HIDE DEF s, q
  <2>3. /\ s \in Seq(Nat) /\ ToSet(s) \subseteq times
        /\ IsFiniteSet(rest) /\ Cardinality(rest) = n - (m - 1)
        /\ \A j, k \in 1..Len(s) : j <= k => s[j] <= s[k]
        /\ \A j \in 1..Len(s) : \A y \in rest : s[j] <= y
    BY <2>1
  <2>4. rest # {}
    <3>1. Cardinality(rest) # 0
      BY <1>1, <2>3
    <3>2. QED
      BY <3>1, FS_EmptySet
  <2>5. x \in rest /\ \A y \in rest : x <= y
    BY <2>4, MinBelongs
  <2>6. /\ q \in Seq(Nat) /\ Len(q) = Len(s) + 1 /\ Len(s) \in Nat
        /\ \A k \in 1..Len(s) : q[k] = s[k]
        /\ q[Len(s) + 1] = x
        /\ ToSet(q) = ToSet(s) \cup {x}
    <3>1. x \in Nat /\ s \in Seq(Nat)
      BY <2>3, <2>5, Zenon
    <3> HIDE DEF x
    <3>2. Len(s) \in Nat
      BY <3>1
    <3>3. QED
      BY <2>2, <3>1, <3>2, OneLonger
  <2>7. times \ ToSet(q) = rest \ {x}
    BY <2>6
  <2>8. IsFiniteSet(rest \ {x}) /\ Cardinality(rest \ {x}) = n - m
    <3>1. IsFiniteSet(rest \ {x}) /\ Cardinality(rest \ {x}) = Cardinality(rest) - 1
      BY <2>3, <2>5, FS_RemoveElement
    <3>2. n - (m - 1) - 1 = n - m
      BY <1>1
    <3>3. QED
      BY <2>3, <3>1, <3>2
  <2>9. ToSet(q) \subseteq times
    BY <2>3, <2>5, <2>6
  <2>10. \A j \in 1..Len(q) : j \in 1..Len(s) \/ j = Len(s) + 1
    BY <2>6
  <2> HIDE DEF x, rest
  <2>11. ASSUME NEW j \in 1..Len(q), NEW k \in 1..Len(q), j <= k PROVE q[j] <= q[k]
    <3>1. CASE k \in 1..Len(s)
      <4>1. j \in 1..Len(s)
        BY <2>6, <2>11, <3>1
      <4>2. QED
        BY <2>3, <2>6, <2>11, <3>1, <4>1
    <3>2. CASE k = Len(s) + 1 /\ j \in 1..Len(s)
      BY <2>3, <2>5, <2>6, <3>2
    <3>3. CASE k = Len(s) + 1 /\ j = Len(s) + 1
      <4>1. q[j] \in Nat /\ q[k] = q[j]
        BY <2>6, <3>3
      <4>2. QED
        BY <4>1
    <3>4. QED
      BY <2>10, <3>1, <3>2, <3>3
  <2>12. ASSUME NEW j \in 1..Len(q), NEW y \in rest \ {x} PROVE q[j] <= y
    BY <2>3, <2>5, <2>6, <2>10
  <2>13. Good(m, q)
    <3>1. IsFiniteSet(times \ ToSet(q)) /\ Cardinality(times \ ToSet(q)) = n - m
      BY <2>7, <2>8, Zenon
    <3>2. \A j \in 1..Len(q) : \A y \in times \ ToSet(q) : q[j] <= y
      BY <2>7, <2>12, Zenon
    <3>3. \A j, k \in 1..Len(q) : j <= k => q[j] <= q[k]
      BY <2>11
    <3>4. QED
      BY <2>6, <2>9, <3>1, <3>2, <3>3, Zenon
  <2> HIDE DEF Good
  <2>14. QED
    BY <2>1, <2>13 DEF q
<1>5. 0 \in T
  <2> HIDE DEF Good
  <2>1. QED
    BY <1>1, <1>2, <1>3
<1>6. n \in T
  <2> HIDE DEF T
  <2>1. 0..n \subseteq T
    BY <1>1, <1>4, <1>5, StepByStep
  <2>2. QED
    BY <1>1, <2>1
<1>7. Good(n, out[n])
  BY <1>6
<1> DEFINE s == out[n]
<1>8. /\ s \in Seq(Nat) /\ ToSet(s) \subseteq times
      /\ IsFiniteSet(times \ ToSet(s)) /\ Cardinality(times \ ToSet(s)) = n - n
      /\ \A j, k \in 1..Len(s) : j <= k => s[j] <= s[k]
  BY <1>7
<1>9. InOrder(times) = s
  BY <1>2
<1> HIDE DEF s
<1>10. times \ ToSet(s) = {}
  <2>1. n - n = 0
    BY <1>1
  <2>2. QED
    BY <1>8, <2>1, FS_EmptySet
<1>11. ToSet(s) = times /\ DOMAIN s = 1..Len(s)
  <2>1. ToSet(s) = times
    BY <1>8, <1>10, Zenon
  <2>2. DOMAIN s = 1..Len(s)
    BY <1>8, ItemsOf
  <2>3. QED
    BY <2>1, <2>2
<1>12. s \in Seq(Nat) /\ \A j, k \in DOMAIN s : j <= k => s[j] <= s[k]
  BY <1>8, <1>11, Zenon
<1>13. QED
  BY <1>9, <1>11, <1>12, Zenon

\* One of the neighbours is as near as any.
LEMMA NeighboursAreNearest ==
    ASSUME NEW s \in Seq(Nat), \A j, k \in DOMAIN s : j <= k => s[j] <= s[k], NEW t \in Nat
    PROVE  /\ Neighbours(s, t) \subseteq ToSet(s) /\ IsFiniteSet(Neighbours(s, t))
           /\ \A c \in ToSet(s) : \E d \in Neighbours(s, t) : Distance(d, t) <= Distance(c, t)
<1> DEFINE n == Len(s)
           off == LowerBound(s, t)
           N == Neighbours(s, t)
<1>1. /\ n \in Nat /\ DOMAIN s = 1..n /\ (\A k \in 1..n : s[k] \in Nat)
      /\ \A j, k \in 1..n : j <= k => s[j] <= s[k]
  OBVIOUS
<1>2. off \in 1..(n + 1) /\ \A k \in 1..n : IF k < off THEN s[k] < t ELSE t <= s[k]
  BY LowerBoundIs
<1>3. N = (IF off > 1 THEN {s[off - 1]} ELSE {}) \cup (IF off <= n THEN {s[off]} ELSE {})
  BY DEF Neighbours
<1>4. ToSet(s) = {s[k] : k \in 1..n}
  BY ItemsOf
<1> HIDE DEF n, off, N
<1>5. (off > 1 => off - 1 \in 1..n) /\ (off <= n => off \in 1..n)
  BY <1>1, <1>2
<1>6. N \subseteq ToSet(s)
  BY <1>3, <1>4, <1>5
<1>7. IsFiniteSet(N)
  <2>1. IsFiniteSet({}) /\ IsFiniteSet({s[off - 1]}) /\ IsFiniteSet({s[off]})
    BY FS_EmptySet, FS_Singleton
  <2>2. IsFiniteSet(IF off > 1 THEN {s[off - 1]} ELSE {}) /\ IsFiniteSet(IF off <= n THEN {s[off]} ELSE {})
    BY <2>1
  <2>3. QED
    BY <1>3, <2>2, FS_Union
<1>8. ASSUME NEW k \in 1..n PROVE \E d \in N : Distance(d, t) <= Distance(s[k], t)
  <2>1. CASE k < off
    <3>1. off > 1 /\ off - 1 \in 1..n /\ k <= off - 1 /\ off - 1 < off
      BY <1>1, <1>2, <1>5, <2>1
    <3>2. s[off - 1] \in N /\ s[k] <= s[off - 1] /\ s[off - 1] < t /\ s[k] < t
      BY <1>1, <1>2, <1>3, <2>1, <3>1
    <3>3. s[k] \in Nat /\ s[off - 1] \in Nat
      BY <1>1, <3>1
    <3>4. Distance(s[off - 1], t) <= Distance(s[k], t)
      BY <3>2, <3>3 DEF Distance
    <3>5. QED
      BY <3>2, <3>4
  <2>2. CASE off <= k
    <3>1. off \in 1..n /\ off <= n /\ off <= k /\ ~(off < off) /\ ~(k < off)
      BY <1>1, <1>2, <1>5, <2>2
    <3>2. s[off] \in N /\ s[off] <= s[k] /\ t <= s[off] /\ t <= s[k]
      BY <1>1, <1>2, <1>3, <3>1
    <3>3. s[k] \in Nat /\ s[off] \in Nat
      BY <1>1, <3>1
    <3>4. Distance(s[off], t) <= Distance(s[k], t)
      BY <3>2, <3>3 DEF Distance
    <3>5. QED
      BY <3>2, <3>4
  <2>3. QED
    BY <1>2, <2>1, <2>2
<1>9. QED
  BY <1>4, <1>6, <1>7, <1>8 DEF N

\* Of finitely many, the first of the least.
LEMMA FirstOfLeast ==
    ASSUME NEW reach, reach \subseteq Nat, reach # {}, NEW far, \A k \in reach : far[k] \in Nat
    PROVE  \E k \in reach : \A j \in reach : far[k] < far[j] \/ (far[k] = far[j] /\ k <= j)
<1> DEFINE fars == {far[k] : k \in reach}
           least == Min(fars)
           those == {k \in reach : far[k] = least}
<1>1. fars \subseteq Nat /\ fars # {}
  OBVIOUS
<1>2. least \in fars /\ \A y \in fars : least <= y
  BY <1>1, MinBelongs
<1>3. those \subseteq Nat /\ those # {}
  BY <1>2
<1>4. Min(those) \in those /\ \A y \in those : Min(those) <= y
  BY <1>3, MinBelongs
<1>5. \A k \in reach : least \in Nat /\ far[k] \in Nat /\ least <= far[k]
  BY <1>1, <1>2
<1> HIDE DEF fars, least
<1>6. ASSUME NEW j \in reach PROVE far[Min(those)] < far[j] \/ (far[Min(those)] = far[j] /\ Min(those) <= j)
  <2>1. far[Min(those)] = least /\ least <= far[j] /\ least \in Nat /\ far[j] \in Nat
    BY <1>4, <1>5
  <2>2. CASE far[j] = least
    BY <1>4, <2>1, <2>2
  <2>3. CASE far[j] # least
    BY <2>1, <2>3
  <2>4. QED
    BY <2>2, <2>3
<1>7. QED
  BY <1>4, <1>6

\* What a drag may lock on to, in the order in which it is looked at.
Look(t, playhead, except) == <<playhead, 0, Duration>> \o InOrder(Neighbours(InOrder(Events(except)), t))

LEMMA LookIs ==
    ASSUME ScenesAre, NEW t \in Nat, NEW playhead \in Nat, NEW except
    PROVE  LET look == Look(t, playhead, except)
               all == Events(except) \cup {0, Duration}
           IN /\ DOMAIN look \subseteq Nat /\ 1 \in DOMAIN look /\ look[1] = playhead
              /\ \A k \in DOMAIN look : look[k] \in Nat /\ k >= 1 /\ (k # 1 => look[k] \in all)
              /\ \A c \in all : \E k \in DOMAIN look : k # 1 /\ Distance(look[k], t) <= Distance(c, t)
<1> DEFINE events == Events(except)
           all == events \cup {0, Duration}
           sorted == InOrder(events)
           N == Neighbours(sorted, t)
           first == <<playhead, 0, Duration>>
           rest == InOrder(N)
           look == first \o rest
<1>1. events \subseteq Nat /\ IsFiniteSet(events)
  BY EventsAre
<1>2. Duration \in Nat
  BY MinSpanIs
<1> HIDE DEF events
<1>3. /\ sorted \in Seq(Nat) /\ ToSet(sorted) = events
      /\ \A j, k \in DOMAIN sorted : j <= k => sorted[j] <= sorted[k]
  BY <1>1, InOrderIs
<1> HIDE DEF sorted
<1>4. /\ N \subseteq events /\ IsFiniteSet(N)
      /\ \A c \in events : \E d \in N : Distance(d, t) <= Distance(c, t)
  BY <1>3, NeighboursAreNearest
<1> HIDE DEF N
<1>5. rest \in Seq(Nat) /\ ToSet(rest) = N
  BY <1>1, <1>4, InOrderIs
<1> HIDE DEF rest
<1>6. first \in Seq(Nat) /\ Len(first) = 3 /\ first[1] = playhead /\ first[2] = 0 /\ first[3] = Duration
  BY <1>2
<1>7. ToSet(rest) = {rest[k] : k \in 1..Len(rest)} /\ Len(rest) \in Nat
  BY <1>5, ItemsOf
<1> HIDE DEF first
<1>8. /\ look \in Seq(Nat) /\ Len(look) = 3 + Len(rest)
      /\ \A k \in 1..(3 + Len(rest)) : look[k] = IF k <= 3 THEN first[k] ELSE rest[k - 3]
  <2>1. /\ look \in Seq(Nat) /\ Len(look) = Len(first) + Len(rest)
        /\ \A k \in 1..(Len(first) + Len(rest)) : look[k] = IF k <= Len(first) THEN first[k] ELSE rest[k - Len(first)]
    BY <1>5, <1>6, ConcatProperties, Zenon
  <2> HIDE DEF look
  <2>2. Len(first) = 3
    BY <1>6
  <2>3. QED
    BY <2>1, <2>2
<1>9. DOMAIN look = 1..(3 + Len(rest)) /\ \A k \in DOMAIN look : look[k] \in Nat
  BY <1>8
<1> HIDE DEF look
<1>10. 1 \in DOMAIN look /\ look[1] = playhead /\ 2 \in DOMAIN look /\ look[2] = 0 /\ 3 \in DOMAIN look /\ look[3] = Duration
  BY <1>6, <1>7, <1>8, <1>9
<1>11. \A k \in 1..Len(rest) : k + 3 \in DOMAIN look /\ k + 3 # 1 /\ look[k + 3] = rest[k]
  <2>1. \A k \in 1..Len(rest) : k + 3 \in 1..(3 + Len(rest)) /\ ~(k + 3 <= 3) /\ (k + 3) - 3 = k /\ k + 3 # 1
    BY <1>7
  <2>2. QED
    BY <1>8, <1>9, <2>1
<1>12. ASSUME NEW k \in DOMAIN look, k # 1 PROVE look[k] \in all
  <2>1. CASE k <= 3
    <3>1. k = 2 \/ k = 3
      BY <1>7, <1>9, <1>12, <2>1
    <3>2. QED
      BY <1>10, <3>1
  <2>2. CASE ~(k <= 3)
    <3>1. k - 3 \in 1..Len(rest) /\ k \in 1..(3 + Len(rest))
      BY <1>7, <1>9, <2>2
    <3>2. look[k] = rest[k - 3]
      BY <1>8, <2>2, <3>1
    <3>3. look[k] \in N
      BY <1>5, <1>7, <3>1, <3>2
    <3>4. QED
      BY <1>4, <3>3
  <2>3. QED
    BY <2>1, <2>2
<1>13. ASSUME NEW c \in all PROVE \E k \in DOMAIN look : k # 1 /\ Distance(look[k], t) <= Distance(c, t)
  <2>1. \A d \in Nat : Distance(d, t) \in Nat
    BY DEF Distance
  <2>2. CASE c = 0
    <3>1. Distance(look[2], t) <= Distance(c, t)
      BY <1>10, <2>1, <2>2
    <3>2. QED
      BY <1>10, <3>1
  <2>3. CASE c = Duration
    <3>1. Distance(look[3], t) <= Distance(c, t)
      BY <1>2, <1>10, <2>1, <2>3
    <3>2. QED
      BY <1>10, <3>1
  <2>4. CASE c \in events
    <3>1. PICK d \in N : Distance(d, t) <= Distance(c, t)
      BY <1>4, <2>4
    <3>2. PICK k \in 1..Len(rest) : d = rest[k]
      BY <1>5, <1>7
    <3>3. k + 3 \in DOMAIN look /\ k + 3 # 1 /\ look[k + 3] = d
      BY <1>11, <3>2
    <3>4. QED
      BY <3>1, <3>3
  <2>5. QED
    BY <2>2, <2>3, <2>4
<1>14. DOMAIN look \subseteq Nat /\ \A k \in DOMAIN look : look[k] \in Nat /\ k >= 1 /\ (k # 1 => look[k] \in all)
  BY <1>7, <1>9, <1>12
<1>15. look = Look(t, playhead, except)
  BY DEF look, Look, first, rest, N, sorted, events
<1> HIDE DEF all
<1>16. /\ DOMAIN look \subseteq Nat /\ 1 \in DOMAIN look /\ look[1] = playhead
       /\ \A k \in DOMAIN look : look[k] \in Nat /\ k >= 1 /\ (k # 1 => look[k] \in all)
       /\ \A c \in all : \E k \in DOMAIN look : k # 1 /\ Distance(look[k], t) <= Distance(c, t)
  BY <1>10, <1>13, <1>14
<1>17. QED
  BY <1>15, <1>16 DEF all, events

\* A time is rounded to one that frames divide.
LEMMA FramesDivide == ASSUME NEW t \in Nat PROVE ToFrame(t) \in Int /\ ToFrame(t) % Frame = 0
<1> DEFINE q == (2 * t + Frame) \div (2 * Frame)
<1>1. Frame \in Nat \ {0}
  BY MinSpanIs
<1>2. q \in Int
  <2>1. 2 * t + Frame \in Int /\ 2 * Frame \in Nat \ {0}
    BY <1>1
  <2>2. QED
    BY <2>1, QuotientIs
<1>3. ToFrame(t) = q * Frame
  BY DEF ToFrame
<1> HIDE DEF q
<1>4. q * Frame \in Int /\ (q * Frame) % Frame = 0
  <2>1. \A a \in Int : \A f \in Nat \ {0} : a * f \in Int /\ (a * f) % f = 0
    OBVIOUS
  <2>2. QED
    BY <1>1, <1>2, <2>1
<1>5. QED
  BY <1>3, <1>4

\* So many pixels' worth of ticks are compared by the ticks.
LEMMA Widths ==
    ASSUME NEW a \in Nat, NEW b \in Nat
    PROVE  /\ a * Width \in Nat /\ b * Width \in Nat
           /\ a * Width < b * Width <=> a < b
           /\ a * Width = b * Width <=> a = b
<1>1. Width \in Nat \ {0}
  BY MinSpanIs
<1>2. \A w \in Nat \ {0} : \A x, y \in Nat : x * w \in Nat /\ (x < y => x * w < y * w)
  OBVIOUS
<1>3. a * Width \in Nat /\ b * Width \in Nat /\ (a < b => a * Width < b * Width) /\ (b < a => b * Width < a * Width)
  BY <1>1, <1>2
<1>4. QED
  BY <1>3

\* What is locked on to, when anything is in reach.
Aim(look, t, k) == Distance(look[k], t) * Width
InReach(look, t) ==
    {k \in DOMAIN look : Aim(look, t, k) < span * SnapPx \/ (k = 1 /\ Aim(look, t, k) = span * SnapPx)}

LEMMA SnapIs ==
    ASSUME WindowInv, ScenesAre, NEW t \in Nat, NEW playhead \in Nat, NEW except
    PROVE  LET look == Look(t, playhead, except)
               s == Snap(t, playhead, except)
               d(x) == Distance(x, t)
           IN \/ InReach(look, t) = {} /\ s = [t |-> ToFrame(t), to |-> -1]
              \/ \E f \in InReach(look, t) :
                    /\ s = [t |-> look[f], to |-> look[f]]
                    /\ \A j \in InReach(look, t) : d(look[f]) < d(look[j]) \/ (d(look[f]) = d(look[j]) /\ f <= j)
<1> DEFINE look == Look(t, playhead, except)
           reach == InReach(look, t)
           s == Snap(t, playhead, except)
           far == [k \in DOMAIN look |-> Aim(look, t, k)]
           Best(k) == \A j \in reach : far[k] < far[j] \/ (far[k] = far[j] /\ k <= j)
           f == CHOOSE k \in reach : Best(k)
<1>1. DOMAIN look \subseteq Nat /\ \A k \in DOMAIN look : look[k] \in Nat
  BY LookIs
<1>2. \A k \in DOMAIN look : Distance(look[k], t) \in Nat
  BY <1>1 DEF Distance
<1>3. \A k \in DOMAIN look : far[k] \in Nat /\ far[k] = Distance(look[k], t) * Width
  BY <1>2, Widths DEF Aim
<1>4. reach \subseteq DOMAIN look
  BY DEF InReach
<1>5. s = IF reach = {} THEN [t |-> ToFrame(t), to |-> -1] ELSE [t |-> look[f], to |-> look[f]]
  <2> DEFINE picked == CHOOSE k \in reach : \A j \in reach :
                          \/ Aim(look, t, k) < Aim(look, t, j)
                          \/ Aim(look, t, k) = Aim(look, t, j) /\ k <= j
  <2>1. s = IF reach = {} THEN [t |-> ToFrame(t), to |-> -1] ELSE [t |-> look[picked], to |-> look[picked]]
    BY Zenon DEF Snap, Look, Aim, InReach
  <2>2. picked = f
    <3>1. \A k \in DOMAIN look : far[k] = Aim(look, t, k)
      OBVIOUS
    <3> HIDE DEF far, look
    <3>2. \A k \in reach : far[k] = Aim(look, t, k)
      BY <1>4, <3>1, Zenon
    <3> HIDE DEF reach
    <3>3. ASSUME NEW k \in reach
          PROVE  (\A j \in reach : \/ Aim(look, t, k) < Aim(look, t, j)
                                   \/ Aim(look, t, k) = Aim(look, t, j) /\ k <= j) <=> Best(k)
      BY <3>2, Zenon
    <3> HIDE DEF Best
    <3>4. QED
      BY <3>3, Zenon
  <2>3. QED
    BY <2>1, <2>2
<1> HIDE DEF look, reach, s, far
<1>6. CASE reach = {}
  BY <1>5, <1>6 DEF look, reach, s
<1>7. CASE reach # {}
  <2>1. \E k \in reach : Best(k)
    <3>1. reach \subseteq Nat /\ \A k \in reach : far[k] \in Nat
      BY <1>1, <1>3, <1>4
    <3>2. QED
      BY <1>7, <3>1, FirstOfLeast
  <2>2. f \in reach /\ Best(f)
    <3> HIDE DEF Best
    <3>1. QED
      BY <2>1
  <2> HIDE DEF f
  <2>3. ASSUME NEW j \in reach
        PROVE  \/ Distance(look[f], t) < Distance(look[j], t)
               \/ Distance(look[f], t) = Distance(look[j], t) /\ f <= j
    <3>1. /\ Distance(look[f], t) \in Nat /\ Distance(look[j], t) \in Nat
          /\ far[f] = Distance(look[f], t) * Width /\ far[j] = Distance(look[j], t) * Width
      BY <1>2, <1>3, <1>4, <2>2
    <3>2. far[f] < far[j] \/ (far[f] = far[j] /\ f <= j)
      BY <2>2
    <3>3. QED
      BY <3>1, <3>2, Widths
  <2>4. s = [t |-> look[f], to |-> look[f]]
    BY <1>5, <1>7
  <2>5. QED
    BY <2>2, <2>3, <2>4 DEF look, reach, s
<1>8. QED
  BY <1>6, <1>7

LEMMA SnapsWell ==
    ASSUME WindowInv, ScenesAre, NEW t \in Nat, NEW playhead \in Nat, NEW except
    PROVE  LET all == Events(except) \cup {0, Duration}
               near == {c \in all : Distance(c, t) * Width < span * SnapPx}
               s == Snap(t, playhead, except)
           IN /\ \A c \in near : Distance(s.t, t) <= Distance(c, t)
              /\ (s.to # -1 /\ \A c \in near : Distance(playhead, t) <= Distance(c, t))
                 => s.t = playhead \/ s.to \in near
              /\ Distance(playhead, t) * Width <= span * SnapPx
                 /\ (\A c \in near : Distance(playhead, t) <= Distance(c, t)) => s.t = playhead
              /\ s.to = -1 => near = {} /\ s.t % Frame = 0
<1> DEFINE all == Events(except) \cup {0, Duration}
           near == {c \in all : Distance(c, t) * Width < span * SnapPx}
           s == Snap(t, playhead, except)
           look == Look(t, playhead, except)
           reach == InReach(look, t)
           limit == span * SnapPx
           d(x) == Distance(x, t)
<1>1. /\ DOMAIN look \subseteq Nat /\ 1 \in DOMAIN look /\ look[1] = playhead
      /\ \A k \in DOMAIN look : look[k] \in Nat /\ k >= 1 /\ (k # 1 => look[k] \in all)
      /\ \A c \in all : \E k \in DOMAIN look : k # 1 /\ Distance(look[k], t) <= Distance(c, t)
  BY LookIs
<1>2. all \subseteq Nat
  BY EventsAre, MinSpanIs
<1>3. \A x \in Nat : d(x) \in Nat /\ d(x) * Width \in Nat
  <2>1. \A x \in Nat : d(x) \in Nat
    BY DEF Distance
  <2>2. QED
    BY <2>1, Widths
<1>4. limit \in Nat
  <2>1. span \in Nat /\ SnapPx \in Nat
    BY WindowIs, CanvasAssumption
  <2>2. \A a, b \in Nat : a * b \in Nat
    OBVIOUS
  <2>3. QED
    BY <2>1, <2>2
<1>5. \A k : k \in reach <=> k \in DOMAIN look /\ (d(look[k]) * Width < limit \/ (k = 1 /\ d(look[k]) * Width = limit))
  BY DEF InReach, Aim
<1>6. \/ reach = {} /\ s = [t |-> ToFrame(t), to |-> -1]
      \/ \E f \in reach :
            /\ s = [t |-> look[f], to |-> look[f]]
            /\ \A j \in reach : d(look[f]) < d(look[j]) \/ (d(look[f]) = d(look[j]) /\ f <= j)
  BY SnapIs
<1> HIDE DEF look, reach, s, all
<1>7. \A c \in near : c \in all /\ c \in Nat /\ d(c) * Width < limit
  BY <1>2
<1>8. ASSUME NEW c \in near PROVE \E k \in reach : k # 1 /\ d(look[k]) <= d(c)
  <2>1. PICK k \in DOMAIN look : k # 1 /\ d(look[k]) <= d(c)
    BY <1>1, <1>7
  <2>2. d(look[k]) \in Nat /\ d(c) \in Nat /\ d(c) * Width < limit
    BY <1>1, <1>3, <1>7
  <2>3. d(look[k]) * Width <= d(c) * Width /\ d(look[k]) * Width \in Nat /\ d(c) * Width \in Nat
    <3> HIDE DEF d
    <3>1. QED
      BY <2>1, <2>2, Widths
  <2>4. d(look[k]) * Width < limit
    <3> HIDE DEF d, limit
    <3>1. \A x, y, z \in Nat : x <= y /\ y < z => x < z
      OBVIOUS
    <3>2. QED
      BY <1>4, <2>2, <2>3, <3>1
  <2>5. QED
    BY <1>5, <2>1, <2>4
<1>9. ASSUME NEW k \in reach, k # 1 PROVE look[k] \in near
  BY <1>1, <1>5, <1>9
<1>10. \A k \in reach : k \in DOMAIN look /\ k \in Nat /\ k >= 1 /\ look[k] \in Nat /\ d(look[k]) \in Nat
  BY <1>1, <1>3, <1>5
<1> HIDE DEF near, d, limit
<1>11. CASE reach = {} /\ s = [t |-> ToFrame(t), to |-> -1]
  <2>1. near = {}
    BY <1>8, <1>11
  <2>2. ~(d(playhead) * Width <= limit)
    <3>1. 1 \notin reach
      BY <1>11
    <3>2. d(playhead) * Width \in Nat
      BY <1>1, <1>3
    <3>3. ~(d(playhead) * Width < limit) /\ d(playhead) * Width # limit
      BY <1>1, <1>5, <3>1
    <3>4. QED
      BY <1>4, <3>2, <3>3
  <2>3. s.t = ToFrame(t) /\ s.to = -1 /\ s.t % Frame = 0
    BY <1>11, FramesDivide
  <2>4. QED
    BY <2>1, <2>2, <2>3 DEF near, all, s, d, limit
<1>12. ASSUME NEW f \in reach, s = [t |-> look[f], to |-> look[f]],
              \A j \in reach : d(look[f]) < d(look[j]) \/ (d(look[f]) = d(look[j]) /\ f <= j)
       PROVE  /\ \A c \in near : d(s.t) <= d(c)
              /\ s.t = playhead \/ s.to \in near
              /\ d(playhead) * Width <= limit /\ (\A c \in near : d(playhead) <= d(c)) => s.t = playhead
              /\ s.to # -1
  <2>1. s.t = look[f] /\ s.to = look[f] /\ look[f] \in Nat /\ d(look[f]) \in Nat
    BY <1>10, <1>12
  <2>2. ASSUME NEW c \in near PROVE d(s.t) <= d(c)
    <3>1. PICK k \in reach : d(look[k]) <= d(c)
      BY <1>8
    <3>2. d(look[f]) <= d(look[k])
      BY <1>10, <1>12
    <3>3. d(c) \in Nat /\ d(look[k]) \in Nat
      BY <1>3, <1>7, <1>10
    <3>4. QED
      BY <2>1, <3>1, <3>2, <3>3
  <2>3. s.t = playhead \/ s.to \in near
    BY <1>1, <1>9, <2>1
  <2>4. ASSUME d(playhead) * Width <= limit, \A c \in near : d(playhead) <= d(c) PROVE s.t = playhead
    <3>1. 1 \in reach
      <4>1. d(playhead) * Width < limit \/ d(playhead) * Width = limit
        BY <1>1, <1>3, <1>4, <2>4
      <4>2. QED
        BY <1>1, <1>5, <4>1
    <3>2. CASE f = 1
      BY <1>1, <2>1, <3>2
    <3>3. CASE f # 1
      <4>1. look[f] \in near
        BY <1>9, <3>3
      <4>2. d(look[1]) <= d(look[f])
        BY <1>1, <2>4, <4>1
      <4>3. d(look[f]) < d(look[1]) \/ (d(look[f]) = d(look[1]) /\ f <= 1)
        BY <1>12, <3>1
      <4>4. f \in Nat /\ f >= 1 /\ d(look[1]) \in Nat
        BY <1>10, <3>1
      <4>5. QED
        BY <2>1, <3>3, <4>2, <4>3, <4>4
    <3>4. QED
      BY <3>2, <3>3
  <2>5. s.to # -1
    BY <2>1
  <2>6. QED
    BY <2>2, <2>3, <2>4, <2>5
<1>13. CASE \E f \in reach :
              /\ s = [t |-> look[f], to |-> look[f]]
              /\ \A j \in reach : d(look[f]) < d(look[j]) \/ (d(look[f]) = d(look[j]) /\ f <= j)
  <2>1. /\ \A c \in near : d(s.t) <= d(c)
        /\ s.t = playhead \/ s.to \in near
        /\ d(playhead) * Width <= limit /\ (\A c \in near : d(playhead) <= d(c)) => s.t = playhead
        /\ s.to # -1
    BY <1>12, <1>13
  <2>2. QED
    BY <2>1 DEF near, all, s, d, limit
<1>14. QED
  BY <1>6, <1>11, <1>13

\* For any scores, films, windows and moments: a drag locks on to the nearest thing in
\* reach, to the playhead when that is no farther, and lands on a frame when nothing is in
\* reach (web/src/core/snap.ts snap, nearest).
THEOREM DragsAlwaysSnap == CanvasSpec => []SnapsToNearest
<1>1. CanvasInit => WindowInv /\ ScenesAre
  BY InitWindow DEF CanvasInit, ScenesAre
<1>2. (WindowInv /\ ScenesAre) /\ [CanvasNext]_canvasVars => (WindowInv /\ ScenesAre)'
  BY WindowKeeps, ScenesKept
<1>3. WindowInv /\ ScenesAre => SnapsToNearest
  <2> SUFFICES ASSUME WindowInv, ScenesAre PROVE SnapsToNearest
    OBVIOUS
  <2>1. \A t \in 0..Duration : t \in Nat
    BY MinSpanIs
  <2>2. \A playhead \in Playheads : playhead \in Nat
    BY CanvasAssumption
  <2>3. QED
    BY <2>1, <2>2, SnapsWell DEF SnapsToNearest
<1>4. QED
  BY <1>1, <1>2, <1>3, PTL DEF CanvasSpec

-----------------------------------------------------------------------------
(* The timeline: what is drawn is what is grabbed *)

LEMMA QuotientGrows ==
    ASSUME NEW a \in Int, NEW b \in Int, a <= b, NEW n \in Nat \ {0}
    PROVE  a \div n \in Int /\ b \div n \in Int /\ a \div n <= b \div n
<1> DEFINE p == a \div n
           q == b \div n
<1>1. p \in Int /\ n * p <= a /\ q \in Int /\ b < n * q + n
  BY QuotientIs
<1> HIDE DEF p, q
<1>2. p <= q
  <2> SUFFICES ASSUME q + 1 <= p PROVE FALSE
    BY <1>1
  <2>1. n * (q + 1) <= n * p
    BY <1>1
  <2>2. n * (q + 1) = n * q + n /\ n * p \in Int /\ n * q + n \in Int
    BY <1>1
  <2>3. QED
    BY <1>1, <2>1, <2>2
<1>3. QED
  BY <1>1, <1>2 DEF p, q

\* Where a moment is drawn: later ones no farther left, those in the window in the lane.
LEMMA PixelIs ==
    ASSUME WindowInv
    PROVE  /\ \A t \in Int : X(t) \in Int
           /\ \A t, u \in Int : t <= u => X(t) <= X(u)
           /\ \A t \in Int : Inside(t) => 0 <= X(t) /\ X(t) <= Width
           /\ \A t \in Int : Inside(t) /\ t < End => X(t) < Width
<1>1. start \in Nat /\ span \in Nat \ {0} /\ Width \in Nat \ {0} /\ End = start + span
  BY WindowIs, MinSpanIs DEF End
<1>2. \A t \in Int : (t - start) * Width \in Int
  BY <1>1
<1>3. ASSUME NEW t \in Int PROVE X(t) \in Int /\ span * X(t) <= (t - start) * Width /\ (t - start) * Width < span * X(t) + span
  BY <1>1, <1>2, QuotientIs DEF X
<1>4. ASSUME NEW t \in Int, NEW u \in Int, t <= u PROVE X(t) <= X(u)
  <2>1. (t - start) * Width <= (u - start) * Width
    BY <1>1, <1>4
  <2>2. QED
    BY <1>1, <1>2, <2>1, QuotientGrows DEF X
<1>5. X(start) = 0 /\ X(End) = Width
  <2>1. (start - start) * Width = 0 /\ (End - start) * Width = span * Width
    BY <1>1
  <2>2. \A n \in Nat \ {0} : \A w \in Nat : 0 \div n = 0 /\ (n * w) \div n = w
    OBVIOUS
  <2>3. QED
    BY <1>1, <2>1, <2>2 DEF X
<1>6. ASSUME NEW t \in Int, Inside(t) PROVE 0 <= X(t) /\ X(t) <= Width
  BY <1>1, <1>4, <1>5, <1>6 DEF Inside
<1>7. ASSUME NEW t \in Int, t < End PROVE X(t) < Width
  <2> SUFFICES ASSUME Width <= X(t) PROVE FALSE
    BY <1>1, <1>3
  <2> DEFINE x == X(t)
             far == t - start
  <2>1. x \in Int /\ Width <= x /\ span * x <= far * Width /\ far \in Int /\ far < span
    BY <1>1, <1>3, <1>7
  <2> HIDE DEF x, far
  <2>2. span * Width <= span * x
    BY <1>1, <2>1
  <2>3. far * Width < span * Width
    BY <1>1, <2>1
  <2>4. span * Width \in Int /\ span * x \in Int /\ far * Width \in Int
    BY <1>1, <2>1
  <2>5. QED
    BY <2>1, <2>2, <2>3, <2>4
<1>8. QED
  BY <1>3, <1>4, <1>6, <1>7

\* Of finitely many, the last.
LEMMA MaxBelongs ==
    ASSUME NEW n \in Nat, NEW S, S \subseteq 1..n, S # {}
    PROVE  \E k \in S : \A j \in S : j <= k
<1> DEFINE back == {n - k : k \in S}
<1>1. back \subseteq Nat /\ back # {}
  <2>1. \A k \in S : k \in 1..n /\ n - k \in Nat
    OBVIOUS
  <2>2. QED
    BY <2>1
<1>2. Min(back) \in back /\ \A y \in back : Min(back) <= y
  BY <1>1, MinBelongs
<1>3. PICK k \in S : Min(back) = n - k
  BY <1>2
<1>4. ASSUME NEW j \in S PROVE j <= k
  <2>1. n - k <= n - j
    BY <1>2, <1>3
  <2>2. j \in Int /\ k \in Int
    OBVIOUS
  <2>3. QED
    BY <2>1, <2>2
<1>5. QED
  BY <1>4

\* Of those under the pointer the last is had.
LEMMA LastIsHad ==
    ASSUME ScenesAre, NEW i \in DOMAIN Tracks, NEW x, NEW k \in DrawnCues(i), Part(scene[i][k], x) # "none"
    PROVE  LET h == HitCue(i, x)
           IN /\ h.k \in DrawnCues(i) /\ k <= h.k /\ h.part = Part(scene[i][h.k], x)
              /\ Part(scene[i][h.k], x) # "none"
<1> DEFINE under == {j \in DrawnCues(i) : Part(scene[i][j], x) # "none"}
           last == CHOOSE j \in under : \A m \in under : m <= j
<1>1. Len(scene[i]) \in Nat /\ DOMAIN scene[i] = 1..Len(scene[i])
  BY EventIs
<1>2. k \in under /\ under \subseteq 1..Len(scene[i]) /\ under \subseteq DrawnCues(i)
  BY <1>1 DEF DrawnCues
<1>3. \E j \in under : \A m \in under : m <= j
  BY <1>1, <1>2, MaxBelongs
<1>4. HitCue(i, x) = [k |-> last, part |-> Part(scene[i][last], x)]
  BY <1>2, Zenon DEF HitCue
<1>5. last \in under /\ \A m \in under : m <= last
  <2> HIDE DEF under
  <2>1. QED
    BY <1>3
<1> HIDE DEF last
<1>6. QED
  BY <1>2, <1>4, <1>5

\* What is drawn of a cue is a part of it.
LEMMA DrawnIsPart ==
    ASSUME WindowInv, NEW c \in Marks, NEW x \in Int, Box(c).from <= x, x <= Box(c).to
    PROVE  Part(c, x) # "none"
<1>1. c.t \in Int /\ c.end \in Int
  BY DEF Marks
<1>2. X(c.t) \in Int /\ X(c.end) \in Int /\ (c.t <= c.end => X(c.t) <= X(c.end))
  BY <1>1, PixelIs
<1>3. Grab \in Nat /\ MinEventW \in Nat /\ MinEventW <= Grab
  BY CanvasAssumption
<1>4. CASE ~Span(c)
  BY <1>1, <1>2, <1>3, <1>4 DEF Box, Part, Span, Distance
<1>5. CASE Span(c)
  <2>1. X(c.t) <= x /\ (x <= X(c.t) + MinEventW \/ x <= X(c.end)) /\ X(c.t) <= X(c.end)
    BY <1>1, <1>2, <1>5 DEF Box, Span, Greater
  <2>2. x <= X(c.end) \/ Distance(x, X(c.t)) <= Grab
    BY <1>2, <1>3, <2>1 DEF Distance
  <2>3. QED
    BY <1>5, <2>1, <2>2 DEF Part
<1>6. QED
  BY <1>4, <1>5

\* Both of its ends can be had.
LEMMA EndsAreHad ==
    ASSUME WindowInv, ScenesAre, NEW i \in DOMAIN Tracks, NEW k \in DrawnCues(i),
           X(scene[i][k].t) < X(scene[i][k].end), Inside(scene[i][k].t), Inside(scene[i][k].end),
           X(scene[i][k].t) > Grab,
           \A j \in DrawnCues(i) : j > k => \A x \in Pixels : Part(scene[i][j], x) = "none"
    PROVE  {"start", "end"} \subseteq {HitCue(i, x).part : x \in {x \in Pixels : HitCue(i, x).k = k}}
<1> DEFINE c == scene[i][k]
           a == X(c.t)
           b == X(c.end)
<1>1. Len(scene[i]) \in Nat /\ DOMAIN scene[i] = 1..Len(scene[i]) /\ DrawnCues(i) \subseteq 1..Len(scene[i])
  BY EventIs DEF DrawnCues
<1>2. c.t \in Int /\ c.end \in Int /\ c.t <= c.end
  BY <1>1, EventIs
<1>3. a \in Int /\ b \in Int /\ a <= Width /\ b <= Width /\ 0 <= a /\ 0 <= b /\ a < b /\ Grab < a
  BY <1>2, PixelIs
<1>4. Grab \in Nat /\ Width \in Nat
  BY CanvasAssumption
<1>5. Span(c)
  <2>1. c.t # c.end
    BY <1>3
  <2>2. QED
    BY <1>2, <2>1 DEF Span
<1>6. ASSUME NEW x \in Pixels, Part(c, x) # "none"
      PROVE  HitCue(i, x).k = k /\ HitCue(i, x).part = Part(c, x)
  <2> DEFINE h == HitCue(i, x)
  <2>1. h.k \in DrawnCues(i) /\ k <= h.k /\ h.part = Part(scene[i][h.k], x) /\ Part(scene[i][h.k], x) # "none"
    BY <1>6, LastIsHad
  <2> HIDE DEF h
  <2>2. ~(h.k > k)
    BY <2>1
  <2>3. h.k \in Int /\ k \in Int
    BY <1>1, <2>1
  <2>4. h.k = k
    BY <2>1, <2>2, <2>3
  <2>5. QED
    BY <2>1, <2>4 DEF h
<1> HIDE DEF a, b
<1>7. b \in Pixels /\ Part(c, b) = "end"
  <2>1. Distance(b, b) = 0
    BY <1>3 DEF Distance
  <2>2. b \in Pixels /\ Distance(b, b) <= Grab
    BY <1>3, <1>4, <2>1 DEF Pixels
  <2>3. QED
    BY <1>5, <2>2 DEF Part, b
<1>8. a - Grab \in Pixels /\ Part(c, a - Grab) = "start"
  <2>1. Distance(a - Grab, b) > Grab /\ Distance(a - Grab, a) <= Grab
    BY <1>3, <1>4 DEF Distance
  <2>2. a - Grab \in Pixels
    BY <1>3, <1>4 DEF Pixels
  <2>3. ~(Distance(a - Grab, b) <= Grab)
    BY <1>3, <1>4, <2>1 DEF Distance
  <2>4. QED
    BY <1>5, <2>1, <2>2, <2>3 DEF Part, a, b
<1> DEFINE parts == {HitCue(i, x).part : x \in {x \in Pixels : HitCue(i, x).k = k}}
<1>9. \A x \in Pixels : HitCue(i, x).k = k => HitCue(i, x).part \in parts
  OBVIOUS
<1> HIDE DEF parts, c
<1>10. "start" \in parts /\ "end" \in parts
  BY <1>6, <1>7, <1>8, <1>9
<1>11. {"start", "end"} \subseteq parts
  BY <1>10
<1>12. QED
  BY <1>11, Zenon DEF parts

-----------------------------------------------------------------------------
(* The timeline: its rows *)

\* What is listed are names, moved about as they may be.
OrderIs == order \in Seq(RowNames)

LEMMA WrittenIs ==
    ASSUME OrderIs
    PROVE  Written \in Seq(RowNames) /\ \A id \in ToSet(Written) : id \in RowNames /\ At(id) \in 1..Len(Written)
<1> DEFINE ids == [i \in DOMAIN Tracks |-> Tracks[i].id]
<1>1. Len(Tracks) \in Nat /\ DOMAIN Tracks = 1..Len(Tracks)
  BY TracksAre
<1>2. \A i \in DOMAIN Tracks : Tracks[i].id \in RowNames
  BY DEF TrackIds, RowNames
<1>3. ids \in Seq(RowNames)
  BY <1>1, <1>2
<1>4. Written \in Seq(RowNames)
  BY <1>3 DEF Written, OrderIs
<1>5. ASSUME NEW id \in ToSet(Written) PROVE id \in RowNames /\ At(id) \in 1..Len(Written)
  <2>1. \E k \in 1..Len(Written) : Written[k] = id
    BY <1>4, ItemsOf
  <2>2. DOMAIN Written = 1..Len(Written)
    BY <1>4
  <2>3. At(id) \in 1..Len(Written)
    BY <2>1, <2>2, Zenon DEF At
  <2>4. id \in RowNames
    BY <1>4, ItemsOf
  <2>5. QED
    BY <2>3, <2>4
<1>6. QED
  BY <1>4, <1>5

\* Taken out at one place and put in at another.
LEMMA MovedIs ==
    ASSUME NEW S, NEW s \in Seq(S), NEW k \in 1..Len(s), NEW p \in 1..Len(s), NEW x \in S
    PROVE  InsertAt(RemoveAt(s, k), p, x) \in Seq(S)
<1>1. Len(s) \in Nat
  OBVIOUS
<1> DEFINE a == SubSeq(s, 1, k - 1)
           b == SubSeq(s, k + 1, Len(s))
           r == a \o b
<1>2. a \in Seq(S) /\ Len(a) = k - 1
  BY <1>1
<1>3. b \in Seq(S) /\ Len(b) = Len(s) - k
  <2>1. CASE k = Len(s)
    <3>1. b = <<>>
      BY <1>1, <2>1, SubSeqProperties
    <3>2. QED
      BY <1>1, <2>1, <3>1
  <2>2. CASE k # Len(s)
    BY <1>1, <2>2
  <2>3. QED
    BY <2>1, <2>2
<1>4. r \in Seq(S) /\ Len(r) = Len(s) - 1
  <2> HIDE DEF a, b
  <2>1. a \o b \in Seq(S) /\ Len(a \o b) = Len(a) + Len(b)
    BY <1>2, <1>3, ConcatProperties
  <2>2. QED
    BY <1>1, <1>2, <1>3, <2>1
<1>5. RemoveAt(s, k) = r
  BY DEF RemoveAt
<1> HIDE DEF r
<1> DEFINE c == SubSeq(r, 1, p - 1)
           d == SubSeq(r, p, Len(r))
<1>6. c \in Seq(S)
  BY <1>1, <1>4
<1>7. d \in Seq(S)
  BY <1>1, <1>4
<1>8. InsertAt(r, p, x) = c \o <<x>> \o d
  BY DEF InsertAt
<1> HIDE DEF c, d
<1>9. <<x>> \in Seq(S)
  OBVIOUS
<1>10. c \o <<x>> \in Seq(S)
  BY <1>6, <1>9, ConcatProperties
<1>11. (c \o <<x>>) \o d \in Seq(S)
  BY <1>7, <1>10, ConcatProperties
<1>12. QED
  BY <1>5, <1>8, <1>11

LEMMA OrderKept == ASSUME OrderIs, [CanvasNext]_canvasVars PROVE OrderIs'
<1>1. ASSUME order' = order PROVE OrderIs'
  BY <1>1 DEF OrderIs
<1>2. ASSUME NEW id, id \in ToSet(Written), NEW p \in 1..Len(Written),
             order' = InsertAt(RemoveAt(Written, At(id)), p, id)
      PROVE  OrderIs'
  BY <1>2, WrittenIs, MovedIs DEF OrderIs
<1>3. Len(Written) \in Nat /\ \A id \in ToSet(Written) : Len(Written) \in 1..Len(Written)
  <2>1. Written \in Seq(RowNames) /\ \A id \in ToSet(Written) : At(id) \in 1..Len(Written)
    BY WrittenIs
  <2>2. Len(Written) \in Nat
    BY <2>1
  <2>3. QED
    BY <2>1, <2>2
<1>4. ASSUME NEW id \in TrackIds, NEW by \in {-1, 1}, MoveBy(id, by) PROVE OrderIs'
  <2>1. id \in ToSet(Written) /\ At(id) \in 1..Len(Written)
    BY <1>4, WrittenIs DEF MoveBy
  <2>2. Clamp(At(id) + by, 1, Len(Written)) \in 1..Len(Written)
    BY <1>3, <2>1 DEF Clamp
  <2>3. QED
    BY <1>2, <1>4, <2>1, <2>2 DEF MoveBy
<1>5. ASSUME NEW id \in TrackIds, NEW before \in TrackIds, MoveTo(id, before) PROVE OrderIs'
  <2>1. id \in ToSet(Written)
    BY <1>5 DEF MoveTo
  <2>2. (IF before \in ToSet(Written) THEN At(before) ELSE Len(Written)) \in 1..Len(Written)
    BY <1>3, <2>1, WrittenIs
  <2>3. QED
    BY <1>2, <1>5, <2>1, <2>2 DEF MoveTo
<1>6. ASSUME NEW by, Pan(by) PROVE OrderIs'
  BY <1>1, <1>6 DEF Pan
<1>7. ASSUME NEW x, NEW num, NEW den, ZoomAt(x, num, den) PROVE OrderIs'
  BY <1>1, <1>7 DEF ZoomAt
<1>8. ASSUME NEW a, NEW b, ZoomTo(a, b) PROVE OrderIs'
  BY <1>1, <1>8 DEF ZoomTo
<1>9. ASSUME NEW t, Reveal(t) PROVE OrderIs'
  BY <1>1, <1>9 DEF Reveal
<1>10. ASSUME NEW part, NEW t, DragBox(part, t) PROVE OrderIs'
  BY <1>1, <1>10 DEF DragBox
<1>11. ASSUME NEW i, Toggle(i) PROVE OrderIs'
  BY <1>1, <1>11 DEF Toggle
<1>12. CASE Fit \/ Reset
  BY <1>1, <1>12 DEF Fit, Reset
<1>13. CASE UNCHANGED canvasVars
  BY <1>1, <1>13 DEF canvasVars
<1>14. QED
  BY <1>4, <1>5, <1>6, <1>7, <1>8, <1>9, <1>10, <1>11, <1>12, <1>13, Zenon DEF CanvasNext

\* Where a track stands, told from every other.
LEMMA RankIs == ASSUME OrderIs, NEW i \in DOMAIN Tracks PROVE Rank(i) \in Nat
<1>1. DOMAIN order = 1..Len(order) /\ Len(order) \in Nat /\ ToSet(order) = {order[k] : k \in 1..Len(order)}
  BY ItemsOf DEF OrderIs
<1>2. i \in Nat
  BY TracksAre
<1>3. CASE Tracks[i].id \in ToSet(order)
  <2> DEFINE those == {k \in 1..Len(order) : order[k] = Tracks[i].id}
  <2>1. those \subseteq 1..Len(order) /\ those # {}
    BY <1>1, <1>3
  <2>2. PICK k \in those : \A j \in those : j <= k
    <3> HIDE DEF those
    <3>1. QED
      BY <1>1, <2>1, MaxBelongs
  <2>3. \E m \in DOMAIN order : /\ order[m] = Tracks[i].id
                                /\ \A j \in DOMAIN order : order[j] = order[m] => j <= m
    BY <1>1, <2>2
  <2>4. Rank(i) \in DOMAIN order
    BY <1>3, <2>3, Zenon DEF Rank
  <2>5. QED
    BY <1>1, <2>4
<1>4. CASE Tracks[i].id \notin ToSet(order)
  BY <1>1, <1>2, <1>4 DEF Rank
<1>5. QED
  BY <1>3, <1>4

\* How many come before a track is its place, and no other's.
Earlier(i) == {j \in DOMAIN Tracks : Before(j, i)}

LEMMA PlacesDiffer ==
    ASSUME OrderIs
    PROVE  /\ \A i \in DOMAIN Tracks : Cardinality(Earlier(i)) + 1 \in DOMAIN Tracks
           /\ \A i, j \in DOMAIN Tracks : Cardinality(Earlier(i)) = Cardinality(Earlier(j)) => i = j
<1>1. Len(Tracks) \in Nat /\ DOMAIN Tracks = 1..Len(Tracks) /\ DOMAIN Tracks \subseteq Nat
  BY TracksAre
<1>2. IsFiniteSet(DOMAIN Tracks) /\ Cardinality(DOMAIN Tracks) = Len(Tracks)
  BY <1>1, FS_Interval
<1>3. \A i \in DOMAIN Tracks : Rank(i) \in Nat
  BY RankIs
<1>4. ASSUME NEW i \in DOMAIN Tracks
      PROVE  IsFiniteSet(Earlier(i)) /\ Cardinality(Earlier(i)) \in Nat /\ i \notin Earlier(i)
  <2>1. Earlier(i) \subseteq DOMAIN Tracks
    BY DEF Earlier
  <2>2. ~Before(i, i)
    BY <1>1, <1>3 DEF Before
  <2>3. QED
    BY <1>2, <2>1, <2>2, FS_Subset, FS_CardinalityType DEF Earlier
<1>5. ASSUME NEW i \in DOMAIN Tracks PROVE Cardinality(Earlier(i)) + 1 \in DOMAIN Tracks
  <2>1. Earlier(i) \subseteq DOMAIN Tracks /\ Earlier(i) # DOMAIN Tracks
    BY <1>4 DEF Earlier
  <2>2. Cardinality(Earlier(i)) <= Len(Tracks) /\ Cardinality(Earlier(i)) # Len(Tracks)
    BY <1>2, <2>1, FS_Subset
  <2>3. QED
    BY <1>1, <1>4, <2>2
<1>6. ASSUME NEW i \in DOMAIN Tracks, NEW j \in DOMAIN Tracks, Before(i, j)
      PROVE  Cardinality(Earlier(i)) # Cardinality(Earlier(j))
  <2>1. ASSUME NEW m \in Earlier(i) PROVE m \in Earlier(j)
    <3>1. m \in DOMAIN Tracks /\ Before(m, i)
      BY DEF Earlier
    <3>2. Before(m, j)
      BY <1>1, <1>3, <1>6, <3>1 DEF Before
    <3>3. QED
      BY <3>1, <3>2 DEF Earlier
  <2>2. Earlier(i) \subseteq Earlier(j) /\ i \in Earlier(j) /\ i \notin Earlier(i)
    BY <1>4, <1>6, <2>1 DEF Earlier
  <2>3. QED
    BY <1>4, <2>2, FS_Subset
<1>7. ASSUME NEW i \in DOMAIN Tracks, NEW j \in DOMAIN Tracks, i # j PROVE Before(i, j) \/ Before(j, i)
  BY <1>1, <1>3, <1>7 DEF Before
<1>8. QED
  BY <1>5, <1>6, <1>7

LEMMA OnlyTracksArePlaced ==
    ASSUME OrderIs, NEW k \in DOMAIN Tracks
    PROVE  \E i \in DOMAIN Tracks : Cardinality(Earlier(i)) = k - 1
<1> DEFINE place == [i \in DOMAIN Tracks |-> Cardinality(Earlier(i)) + 1]
<1>1. IsFiniteSet(DOMAIN Tracks) /\ DOMAIN Tracks \subseteq Nat
  BY TracksAre, FS_Interval
<1>2. \A i \in DOMAIN Tracks : Cardinality(Earlier(i)) \in Nat
  <2>1. \A i \in DOMAIN Tracks : Earlier(i) \subseteq DOMAIN Tracks
    BY DEF Earlier
  <2>2. QED
    BY <1>1, <2>1, FS_Subset, FS_CardinalityType
<1>3. \A i \in DOMAIN Tracks : place[i] \in DOMAIN Tracks
  BY PlacesDiffer
<1>4. place \in [DOMAIN Tracks -> DOMAIN Tracks]
  BY <1>3
<1>5. ASSUME NEW i \in DOMAIN Tracks, NEW j \in DOMAIN Tracks, place[i] = place[j] PROVE i = j
  <2>1. Cardinality(Earlier(i)) = Cardinality(Earlier(j))
    BY <1>2, <1>5
  <2>2. QED
    BY <2>1, PlacesDiffer
<1>6. place \in Injection(DOMAIN Tracks, DOMAIN Tracks)
  <2> HIDE DEF place
  <2>1. QED
    BY <1>4, <1>5 DEF Injection, IsInjective
<1>7. place \in Surjection(DOMAIN Tracks, DOMAIN Tracks)
  <2> HIDE DEF place
  <2>1. QED
    BY <1>1, <1>6, FS_Injection
<1>8. PICK i \in DOMAIN Tracks : place[i] = k
  <2> HIDE DEF place
  <2>1. QED
    BY <1>7 DEF Surjection
<1>9. Cardinality(Earlier(i)) = k - 1
  BY <1>1, <1>2, <1>8
<1>10. QED
  BY <1>9

LEMMA EveryTrackHasAPlace ==
    ASSUME OrderIs
    PROVE  /\ \A k \in DOMAIN Tracks : Ordered[k] \in DOMAIN Tracks
           /\ \A i \in DOMAIN Tracks : \E k \in DOMAIN Tracks : Ordered[k] = i
<1>1. ASSUME NEW k \in DOMAIN Tracks
      PROVE  Ordered[k] \in DOMAIN Tracks /\ Cardinality(Earlier(Ordered[k])) = k - 1
  <2>1. Ordered[k] = CHOOSE i \in DOMAIN Tracks : Cardinality(Earlier(i)) = k - 1
    BY Zenon DEF Ordered, Earlier
  <2>2. \E i \in DOMAIN Tracks : Cardinality(Earlier(i)) = k - 1
    BY OnlyTracksArePlaced
  <2>3. QED
    BY <2>1, <2>2, Zenon
<1>2. ASSUME NEW i \in DOMAIN Tracks PROVE \E k \in DOMAIN Tracks : Ordered[k] = i
  <2> DEFINE n == Cardinality(Earlier(i))
             k == n + 1
  <2>1. k \in DOMAIN Tracks
    BY PlacesDiffer
  <2>2. n \in Nat
    <3>1. IsFiniteSet(DOMAIN Tracks)
      BY TracksAre, FS_Interval
    <3>2. Earlier(i) \subseteq DOMAIN Tracks
      BY DEF Earlier
    <3>3. QED
      BY <3>1, <3>2, FS_Subset, FS_CardinalityType
  <2> HIDE DEF n
  <2>3. Ordered[k] \in DOMAIN Tracks /\ Cardinality(Earlier(Ordered[k])) = Cardinality(Earlier(i))
    BY <1>1, <2>1, <2>2 DEF n
  <2>4. Ordered[k] = i
    BY <2>3, PlacesDiffer
  <2>5. QED
    BY <2>1, <2>4
<1>3. QED
  BY <1>1, <1>2

\* All of them, one after the other.
Joined(a, b) == a \o b

LEMMA JoinedIs ==
    ASSUME NEW S, NEW a \in Seq(S), NEW b \in Seq(S)
    PROVE  /\ Joined(a, b) \in Seq(S) /\ Len(Joined(a, b)) = Len(a) + Len(b)
           /\ \A q \in 1..(Len(a) + Len(b)) : Joined(a, b)[q] = IF q <= Len(a) THEN a[q] ELSE b[q - Len(a)]
  BY ConcatProperties DEF Joined

LEMMA FlattenLoop ==
    ASSUME NEW S, NEW seqs \in Seq(Seq(S))
    PROVE  \E out \in [0..Len(seqs) -> Seq(S)] :
              /\ out[0] = <<>>
              /\ \A k \in 1..Len(seqs) : out[k] = Joined(out[k - 1], seqs[k])
              /\ FlattenSeq(seqs) = out[Len(seqs)]
<1> DEFINE n == Len(seqs)
           All == Seq(S)
           step == [p \in (1..n) \X All |-> Joined(p[2], seqs[p[1]])]
           Runs(out) == out = [k \in 1..n |-> IF k = 1 THEN seqs[k] ELSE Joined(out[k - 1], seqs[k])]
           out0 == CHOOSE out : Runs(out)
<1>1. n \in Nat /\ \A k \in 1..n : seqs[k] \in All
  OBVIOUS
<1>2. step \in [(1..n) \X All -> All]
  <2>1. \A k \in 1..n : \A m \in All : Joined(m, seqs[k]) \in All
    BY <1>1, JoinedIs
  <2> HIDE DEF All, n
  <2>2. QED
    BY <2>1
<1>3. \A k \in 1..n : \A m \in All : step[<<k, m>>] = Joined(m, seqs[k])
  OBVIOUS
<1>4. <<>> \in All
  BY EmptySeq
<1>5. n # 0 => FlattenSeq(seqs) = out0[n]
  BY Zenon DEF FlattenSeq, Joined
<1>6. n = 0 => FlattenSeq(seqs) = <<>>
  BY DEF FlattenSeq
<1>7. \A q \in All : Joined(<<>>, q) = q
  BY DEF Joined
<1> HIDE DEF n, step, All
<1>8. PICK out \in [0..n -> All] : out[0] = <<>> /\ \A k \in 1..n : out[k] = step[<<k, out[k - 1]>>]
  <2>1. \E out \in [0..n -> All] : Turns(n, <<>>, step, out)
    BY <1>1, <1>2, <1>4, LoopExists
  <2>2. QED
    BY <2>1 DEF Turns
<1>9. \A k \in 1..n : k - 1 \in 0..n /\ out[k - 1] \in All /\ out[k] = Joined(out[k - 1], seqs[k])
  <2>1. \A k \in 1..n : k - 1 \in 0..n
    BY <1>1
  <2>2. QED
    BY <1>3, <1>8, <2>1
<1>10. \E o : Runs(o)
  <2> DEFINE o == [k \in 1..n |-> out[k]]
  <2>1. \A k \in 1..n : out[k] = IF k = 1 THEN seqs[k] ELSE Joined(o[k - 1], seqs[k])
    <3>1. ASSUME NEW k \in 1..n, k # 1 PROVE o[k - 1] = out[k - 1]
      BY <1>1, <3>1
    <3>2. ASSUME 1 \in 1..n PROVE out[1] = seqs[1]
      BY <1>1, <1>7, <1>8, <1>9, <3>2
    <3>3. QED
      BY <1>9, <3>1, <3>2
  <2>2. Runs(o)
    BY <2>1
  <2> HIDE DEF Runs, o
  <2>3. QED
    BY <2>2
<1>11. Runs(out0)
  <2> HIDE DEF Runs
  <2>1. QED
    BY <1>10
<1> HIDE DEF out0
<1>12. \A k \in 1..n : out0[k] = IF k = 1 THEN seqs[k] ELSE Joined(out0[k - 1], seqs[k])
  BY <1>1, <1>11
<1>13. FlattenSeq(seqs) = out[n]
  <2> DEFINE T == {k \in 0..n : k = 0 \/ out0[k] = out[k]}
  <2>1. 0 \in T
    BY <1>1
  <2>2. ASSUME NEW k \in 1..n, k - 1 \in T PROVE k \in T
    <3>1. k \in 0..n /\ out[k] = Joined(out[k - 1], seqs[k]) /\ seqs[k] \in All
      BY <1>1, <1>9
    <3>2. CASE k = 1
      <4>1. out0[k] = seqs[k]
        BY <1>12, <3>2
      <4>2. out[k] = seqs[k]
        BY <1>7, <1>8, <3>1, <3>2
      <4>3. QED
        BY <3>1, <4>1, <4>2
    <3>3. CASE k # 1
      <4>1. out0[k] = Joined(out0[k - 1], seqs[k])
        BY <1>12, <3>3
      <4>2. k - 1 # 0
        BY <3>3
      <4>3. out0[k - 1] = out[k - 1]
        BY <2>2, <4>2
      <4>4. QED
        BY <3>1, <4>1, <4>3
    <3>4. QED
      BY <3>2, <3>3
  <2> HIDE DEF T
  <2>3. 0..n \subseteq T
    BY <1>1, <2>1, <2>2, StepByStep
  <2>4. n = 0 \/ out0[n] = out[n]
    BY <1>1, <2>3 DEF T
  <2>5. QED
    BY <1>5, <1>6, <1>8, <2>4
<1>14. QED
  BY <1>8, <1>9, <1>13 DEF n, All

LEMMA JoinedHolds ==
    ASSUME NEW S, NEW a \in Seq(S), NEW b \in Seq(S)
    PROVE  ToSet(Joined(a, b)) = ToSet(a) \cup ToSet(b)
<1> DEFINE j == Joined(a, b)
<1>1. /\ j \in Seq(S) /\ Len(j) = Len(a) + Len(b) /\ Len(a) \in Nat /\ Len(b) \in Nat
      /\ \A q \in 1..(Len(a) + Len(b)) : j[q] = IF q <= Len(a) THEN a[q] ELSE b[q - Len(a)]
  <2>1. Len(a) \in Nat /\ Len(b) \in Nat
    OBVIOUS
  <2>2. QED
    BY <2>1, JoinedIs, Zenon
<1> HIDE DEF j
<1>2. /\ ToSet(j) = {j[q] : q \in 1..(Len(a) + Len(b))}
      /\ ToSet(a) = {a[q] : q \in 1..Len(a)} /\ ToSet(b) = {b[q] : q \in 1..Len(b)}
  BY <1>1, ItemsOf
<1>3. ASSUME NEW q \in 1..(Len(a) + Len(b)) PROVE j[q] \in ToSet(a) \cup ToSet(b)
  <2>1. CASE q <= Len(a)
    BY <1>1, <1>2, <2>1
  <2>2. CASE ~(q <= Len(a))
    <3>1. q - Len(a) \in 1..Len(b)
      BY <1>1, <2>2
    <3>2. QED
      BY <1>1, <1>2, <2>2, <3>1
  <2>3. QED
    BY <2>1, <2>2
<1>4. ASSUME NEW q \in 1..Len(a) PROVE a[q] \in ToSet(j)
  <2>1. q \in 1..(Len(a) + Len(b)) /\ q <= Len(a)
    BY <1>1
  <2>2. QED
    BY <1>1, <1>2, <2>1
<1>5. ASSUME NEW q \in 1..Len(b) PROVE b[q] \in ToSet(j)
  <2>1. q + Len(a) \in 1..(Len(a) + Len(b)) /\ ~(q + Len(a) <= Len(a)) /\ (q + Len(a)) - Len(a) = q
    BY <1>1
  <2>2. j[q + Len(a)] = b[q]
    BY <1>1, <2>1
  <2>3. QED
    BY <1>2, <2>1, <2>2
<1>6. ToSet(j) = ToSet(a) \cup ToSet(b)
  BY <1>2, <1>3, <1>4, <1>5
<1>7. QED
  BY <1>6 DEF j

LEMMA FlatHolds ==
    ASSUME NEW S, NEW seqs \in Seq(Seq(S))
    PROVE  /\ FlattenSeq(seqs) \in Seq(S)
           /\ ToSet(FlattenSeq(seqs)) = UNION {ToSet(seqs[k]) : k \in 1..Len(seqs)}
<1> DEFINE n == Len(seqs)
           UpTo(m) == UNION {ToSet(seqs[k]) : k \in 1..m}
<1>1. PICK out \in [0..n -> Seq(S)] : /\ out[0] = <<>> /\ \A m \in 1..n : out[m] = Joined(out[m - 1], seqs[m])
                                      /\ FlattenSeq(seqs) = out[n]
  BY FlattenLoop
<1>2. n \in Nat /\ (\A m \in 1..n : seqs[m] \in Seq(S))
  OBVIOUS
<1>3. UpTo(0) = {}
  OBVIOUS
<1>4. ASSUME NEW m \in 1..n PROVE UpTo(m) = UpTo(m - 1) \cup ToSet(seqs[m])
  <2>1. n \in Int
    OBVIOUS
  <2> HIDE DEF n
  <2>2. 1..m = (1..(m - 1)) \cup {m}
    BY <2>1
  <2>3. QED
    BY <2>2
<1> HIDE DEF n, UpTo
<1>5. \A m \in 0..n : out[m] \in Seq(S)
  OBVIOUS
<1> DEFINE T == {m \in 0..n : ToSet(out[m]) = UpTo(m)}
<1>6. 0 \in T
  <2>1. ToSet(<<>>) = {}
    BY DEF ToSet
  <2>2. out[0] = <<>>
    BY <1>1, Zenon
  <2>3. 0 \in 0..n
    BY <1>2
  <2>4. QED
    BY <1>3, <2>1, <2>2, <2>3
<1>7. ASSUME NEW m \in 1..n, m - 1 \in T PROVE m \in T
  <2>1. m - 1 \in 0..n /\ m \in 0..n
    BY <1>2
  <2>2. out[m - 1] \in Seq(S) /\ seqs[m] \in Seq(S) /\ out[m] = Joined(out[m - 1], seqs[m])
    BY <1>1, <1>2, <1>5, <2>1, Zenon
  <2>3. ToSet(out[m]) = ToSet(out[m - 1]) \cup ToSet(seqs[m])
    BY <2>2, JoinedHolds, ZenonT(60)
  <2>4. ToSet(out[m - 1]) = UpTo(m - 1)
    BY <1>7
  <2>5. QED
    BY <1>4, <2>1, <2>3, <2>4
<1>8. n \in T
  <2> HIDE DEF T
  <2>1. 0..n \subseteq T
    BY <1>2, <1>6, <1>7, StepByStep
  <2>2. QED
    BY <1>2, <2>1
<1>9. out[n] \in Seq(S) /\ ToSet(out[n]) = UpTo(n)
  BY <1>2, <1>5, <1>8
<1>10. QED
  BY <1>1, <1>9 DEF n, UpTo

\* What each track has: one row for its cues, or its lanes, with a summary over them
\* when there are two or more, and then only when they are unfolded.
SomeRow == {Row(j, ch, draw, h) : j \in DOMAIN Tracks, ch \in {"none"} \cup Channels,
                draw \in {"cues", "curve", "summary"}, h \in Nat \ {0}}
Summary(i) == Row(i, "none", "summary", RowCollapsed)
RowSet(i) ==
    LET lanes == {Row(i, ch, "curve", RowChannel) : ch \in ToSet(Tracks[i].channels)}
    IN IF ~Tracks[i].curve THEN {Row(i, "none", "cues", RowCue)}
       ELSE IF Len(Tracks[i].channels) < 2 THEN lanes
       ELSE {Summary(i)} \cup (IF Tracks[i].id \in collapsed THEN {} ELSE lanes)

LEMMA RowsOfHolds ==
    ASSUME NEW i \in DOMAIN Tracks
    PROVE  RowsOf(i) \in Seq(SomeRow) /\ ToSet(RowsOf(i)) = RowSet(i)
<1> DEFINE lanes == {Row(i, ch, "curve", RowChannel) : ch \in ToSet(Tracks[i].channels)}
           head == <<Summary(i)>>
           one == <<Row(i, "none", "cues", RowCue)>>
<1>1. \A ch \in {"none"} \cup Channels : \A draw \in {"cues", "curve", "summary"} :
         \A h \in {RowCue, RowChannel, RowCollapsed} : Row(i, ch, draw, h) \in SomeRow
  BY CanvasAssumption DEF SomeRow
<1>2. Lanes(i) \in Seq(SomeRow) /\ ToSet(Lanes(i)) = lanes
  <2> DEFINE names == Tracks[i].channels
  <2>1. names \in Seq(Channels)
    BY TracksAre
  <2> HIDE DEF names
  <2>2. DOMAIN names = 1..Len(names) /\ Len(names) \in Nat /\ ToSet(names) = {names[k] : k \in 1..Len(names)}
    BY <2>1, ItemsOf
  <2>3. Lanes(i) = [k \in 1..Len(names) |-> Row(i, names[k], "curve", RowChannel)]
    BY <2>2 DEF Lanes, names
  <2>4. \A k \in 1..Len(names) : Row(i, names[k], "curve", RowChannel) \in SomeRow
    <3>1. \A k \in 1..Len(names) : names[k] \in Channels
      BY <2>1
    <3>2. QED
      BY <1>1, <3>1
  <2>5. Lanes(i) \in Seq(SomeRow)
    BY <2>2, <2>3, <2>4
  <2>6. ToSet(Lanes(i)) = {Row(i, names[k], "curve", RowChannel) : k \in 1..Len(names)}
    BY <2>3 DEF ToSet
  <2>7. QED
    BY <2>2, <2>5, <2>6 DEF names
<1>3. /\ head \in Seq(SomeRow) /\ ToSet(head) = {Summary(i)}
      /\ one \in Seq(SomeRow) /\ ToSet(one) = {Row(i, "none", "cues", RowCue)}
      /\ <<>> \in Seq(SomeRow) /\ ToSet(<<>>) = {}
  <2>1. Summary(i) \in SomeRow /\ Row(i, "none", "cues", RowCue) \in SomeRow
    BY <1>1 DEF Summary
  <2>2. \A e : ToSet(<<e>>) = {e}
    BY DEF ToSet
  <2>3. QED
    BY <2>1, <2>2 DEF ToSet
<1> HIDE DEF head, one, lanes
<1>4. /\ Joined(head, <<>>) \in Seq(SomeRow) /\ ToSet(Joined(head, <<>>)) = {Summary(i)}
      /\ Joined(head, Lanes(i)) \in Seq(SomeRow) /\ ToSet(Joined(head, Lanes(i))) = {Summary(i)} \cup lanes
  <2>1. Joined(head, <<>>) \in Seq(SomeRow) /\ Joined(head, Lanes(i)) \in Seq(SomeRow)
    BY <1>2, <1>3, JoinedIs, Zenon
  <2>2. /\ ToSet(Joined(head, <<>>)) = ToSet(head) \cup ToSet(<<>>)
        /\ ToSet(Joined(head, Lanes(i))) = ToSet(head) \cup ToSet(Lanes(i))
    <3>1. \A a, b \in Seq(SomeRow) : ToSet(Joined(a, b)) = ToSet(a) \cup ToSet(b)
      BY JoinedHolds
    <3>2. head \in Seq(SomeRow) /\ <<>> \in Seq(SomeRow) /\ Lanes(i) \in Seq(SomeRow)
      BY <1>2, <1>3
    <3>3. QED
      BY <3>1, <3>2
  <2>3. \A a : a \cup {} = a
    OBVIOUS
  <2>4. ToSet(Joined(head, <<>>)) = {Summary(i)}
    BY <1>3, <2>2, <2>3, Zenon
  <2>5. ToSet(Joined(head, Lanes(i))) = {Summary(i)} \cup lanes
    BY <1>2, <1>3, <2>2, Zenon
  <2>6. QED
    BY <2>1, <2>4, <2>5, Zenon
<1>5. RowsOf(i) = IF ~Tracks[i].curve THEN one
                  ELSE IF Len(Tracks[i].channels) < 2 THEN Lanes(i)
                  ELSE Joined(head, IF Tracks[i].id \in collapsed THEN <<>> ELSE Lanes(i))
  BY DEF RowsOf, Joined, head, one, Summary
<1>6. RowSet(i) = IF ~Tracks[i].curve THEN {Row(i, "none", "cues", RowCue)}
                  ELSE IF Len(Tracks[i].channels) < 2 THEN lanes
                  ELSE {Summary(i)} \cup (IF Tracks[i].id \in collapsed THEN {} ELSE lanes)
  BY Zenon DEF RowSet, lanes
<1>7. QED
  BY <1>2, <1>3, <1>4, <1>5, <1>6

LEMMA RowsHold ==
    ASSUME OrderIs
    PROVE  Rows \in Seq(SomeRow) /\ ToSet(Rows) = UNION {RowSet(i) : i \in DOMAIN Tracks}
<1> DEFINE seqs == [k \in DOMAIN Tracks |-> RowsOf(Ordered[k])]
<1>1. \A k \in DOMAIN Tracks : /\ Ordered[k] \in DOMAIN Tracks /\ RowsOf(Ordered[k]) \in Seq(SomeRow)
                               /\ ToSet(RowsOf(Ordered[k])) = RowSet(Ordered[k])
  BY EveryTrackHasAPlace, RowsOfHolds
<1>2. /\ Len(seqs) = Len(Tracks) /\ seqs \in Seq(Seq(SomeRow)) /\ DOMAIN Tracks = 1..Len(Tracks)
      /\ \A k \in DOMAIN Tracks : seqs[k] = RowsOf(Ordered[k])
  BY <1>1, TracksAre
<1>3. Rows = FlattenSeq(seqs)
  BY DEF Rows
<1> HIDE DEF seqs
<1>4. FlattenSeq(seqs) \in Seq(SomeRow) /\ ToSet(FlattenSeq(seqs)) = UNION {ToSet(seqs[k]) : k \in 1..Len(seqs)}
  BY <1>2, FlatHolds
<1>5. \A k \in DOMAIN Tracks : ToSet(seqs[k]) = RowSet(Ordered[k])
  BY <1>1, <1>2
<1>6. UNION {ToSet(seqs[k]) : k \in DOMAIN Tracks} = UNION {RowSet(i) : i \in DOMAIN Tracks}
  <2>1. \A k \in DOMAIN Tracks : Ordered[k] \in DOMAIN Tracks
    BY <1>1
  <2>2. \A i \in DOMAIN Tracks : \E k \in DOMAIN Tracks : Ordered[k] = i
    BY EveryTrackHasAPlace
  <2> DEFINE a == {ToSet(seqs[k]) : k \in DOMAIN Tracks}
             b == {RowSet(i) : i \in DOMAIN Tracks}
  <2>3. ASSUME NEW k \in DOMAIN Tracks PROVE ToSet(seqs[k]) \in b
    BY <1>5, <2>1
  <2>4. ASSUME NEW i \in DOMAIN Tracks PROVE RowSet(i) \in a
    BY <1>5, <2>2
  <2>5. a = b
    BY <2>3, <2>4
  <2>6. QED
    BY <2>5
<1>7. QED
  BY <1>2, <1>3, <1>4, <1>6

\* A track of cues has one row, where they can be had.
LEMMA CuesHaveARow ==
    ASSUME OrderIs, NEW i \in DOMAIN Tracks, ~Tracks[i].curve
    PROVE  \E n \in 1..Len(Rows) : Rows[n] = Row(i, "none", "cues", RowCue)
<1>1. Row(i, "none", "cues", RowCue) \in RowSet(i)
  BY DEF RowSet
<1>2. Row(i, "none", "cues", RowCue) \in ToSet(Rows)
  BY <1>1, RowsHold
<1>3. ToSet(Rows) = {Rows[n] : n \in 1..Len(Rows)}
  BY RowsHold, ItemsOf
<1>4. QED
  BY <1>2, <1>3

-----------------------------------------------------------------------------
(* The timeline: what is under the pointer *)

\* A band over everything has every cue that is drawn.
LEMMA BandHasAll ==
    ASSUME WindowInv, ScenesAre, OrderIs, NEW i \in DOMAIN Tracks, ~Tracks[i].curve
    PROVE  {i} \X DrawnCues(i) \subseteq HitRange(0, Width, 1, Len(Rows))
<1> DEFINE within(j, ch) == {k \in DOMAIN scene[j] : /\ scene[j][k].end >= start /\ scene[j][k].t <= End
                                                     /\ ch = "none" \/ ch \in DOMAIN scene[j][k].v}
           row == Row(i, "none", "cues", RowCue)
           N == {n \in 1..Len(Rows) : Rows[n].editable}
<1>1. Lesser(0, Width) = 0 /\ Greater(0, Width) = Width /\ start \in Int /\ span \in Nat \ {0}
  BY MinSpanIs, WindowIs DEF Lesser, Greater
<1>2. TimeAt(0) = start /\ TimeAt(Width) = End
  <2>1. \A w \in Nat \ {0} : \A n \in Nat : (0 * n) \div w = 0 /\ (w * n) \div w = n
    OBVIOUS
  <2>2. QED
    BY <1>1, <2>1, MinSpanIs DEF TimeAt, End
<1>3. HitRange(0, Width, 1, Len(Rows)) = UNION {{Rows[n].track} \X within(Rows[n].track, Rows[n].channel) : n \in N}
  BY <1>1, <1>2 DEF HitRange
<1>4. PICK n \in 1..Len(Rows) : Rows[n] = row
  BY CuesHaveARow
<1>5. row.track = i /\ row.channel = "none" /\ row.editable
  BY DEF Row
<1>6. n \in N
  BY <1>4, <1>5
<1>7. DrawnCues(i) \subseteq within(i, "none")
  BY DEF DrawnCues, Intersects
<1> HIDE DEF within, N, row
<1>8. {i} \X DrawnCues(i) \subseteq {Rows[n].track} \X within(Rows[n].track, Rows[n].channel)
  BY <1>4, <1>5, <1>7
<1>9. QED
  BY <1>3, <1>6, <1>8

\* What is in a lane is on the track, and has its channel.
LEMMA LaneIsOfTrack ==
    ASSUME ScenesAre, NEW i \in DOMAIN Tracks, NEW ch, NEW k \in DOMAIN Lane(i, ch)
    PROVE  \E m \in DOMAIN scene[i] : Lane(i, ch)[k] = scene[i][m] /\ ch \in DOMAIN scene[i][m].v
<1> DEFINE n == Len(scene[i])
           Here(p) == \E m \in 1..n : p = scene[i][m] /\ ch \in DOMAIN scene[i][m].v
<1>1. /\ scene[i] \in Seq(Marks) /\ n \in Nat /\ DOMAIN scene[i] = 1..n
      /\ \A m \in 1..n : scene[i][m] \in Marks
  BY EventIs
<1>2. PICK out \in [0..n -> Seq(Marks)] :
         /\ out[0] = <<>>
         /\ \A m \in 1..n : out[m] = Holding(i, ch, m, out[m - 1])
         /\ Lane(i, ch) = out[n]
  BY <1>1, LaneLoop
<1>3. \A m \in 1..n : ch \in DOMAIN scene[i][m].v => Here(scene[i][m])
  OBVIOUS
<1> HIDE DEF n, Here
<1> DEFINE T == {m \in 0..n : \A j \in 1..Len(out[m]) : Here(out[m][j])}
<1>4. 0 \in T
  BY <1>1, <1>2
<1>5. ASSUME NEW m \in 1..n, m - 1 \in T PROVE m \in T
  <2> DEFINE r == out[m - 1]
             q == out[m]
             x == scene[i][m]
  <2>1. m - 1 \in 0..n /\ m \in 0..n
    BY <1>1
  <2>2. r \in Seq(Marks) /\ x \in Marks /\ \A j \in 1..Len(r) : Here(r[j])
    BY <1>1, <1>2, <1>5
  <2>3. q = Holding(i, ch, m, r)
    BY <1>2
  <2> HIDE DEF q, r
  <2>4. \A j \in 1..Len(q) : Here(q[j])
    <3>1. CASE ch \notin DOMAIN x.v
      BY <2>2, <2>3, <3>1 DEF Holding
    <3>2. CASE ch \in DOMAIN x.v
      <4>1. Here(x)
        BY <1>3, <3>2
      <4> HIDE DEF x
      <4>2. q = Append(r, x)
        BY <2>3, <3>2 DEF Holding, x
      <4>3. Len(q) = Len(r) + 1 /\ (\A j \in 1..Len(r) : q[j] = r[j]) /\ q[Len(r) + 1] = x
        BY <2>2, <4>2, OneLonger
      <4>4. \A j \in 1..Len(q) : j = Len(r) + 1 \/ j \in 1..Len(r)
        BY <2>2, <4>3
      <4>5. QED
        BY <2>2, <4>1, <4>3, <4>4
    <3>3. QED
      BY <3>1, <3>2
  <2>5. QED
    BY <2>1, <2>4 DEF q
<1>6. n \in T
  <2> HIDE DEF T
  <2>1. 0..n \subseteq T
    BY <1>1, <1>4, <1>5, StepByStep
  <2>2. QED
    BY <1>1, <2>1
<1>7. Here(Lane(i, ch)[k])
  <2>1. Lane(i, ch) = out[n] /\ out[n] \in Seq(Marks)
    BY <1>1, <1>2
  <2>2. k \in 1..Len(out[n])
    BY <2>1
  <2>3. QED
    BY <1>6, <2>1, <2>2
<1>8. QED
  BY <1>1, <1>7 DEF Here

\* How far off a point is, squared.
Apart(i, ch, x, y, k) ==
    (X(scene[i][k].t) - x) * (X(scene[i][k].t) - x) + (Y(scene[i][k].v[ch]) - y) * (Y(scene[i][k].v[ch]) - y)

LEMMA HeightIs == ASSUME NEW e \in Marks, NEW ch \in DOMAIN e.v PROVE Y(e.v[ch]) \in Int
<1>1. e.v \in UNION {[c -> 0..4] : c \in SUBSET Channels}
  BY DEF Marks
<1>2. PICK c \in SUBSET Channels : e.v \in [c -> 0..4]
  BY <1>1
<1>3. e.v[ch] \in 0..4
  BY <1>2
<1> DEFINE v == e.v[ch]
<1>4. v \in Int /\ RowChannel \in Int
  BY <1>3, CanvasAssumption
<1> HIDE DEF v
<1>5. v * RowChannel \in Int
  BY <1>4
<1>6. (v * RowChannel) \div 4 \in Int
  BY <1>5, QuotientIs
<1>7. QED
  BY <1>4, <1>6 DEF Y, v

LEMMA SquaresAre ==
    /\ \A a, b \in Int : a * a + b * b \in Nat
    /\ \A a, b \in Int : a * a + b * b = 0 => a = 0 /\ b = 0
<1>1. \A a \in Int : a * a \in Nat /\ (a * a = 0 => a = 0)
  OBVIOUS
<1>2. QED
  BY <1>1

\* The last of the nearest.
LEMMA LastOfLeast ==
    ASSUME NEW n \in Nat, NEW near, near \subseteq 1..n, near # {}, NEW far, \A k \in near : far[k] \in Nat
    PROVE  \E k \in near : \A j \in near : far[k] < far[j] \/ (far[k] = far[j] /\ j <= k)
<1> DEFINE fars == {far[k] : k \in near}
           least == Min(fars)
           those == {k \in near : far[k] = least}
<1>1. fars \subseteq Nat /\ fars # {}
  OBVIOUS
<1>2. least \in fars /\ \A y \in fars : least <= y
  BY <1>1, MinBelongs
<1>3. those \subseteq 1..n /\ those # {}
  BY <1>2
<1>4. PICK last \in those : \A j \in those : j <= last
  <2> HIDE DEF those
  <2>1. QED
    BY <1>3, MaxBelongs
<1>5. \A k \in near : least \in Nat /\ far[k] \in Nat /\ least <= far[k]
  BY <1>1, <1>2
<1> HIDE DEF fars, least
<1>6. ASSUME NEW j \in near PROVE far[last] < far[j] \/ (far[last] = far[j] /\ j <= last)
  <2>1. far[last] = least /\ least <= far[j] /\ least \in Nat /\ far[j] \in Nat
    BY <1>5
  <2>2. CASE far[j] = least
    BY <1>4, <2>1, <2>2
  <2>3. CASE far[j] # least
    BY <2>1, <2>3
  <2>4. QED
    BY <2>2, <2>3
<1>7. QED
  BY <1>4, <1>6

\* Where a point lies that is seen, one that lies there is had.
LEMMA PointIsHad ==
    ASSUME WindowInv, ScenesAre, NEW i \in DOMAIN Tracks, NEW ch, NEW m \in DOMAIN scene[i],
           ch \in DOMAIN scene[i][m].v, Inside(scene[i][m].t)
    PROVE  LET had == HitPoint(i, ch, X(scene[i][m].t), Y(scene[i][m].v[ch]))
           IN /\ had # 0
              /\ X(scene[i][had].t) = X(scene[i][m].t) /\ Y(scene[i][had].v[ch]) = Y(scene[i][m].v[ch])
<1> DEFINE x == X(scene[i][m].t)
           y == Y(scene[i][m].v[ch])
           far == [k \in DOMAIN scene[i] |-> Apart(i, ch, x, y, k)]
           near == {k \in DOMAIN scene[i] :
                       /\ ch \in DOMAIN scene[i][k].v
                       /\ Intersects(scene[i][k].t, scene[i][k].t)
                       /\ Distance(X(scene[i][k].t), x) <= Grab /\ Apart(i, ch, x, y, k) <= Grab * Grab}
           had == CHOOSE k \in near : \A j \in near :
                      Apart(i, ch, x, y, k) < Apart(i, ch, x, y, j)
                      \/ (Apart(i, ch, x, y, k) = Apart(i, ch, x, y, j) /\ j <= k)
<1>1. Len(scene[i]) \in Nat /\ DOMAIN scene[i] = 1..Len(scene[i]) /\ \A k \in DOMAIN scene[i] : scene[i][k] \in Marks
  BY EventIs
<1>2. HitPoint(i, ch, x, y) = IF near = {} THEN 0 ELSE had
  BY Zenon DEF HitPoint, Apart
<1>3. ASSUME NEW k \in DOMAIN scene[i], ch \in DOMAIN scene[i][k].v
      PROVE  X(scene[i][k].t) \in Int /\ Y(scene[i][k].v[ch]) \in Int
  <2>1. scene[i][k].t \in Int
    BY <1>1 DEF Marks
  <2>2. QED
    BY <1>1, <1>3, <2>1, PixelIs, HeightIs
<1>4. x \in Int /\ y \in Int /\ Grab \in Nat
  BY <1>3, CanvasAssumption
<1>5. Apart(i, ch, x, y, m) = 0
  <2>1. X(scene[i][m].t) - x = 0 /\ Y(scene[i][m].v[ch]) - y = 0
    BY <1>4
  <2>2. QED
    BY <2>1 DEF Apart
<1>6. m \in near
  <2>1. Distance(x, x) = 0 /\ 0 <= Grab * Grab
    BY <1>4 DEF Distance
  <2>2. Intersects(scene[i][m].t, scene[i][m].t)
    BY DEF Inside, Intersects
  <2>3. QED
    BY <1>4, <1>5, <2>1, <2>2
<1>7. \A k \in near : Apart(i, ch, x, y, k) \in Nat
  BY <1>3, <1>4, SquaresAre DEF Apart
<1>8. near \subseteq 1..Len(scene[i])
  BY <1>1
<1>9. \A k \in near : far[k] = Apart(i, ch, x, y, k)
  OBVIOUS
<1> HIDE DEF near, far
<1>10. \E k \in near : \A j \in near : far[k] < far[j] \/ (far[k] = far[j] /\ j <= k)
  <2>1. \A k \in near : far[k] \in Nat
    BY <1>7, <1>9
  <2>2. near # {} /\ near \subseteq 1..Len(scene[i]) /\ Len(scene[i]) \in Nat
    BY <1>1, <1>6, <1>8
  <2>3. QED
    BY <2>1, <2>2, LastOfLeast
<1>11. had \in near /\ \A j \in near : Apart(i, ch, x, y, had) < Apart(i, ch, x, y, j)
                                      \/ (Apart(i, ch, x, y, had) = Apart(i, ch, x, y, j) /\ j <= had)
  <2>1. \E k \in near : \A j \in near : Apart(i, ch, x, y, k) < Apart(i, ch, x, y, j)
                                        \/ (Apart(i, ch, x, y, k) = Apart(i, ch, x, y, j) /\ j <= k)
    BY <1>9, <1>10
  <2> HIDE DEF x, y
  <2>2. QED
    BY <2>1, Zenon
<1> HIDE DEF had
<1>12. Apart(i, ch, x, y, had) = 0
  BY <1>5, <1>6, <1>7, <1>11
<1>13. had \in DOMAIN scene[i] /\ ch \in DOMAIN scene[i][had].v /\ had # 0
  BY <1>1, <1>8, <1>11 DEF near
<1>14. X(scene[i][had].t) - x = 0 /\ Y(scene[i][had].v[ch]) - y = 0
  <2> DEFINE dx == X(scene[i][had].t) - x
             dy == Y(scene[i][had].v[ch]) - y
  <2>1. dx \in Int /\ dy \in Int
    BY <1>3, <1>4, <1>13
  <2>2. dx * dx + dy * dy = 0
    BY <1>12 DEF Apart
  <2> HIDE DEF dx, dy
  <2>3. dx = 0 /\ dy = 0
    BY <2>1, <2>2, SquaresAre
  <2>4. QED
    BY <2>3 DEF dx, dy
<1>15. X(scene[i][had].t) = x /\ Y(scene[i][had].v[ch]) = y
  BY <1>3, <1>4, <1>13, <1>14
<1>16. HitPoint(i, ch, x, y) = had
  BY <1>2, <1>6
<1>17. QED
  BY <1>13, <1>15, <1>16

LEMMA ShownAreThere ==
    ASSUME NEW points \in Seq(Marks), NEW k \in Visible(points)
    PROVE  k \in DOMAIN points
<1>1. DOMAIN points = 1..Len(points) /\ Len(points) \in Nat
  OBVIOUS
<1>2. Len(Times(points)) \in Nat
  BY <1>1 DEF Times
<1>3. LowerBound(Times(points), start) \in Int /\ LowerBound(Times(points), End) \in Int
  <2>1. ASSUME NEW t PROVE LowerBound(Times(points), t) \in Int
    <3>1. PICK out \in [0..Len(Times(points)) -> Bounds] :
             LowerBound(Times(points), t) = out[Len(Times(points))].lo
      BY <1>2, HalvingLoop
    <3>2. out[Len(Times(points))] \in Bounds
      BY <1>2
    <3>3. QED
      BY <3>1, <3>2 DEF Bounds
  <2>2. QED
    BY <2>1
<1>4. QED
  BY <1>1, <1>3 DEF Visible, Greater, Lesser

LEMMA GrabsWhatIsDrawn == ASSUME WindowInv, ScenesAre, OrderIs PROVE DrawnIsGrabbed
<1>1. ASSUME NEW i \in DOMAIN Tracks, ~Tracks[i].curve, NEW k \in DrawnCues(i), NEW x \in Pixels,
             Box(scene[i][k]).from <= x, x <= Box(scene[i][k]).to
      PROVE  HitCue(i, x).k >= k
  <2>1. scene[i][k] \in Marks /\ x \in Int
    BY EventIs, MinSpanIs DEF DrawnCues, Pixels
  <2>2. Part(scene[i][k], x) # "none"
    BY <1>1, <2>1, DrawnIsPart, SMTT(30)
  <2>3. QED
    BY <2>2, LastIsHad
<1>2. ASSUME NEW i \in DOMAIN Tracks, NEW n \in DOMAIN Tracks[i].channels,
             NEW k \in Handles(Lane(i, Tracks[i].channels[n])), Inside(Lane(i, Tracks[i].channels[n])[k].t)
      PROVE  LET ch == Tracks[i].channels[n]  points == Lane(i, ch)
                 had == HitPoint(i, ch, X(points[k].t), Y(points[k].v[ch]))
             IN /\ had # 0
                /\ X(scene[i][had].t) = X(points[k].t) /\ Y(scene[i][had].v[ch]) = Y(points[k].v[ch])
  <2> DEFINE ch == Tracks[i].channels[n]
             points == Lane(i, ch)
  <2>1. points \in Seq(Marks)
    BY LaneIs
  <2>2. k \in Visible(points)
    <3> HIDE DEF points
    <3>1. QED
      BY <1>2 DEF Handles, points
  <2>3. k \in DOMAIN points
    BY <2>1, <2>2, ShownAreThere
  <2>4. PICK m \in DOMAIN scene[i] : points[k] = scene[i][m] /\ ch \in DOMAIN scene[i][m].v
    BY <2>3, LaneIsOfTrack
  <2>5. Inside(scene[i][m].t)
    BY <1>2, <2>4, SMTT(30)
  <2>6. LET had == HitPoint(i, ch, X(scene[i][m].t), Y(scene[i][m].v[ch]))
        IN /\ had # 0
           /\ X(scene[i][had].t) = X(scene[i][m].t) /\ Y(scene[i][had].v[ch]) = Y(scene[i][m].v[ch])
    BY <2>4, <2>5, PointIsHad
  <2>7. QED
    BY <2>4, <2>6
<1>3. ASSUME NEW i \in DOMAIN Tracks, NEW k \in DrawnCues(i),
             X(scene[i][k].t) < X(scene[i][k].end), Inside(scene[i][k].t), Inside(scene[i][k].end),
             X(scene[i][k].t) > Grab,
             \A j \in DrawnCues(i) : j > k => \A x \in Pixels : Part(scene[i][j], x) = "none"
      PROVE  {"start", "end"} \subseteq {HitCue(i, x).part : x \in {x \in Pixels : HitCue(i, x).k = k}}
  BY <1>3, EndsAreHad, Zenon
<1>4. \A i \in DOMAIN Tracks : ~Tracks[i].curve =>
        {i} \X DrawnCues(i) \subseteq HitRange(0, Width, 1, Len(Rows))
  BY BandHasAll
<1>5. \A i \in DOMAIN Tracks : ~Tracks[i].curve => \A k \in DrawnCues(i) :
        LET c == scene[i][k]
            alone == \A j \in DrawnCues(i) : j > k => \A x \in Pixels : Part(scene[i][j], x) = "none"
        IN /\ \A x \in Pixels : Box(c).from <= x /\ x <= Box(c).to => HitCue(i, x).k >= k
           /\ (X(c.t) < X(c.end) /\ alone /\ Inside(c.t) /\ Inside(c.end) /\ X(c.t) > Grab)
              => {"start", "end"} \subseteq {HitCue(i, x).part : x \in {x \in Pixels : HitCue(i, x).k = k}}
  <2> SUFFICES ASSUME NEW i \in DOMAIN Tracks, ~Tracks[i].curve, NEW k \in DrawnCues(i)
               PROVE  /\ \A x \in Pixels : Box(scene[i][k]).from <= x /\ x <= Box(scene[i][k]).to => HitCue(i, x).k >= k
                      /\ /\ X(scene[i][k].t) < X(scene[i][k].end)
                         /\ \A j \in DrawnCues(i) : j > k => \A x \in Pixels : Part(scene[i][j], x) = "none"
                         /\ Inside(scene[i][k].t) /\ Inside(scene[i][k].end) /\ X(scene[i][k].t) > Grab
                         => {"start", "end"} \subseteq {HitCue(i, x).part : x \in {x \in Pixels : HitCue(i, x).k = k}}
    BY Zenon
  <2>1. QED
    BY <1>1, <1>3, Zenon
<1>6. \A i \in DOMAIN Tracks : \A n \in DOMAIN Tracks[i].channels :
        LET ch == Tracks[i].channels[n]  points == Lane(i, ch)
        IN \A k \in Handles(points) : Inside(points[k].t) =>
             LET had == HitPoint(i, ch, X(points[k].t), Y(points[k].v[ch]))
             IN /\ had # 0
                /\ X(scene[i][had].t) = X(points[k].t) /\ Y(scene[i][had].v[ch]) = Y(points[k].v[ch])
  BY <1>2, Zenon
<1>7. QED
  BY <1>4, <1>5, <1>6, Zenon DEF DrawnIsGrabbed

LEMMA InitSeen == ASSUME CanvasInit PROVE WindowInv /\ ScenesAre /\ OrderIs
<1>1. OrderIs
  BY TracksAssumption DEF CanvasInit, OrderIs
<1>2. QED
  BY <1>1, InitWindow DEF CanvasInit, ScenesAre

\* For any scores, films, windows and arrangements: what is drawn on top is what is
\* grabbed, both ends of a span and every handle of a curve can be had, and a band over
\* everything has every cue that is drawn
\* (web/src/core/hit.ts hitTest, hitRange; web/src/render/lanes.ts drawCues, drawCurve).
THEOREM WhatIsSeenIsHad == CanvasSpec => []DrawnIsGrabbed
<1>1. CanvasInit => WindowInv /\ ScenesAre /\ OrderIs
  BY InitSeen
<1>2. WindowInv /\ ScenesAre /\ OrderIs /\ [CanvasNext]_canvasVars => (WindowInv /\ ScenesAre /\ OrderIs)'
  BY WindowKeeps, ScenesKept, OrderKept
<1>3. WindowInv /\ ScenesAre /\ OrderIs => DrawnIsGrabbed
  BY GrabsWhatIsDrawn
<1>4. QED
  BY <1>1, <1>2, <1>3, PTL DEF CanvasSpec

-----------------------------------------------------------------------------
(* The timeline: its picture *)

Unfolded(i) == Tracks[i].curve /\ ~(Tracks[i].id \in collapsed /\ Len(Tracks[i].channels) > 1)

LEMMA RowSetIs ==
    ASSUME NEW i \in DOMAIN Tracks
    PROVE  /\ \A r \in RowSet(i) : r.track = i /\ (r.draw = "curve" => Unfolded(i) /\ r.channel \in ToSet(Tracks[i].channels))
           /\ Unfolded(i) => \A ch \in ToSet(Tracks[i].channels) : Row(i, ch, "curve", RowChannel) \in RowSet(i)
<1> DEFINE lanes == {Row(i, ch, "curve", RowChannel) : ch \in ToSet(Tracks[i].channels)}
<1>1. Tracks[i].curve \in BOOLEAN /\ Len(Tracks[i].channels) \in Nat
  <2>1. Tracks[i].curve \in BOOLEAN /\ Tracks[i].channels \in Seq(Channels)
    BY TracksAre
  <2>2. QED
    BY <2>1
<1>2. \A r \in lanes : r.track = i /\ r.channel \in ToSet(Tracks[i].channels)
  BY DEF Row
<1>3. /\ Row(i, "none", "cues", RowCue).track = i /\ Row(i, "none", "cues", RowCue).draw = "cues"
      /\ Summary(i).track = i /\ Summary(i).draw = "summary"
  BY DEF Row, Summary
<1>4. RowSet(i) = IF ~Tracks[i].curve THEN {Row(i, "none", "cues", RowCue)}
                  ELSE IF Len(Tracks[i].channels) < 2 THEN lanes
                  ELSE {Summary(i)} \cup (IF Tracks[i].id \in collapsed THEN {} ELSE lanes)
  BY Zenon DEF RowSet
<1>5. \A ch \in ToSet(Tracks[i].channels) : Row(i, ch, "curve", RowChannel) \in lanes
  OBVIOUS
<1> HIDE DEF lanes
<1>6. CASE ~Tracks[i].curve
  BY <1>3, <1>4, <1>6 DEF Unfolded
<1>7. CASE Tracks[i].curve /\ Len(Tracks[i].channels) < 2
  BY <1>1, <1>2, <1>4, <1>5, <1>7 DEF Unfolded
<1>8. CASE Tracks[i].curve /\ ~(Len(Tracks[i].channels) < 2)
  <2>1. Len(Tracks[i].channels) > 1
    BY <1>1, <1>8
  <2>2. CASE Tracks[i].id \in collapsed
    BY <1>3, <1>4, <1>8, <2>1, <2>2 DEF Unfolded
  <2>3. CASE Tracks[i].id \notin collapsed
    <3>1. RowSet(i) = {Summary(i)} \cup lanes /\ Unfolded(i)
      BY <1>4, <1>8, <2>3 DEF Unfolded
    <3>2. QED
      BY <1>2, <1>3, <1>5, <3>1
  <2>4. QED
    BY <2>2, <2>3
<1>9. QED
  BY <1>6, <1>7, <1>8

\* Every row is of a track.
LEMMA RowIs ==
    ASSUME OrderIs
    PROVE  /\ Len(Rows) \in Nat /\ DOMAIN Rows = 1..Len(Rows)
           /\ \A n \in DOMAIN Rows : /\ Rows[n] \in SomeRow /\ Rows[n].track \in DOMAIN Tracks
                                     /\ Rows[n] \in RowSet(Rows[n].track)
           /\ \A i \in DOMAIN Tracks : \A r \in RowSet(i) : \E n \in DOMAIN Rows : Rows[n] = r
<1>1. Rows \in Seq(SomeRow) /\ ToSet(Rows) = UNION {RowSet(i) : i \in DOMAIN Tracks}
  BY RowsHold
<1>2. Len(Rows) \in Nat /\ DOMAIN Rows = 1..Len(Rows) /\ ToSet(Rows) = {Rows[n] : n \in 1..Len(Rows)}
  BY <1>1, ItemsOf
<1>3. ASSUME NEW n \in DOMAIN Rows
      PROVE  Rows[n] \in SomeRow /\ Rows[n].track \in DOMAIN Tracks /\ Rows[n] \in RowSet(Rows[n].track)
  <2>1. Rows[n] \in UNION {RowSet(i) : i \in DOMAIN Tracks}
    BY <1>1, <1>2
  <2>2. PICK i \in DOMAIN Tracks : Rows[n] \in RowSet(i)
    BY <2>1
  <2>3. Rows[n].track = i
    BY <2>2, RowSetIs
  <2>4. QED
    BY <1>1, <2>2, <2>3
<1>4. ASSUME NEW i \in DOMAIN Tracks, NEW r \in RowSet(i) PROVE \E n \in DOMAIN Rows : Rows[n] = r
  <2>1. r \in ToSet(Rows)
    BY <1>1
  <2>2. QED
    BY <1>2, <2>1
<1>5. QED
  BY <1>2, <1>3, <1>4

\* A lane for each channel that is not folded away.
LEMMA EveryLaneHasARow ==
    ASSUME OrderIs, NEW i \in DOMAIN Tracks
    PROVE  {Rows[n].channel : n \in {n \in DOMAIN Rows : Rows[n].track = i /\ Rows[n].draw = "curve"}}
           = IF ~Tracks[i].curve \/ (Tracks[i].id \in collapsed /\ Len(Tracks[i].channels) > 1)
             THEN {} ELSE ToSet(Tracks[i].channels)
<1> DEFINE shown == {n \in DOMAIN Rows : Rows[n].track = i /\ Rows[n].draw = "curve"}
<1>1. \A n \in shown : Unfolded(i) /\ Rows[n].channel \in ToSet(Tracks[i].channels)
  BY RowIs, RowSetIs
<1>2. ASSUME Unfolded(i), NEW ch \in ToSet(Tracks[i].channels)
      PROVE  \E n \in shown : Rows[n].channel = ch
  <2>1. Row(i, ch, "curve", RowChannel) \in RowSet(i)
    BY <1>2, RowSetIs
  <2>2. PICK n \in DOMAIN Rows : Rows[n] = Row(i, ch, "curve", RowChannel)
    BY <2>1, RowIs
  <2>3. QED
    BY <2>2 DEF Row
<1> HIDE DEF shown
<1>3. CASE Unfolded(i)
  <2>1. {Rows[n].channel : n \in shown} = ToSet(Tracks[i].channels)
    BY <1>1, <1>2, <1>3
  <2>2. QED
    BY <1>3, <2>1 DEF Unfolded, shown
<1>4. CASE ~Unfolded(i)
  <2>1. {Rows[n].channel : n \in shown} = {}
    BY <1>1, <1>4
  <2>2. QED
    BY <1>4, <2>1 DEF Unfolded, shown
<1>5. QED
  BY <1>3, <1>4

\* The rows lie one below the other.
LEMMA TopsAre ==
    ASSUME OrderIs
    PROVE  /\ Tops[0] = 0
           /\ \A n \in 1..Len(Rows) : Tops[n] = Tops[n - 1] + Rows[n].h
           /\ \A n \in 0..Len(Rows) : Tops[n] \in Nat
<1> DEFINE m == Len(Rows)
           step == [p \in (1..m) \X Nat |-> p[2] + Rows[p[1]].h]
           Runs(out) == out = [n \in 0..m |-> IF n = 0 THEN 0 ELSE out[n - 1] + Rows[n].h]
           out0 == CHOOSE out : Runs(out)
<1>1. m \in Nat /\ \A n \in 1..m : Rows[n].h \in Nat
  <2>1. \A r \in SomeRow : r.h \in Nat
    BY DEF SomeRow, Row
  <2>2. QED
    BY <2>1, RowIs
<1>2. step \in [(1..m) \X Nat -> Nat]
  BY <1>1
<1>3. \A n \in 1..m : \A h \in Nat : step[<<n, h>>] = h + Rows[n].h
  OBVIOUS
<1>4. Tops = out0
  BY DEF Tops
<1> HIDE DEF m, step
<1>5. PICK out \in [0..m -> Nat] : out[0] = 0 /\ \A n \in 1..m : out[n] = step[<<n, out[n - 1]>>]
  <2>1. \E out \in [0..m -> Nat] : Turns(m, 0, step, out)
    BY <1>1, <1>2, LoopExists
  <2>2. QED
    BY <2>1 DEF Turns
<1>6. \A n \in 1..m : n - 1 \in 0..m /\ out[n - 1] \in Nat /\ out[n] = out[n - 1] + Rows[n].h
  <2>1. \A n \in 1..m : n - 1 \in 0..m
    BY <1>1
  <2>2. QED
    BY <1>3, <1>5, <2>1
<1>7. Runs(out)
  BY <1>1, <1>5, <1>6
<1>8. Runs(out0)
  <2> HIDE DEF Runs
  <2>1. QED
    BY <1>7
<1> HIDE DEF out0
<1>9. out0[0] = 0 /\ \A n \in 1..m : out0[n] = out0[n - 1] + Rows[n].h
  BY <1>1, <1>8, SMTT(30)
<1>10. \A n \in 0..m : out0[n] \in Nat
  <2> DEFINE T == {n \in 0..m : out0[n] \in Nat}
  <2>1. 0 \in T
    BY <1>1, <1>9
  <2>2. ASSUME NEW n \in 1..m, n - 1 \in T PROVE n \in T
    <3>1. n \in 0..m /\ out0[n - 1] \in Nat /\ Rows[n].h \in Nat
      BY <1>1, <2>2
    <3>2. QED
      BY <1>9, <3>1
  <2> HIDE DEF T
  <2>3. 0..m \subseteq T
    BY <1>1, <2>1, <2>2, StepByStep
  <2>4. QED
    BY <2>3 DEF T
<1>11. QED
  BY <1>4, <1>9, <1>10 DEF m

LEMMA NoGapInRows ==
    ASSUME OrderIs, NEW y \in 0..(Height - 1)
    PROVE  RowAt(y) # 0
<1> DEFINE m == Len(Rows)
           there == {n \in 1..m : Tops[n - 1] <= y /\ y < Tops[n]}
<1>1. m \in Nat /\ Tops[0] = 0 /\ (\A n \in 0..m : Tops[n] \in Nat) /\ Height = Tops[m]
  BY TopsAre, RowIs DEF Height
<1>2. RowAt(y) = IF there = {} THEN 0 ELSE Min(there)
  BY Zenon DEF RowAt
<1> HIDE DEF m
<1>3. y \in Nat /\ y < Tops[m]
  BY <1>1
<1>4. there # {}
  <2> SUFFICES ASSUME there = {} PROVE FALSE
    OBVIOUS
  <2> DEFINE T == {n \in 0..m : Tops[n] <= y}
  <2>1. 0 \in T
    BY <1>1, <1>3
  <2>2. ASSUME NEW n \in 1..m, n - 1 \in T PROVE n \in T
    <3>1. n \in 0..m /\ Tops[n] \in Nat /\ Tops[n - 1] <= y
      BY <1>1, <2>2
    <3>2. ~(y < Tops[n])
      BY <3>1
    <3>3. QED
      BY <1>3, <3>1, <3>2
  <2> HIDE DEF T
  <2>3. 0..m \subseteq T
    BY <1>1, <2>1, <2>2, StepByStep
  <2>4. Tops[m] <= y
    BY <1>1, <2>3 DEF T
  <2>5. QED
    BY <1>1, <1>3, <2>4
<1>5. there \subseteq 1..m /\ there \subseteq Nat
  BY <1>1
<1> HIDE DEF there
<1>6. Min(there) \in there
  BY <1>4, <1>5, MinBelongs
<1>7. RowAt(y) = Min(there)
  BY <1>2, <1>4
<1>8. Min(there) \in 1..m
  BY <1>5, <1>6
<1>9. QED
  BY <1>1, <1>7, <1>8

\* From where a cue is dispatched.
LEMMA LeadIsShown ==
    ASSUME WindowInv, ScenesAre, NEW i \in DOMAIN Tracks, NEW k \in DOMAIN scene[i],
           Inside(scene[i][k].t - Lead[i]), X(scene[i][k].t) - X(scene[i][k].t - Lead[i]) >= 2
    PROVE  \E l \in Leads(i) : l[1] = X(scene[i][k].t - Lead[i])
<1> DEFINE t == scene[i][k].t
           from == t - Lead[i]
<1>1. t \in Int /\ Lead[i] \in Nat /\ from \in Int /\ from <= t
  <2>1. t \in Nat
    BY EventIs
  <2>2. Lead[i] \in Nat
    BY TracksAssumption
  <2>3. QED
    BY <2>1, <2>2
<1>2. Lead[i] > 0
  <2> SUFFICES ASSUME Lead[i] = 0 PROVE FALSE
    BY <1>1
  <2>1. from = t
    BY <1>1
  <2>2. X(t) \in Int /\ X(t) - X(from) >= 2
    BY <1>1, PixelIs
  <2> HIDE DEF from, t
  <2>3. X(from) = X(t)
    BY <2>1
  <2>4. QED
    BY <2>2, <2>3
<1>3. Intersects(from, t)
  BY <1>1, WindowIs DEF Inside, Intersects
<1>4. <<X(from), X(t)>> \in Leads(i)
  BY <1>2, <1>3 DEF Leads
<1>5. QED
  BY <1>4

\* What is to be left alone.
LEMMA CalmIsShown ==
    ASSUME WindowInv, NEW c \in Calm, NEW t \in c.from..c.to, Inside(t)
    PROVE  \E b \in Bands : b[1] <= X(t) /\ X(t) <= b[2]
<1>1. c.from \in Int /\ c.to \in Int /\ t \in Int /\ c.from <= t /\ t <= c.to
  BY TracksAssumption
<1>2. Intersects(c.from, c.to)
  BY <1>1, WindowIs DEF Inside, Intersects
<1>3. /\ X(c.from) \in Int /\ X(c.to) \in Int /\ X(t) \in Int /\ X(c.from) <= X(t) /\ X(t) <= X(c.to)
  BY <1>1, PixelIs
<1> DEFINE b == <<X(c.from), Greater(X(c.from) + 1, X(c.to))>>
<1>4. b \in Bands
  BY <1>2 DEF Bands
<1>5. b[1] <= X(t) /\ X(t) <= b[2]
  BY <1>3 DEF Greater
<1> HIDE DEF b
<1>6. QED
  BY <1>4, <1>5

LEMMA MaxBounds ==
    ASSUME NEW n \in Nat, NEW S, S \subseteq 0..n, S # {}
    PROVE  Max(S) \in S /\ \A y \in S : y <= Max(S)
<1> DEFINE up == {k + 1 : k \in S}
<1>1. up \subseteq 1..(n + 1) /\ up # {} /\ n + 1 \in Nat
  <2>1. \A k \in S : k + 1 \in 1..(n + 1)
    OBVIOUS
  <2>2. up \subseteq 1..(n + 1)
    BY <2>1
  <2>3. up # {}
    OBVIOUS
  <2>4. QED
    BY <2>2, <2>3
<1>2. PICK last \in up : \A j \in up : j <= last
  <2> HIDE DEF up
  <2>1. QED
    BY <1>1, MaxBelongs
<1>3. PICK m \in S : last = m + 1
  BY <1>2
<1>4. \A y \in S : y \in Int /\ m \in Int /\ y + 1 \in up
  OBVIOUS
<1>5. \A y \in S : m >= y
  <2>1. \A y \in S : y + 1 <= m + 1
    BY <1>2, <1>3, <1>4
  <2>2. QED
    BY <1>4, <2>1
<1>6. Max(S) \in S /\ \A y \in S : Max(S) >= y
  BY <1>5, Zenon DEF Max
<1>7. QED
  BY <1>4, <1>6

LEMMA MaxIs ==
    ASSUME NEW S, S \subseteq Int, NEW x \in S, \A y \in S : y <= x
    PROVE  Max(S) = x
<1>1. Max(S) \in S /\ \A y \in S : Max(S) >= y
  <2>1. \A y \in S : x >= y
    OBVIOUS
  <2>2. QED
    BY <2>1, Zenon DEF Max
<1>2. Max(S) <= x /\ Max(S) >= x /\ x \in Int /\ Max(S) \in Int
  BY <1>1
<1>3. QED
  BY <1>2

\* What is on the track and has the channel is in its lane.
LEMMA LaneHasAll ==
    ASSUME ScenesAre, NEW i \in DOMAIN Tracks, NEW ch, NEW k \in DOMAIN scene[i], ch \in DOMAIN scene[i][k].v
    PROVE  \E j \in DOMAIN Lane(i, ch) : Lane(i, ch)[j] = scene[i][k]
<1> DEFINE n == Len(scene[i])
           e == scene[i][k]
<1>1. /\ scene[i] \in Seq(Marks) /\ n \in Nat /\ DOMAIN scene[i] = 1..n
      /\ \A m \in 1..n : scene[i][m] \in Marks
  BY EventIs
<1>2. PICK out \in [0..n -> Seq(Marks)] :
         /\ out[0] = <<>>
         /\ \A m \in 1..n : out[m] = Holding(i, ch, m, out[m - 1])
         /\ Lane(i, ch) = out[n]
  BY <1>1, LaneLoop
<1>3. k \in 1..n /\ \A m \in 1..n : m = k => scene[i][m] = e /\ ch \in DOMAIN scene[i][m].v
  BY <1>1
<1> HIDE DEF n, e
<1> DEFINE T == {m \in 0..n : m >= k => \E j \in 1..Len(out[m]) : out[m][j] = e}
<1>4. 0 \in T
  BY <1>1, <1>3
<1>5. ASSUME NEW m \in 1..n, m - 1 \in T PROVE m \in T
  <2> DEFINE r == out[m - 1]
             q == out[m]
             x == scene[i][m]
  <2>1. m - 1 \in 0..n /\ m \in 0..n
    BY <1>1
  <2>2. r \in Seq(Marks) /\ x \in Marks /\ (m - 1 >= k => \E j \in 1..Len(r) : r[j] = e)
    BY <1>1, <1>2, <1>5
  <2>3. q = Holding(i, ch, m, r) /\ (m = k => x = e /\ ch \in DOMAIN x.v)
    BY <1>2, <1>3
  <2> HIDE DEF q, r
  <2>4. m >= k => \E j \in 1..Len(q) : q[j] = e
    <3>1. CASE ch \notin DOMAIN x.v
      <4>1. q = r /\ m # k
        BY <2>3, <3>1 DEF Holding
      <4>2. m >= k => m - 1 >= k
        BY <1>1, <1>3, <4>1
      <4>3. QED
        BY <2>2, <4>1, <4>2
    <3>2. CASE ch \in DOMAIN x.v
      <4>1. q = Append(r, x)
        BY <2>3, <3>2 DEF Holding
      <4> HIDE DEF x
      <4>2. /\ Len(q) = Len(r) + 1 /\ (\A j \in 1..Len(r) : q[j] = r[j]) /\ q[Len(r) + 1] = x
        BY <2>2, <4>1, OneLonger
      <4>3. Len(r) \in Nat
        BY <2>2
      <4>4. Len(r) + 1 \in 1..Len(q) /\ 1..Len(r) \subseteq 1..Len(q)
        BY <4>2, <4>3
      <4>5. CASE m = k
        BY <2>3, <4>2, <4>4, <4>5
      <4>6. CASE m # k
        <5>1. m >= k => m - 1 >= k
          BY <1>1, <1>3, <4>6
        <5>2. QED
          BY <2>2, <4>2, <4>4, <5>1
      <4>7. QED
        BY <4>5, <4>6
    <3>3. QED
      BY <3>1, <3>2
  <2>5. QED
    BY <2>1, <2>4 DEF q
<1>6. n \in T
  <2> HIDE DEF T
  <2>1. 0..n \subseteq T
    BY <1>1, <1>4, <1>5, StepByStep
  <2>2. QED
    BY <1>1, <2>1
<1>7. \E j \in 1..Len(out[n]) : out[n][j] = e
  BY <1>1, <1>3, <1>6
<1>8. DOMAIN out[n] = 1..Len(out[n])
  BY <1>1
<1>9. QED
  BY <1>2, <1>7, <1>8 DEF e

LEMMA ValueIs == ASSUME NEW e \in Marks, NEW ch \in DOMAIN e.v PROVE e.v[ch] \in 0..4
<1>1. e.v \in UNION {[c -> 0..4] : c \in SUBSET Channels}
  BY DEF Marks
<1>2. PICK c \in SUBSET Channels : e.v \in [c -> 0..4]
  BY <1>1
<1>3. QED
  BY <1>2

\* The highest and the lowest of a column.
LEMMA EnvelopeHolds ==
    ASSUME WindowInv, ScenesAre, NEW i \in DOMAIN Tracks, NEW ch, NEW k \in DOMAIN scene[i],
           Inside(scene[i][k].t), scene[i][k].t < End, ch \in DOMAIN scene[i][k].v
    PROVE  LET m == Envelope(Lane(i, ch), ch)[X(scene[i][k].t)]
           IN m[1] <= scene[i][k].v[ch] /\ scene[i][k].v[ch] <= m[2]
<1> DEFINE points == Lane(i, ch)
           x == X(scene[i][k].t)
           v == scene[i][k].v[ch]
           Here(c) == {points[q].v[ch] : q \in {q \in Visible(points) : X(points[q].t) = c}}
           here == [c \in 0..(Width - 1) |-> Here(c)]
           filled == {c \in 0..(Width - 1) : here[c] # {}}
<1>1. points \in Seq(Marks) /\ \A j, q \in DOMAIN points : j <= q => points[j].t <= points[q].t
  BY LaneIs
<1>2. PICK j \in DOMAIN points : points[j] = scene[i][k]
  BY LaneHasAll
<1>3. j \in Visible(points)
  <2>1. Inside(points[j].t) /\ points[j].t < End
    BY <1>2
  <2> HIDE DEF points
  <2>2. QED
    BY <1>1, <2>1, LineReaches
<1>4. x \in 0..(Width - 1)
  <2>1. scene[i][k].t \in Int /\ Width \in Int
    BY EventIs, MinSpanIs
  <2>2. QED
    BY <2>1, PixelIs
<1>5. v \in Here(x)
  BY <1>2, <1>3
<1>6. Here(x) \subseteq 0..4
  <2> SUFFICES ASSUME NEW q \in Visible(points) PROVE points[q].v[ch] \in 0..4
    OBVIOUS
  <2>1. q \in DOMAIN points
    <3> HIDE DEF points
    <3>1. QED
      BY <1>1, ShownAreThere
  <2>2. PICK m \in DOMAIN scene[i] : points[q] = scene[i][m] /\ ch \in DOMAIN scene[i][m].v
    BY <2>1, LaneIsOfTrack
  <2>3. scene[i][m] \in Marks
    BY EventIs
  <2>4. QED
    BY <2>2, <2>3, ValueIs
<1>7. Envelope(points, ch) = [c \in {c \in 0..(Width - 1) : \E f \in filled : f <= c} |->
            LET from == Max({f \in filled : f <= c}) IN <<Min(here[from]), Max(here[from])>>]
  BY Zenon DEF Envelope
<1>8. here[x] = Here(x)
  BY <1>4
<1> HIDE DEF Here, here, points, v
<1>9. filled \subseteq Int /\ x \in filled
  BY <1>4, <1>5, <1>8
<1> HIDE DEF filled, x
<1>10. Max({f \in filled : f <= x}) = x
  <2> DEFINE before == {f \in filled : f <= x}
  <2>1. x \in filled /\ x \in Int /\ x <= x
    <3>1. x \in filled /\ x \in Int
      BY <1>9
    <3>2. x <= x
      BY <3>1
    <3>3. QED
      BY <3>1, <3>2
  <2>2. before \subseteq filled /\ \A f \in before : f <= x
    OBVIOUS
  <2>3. x \in before
    BY <2>1
  <2> HIDE DEF before
  <2>4. x \in before /\ before \subseteq Int /\ \A f \in before : f <= x
    BY <1>9, <2>2, <2>3
  <2>5. Max(before) = x
    BY <2>4, MaxIs
  <2>6. QED
    BY <2>5, Zenon DEF before
<1>11. Envelope(points, ch)[x] = <<Min(Here(x)), Max(Here(x))>>
  <2>1. \E f \in filled : f <= x
    BY <1>9
  <2>2. QED
    BY <1>4, <1>7, <1>8, <1>10, <2>1
<1>12. Min(Here(x)) <= v /\ v <= Max(Here(x))
  <2>1. Here(x) # {} /\ Here(x) \subseteq Nat
    BY <1>5, <1>6
  <2>2. QED
    BY <1>5, <1>6, <2>1, MinBelongs, MaxBounds
<1>13. Envelope(points, ch)[x][1] <= v /\ v <= Envelope(points, ch)[x][2]
  BY <1>11, <1>12
<1>14. QED
  BY <1>13 DEF points, x, v

\* The labels of the ruler: so many of its steps make one of its numbers.
LEMMA PartsMakeAStep ==
    ASSUME NEW M \in Nat \ {0}, NEW f \in Nat \ {0}, M % f = 0, M % 5 = 0 \/ M < 5 * f
    PROVE  LET step == Greater(M \div 5, f)
               per == M \div step
           IN step \in Nat \ {0} /\ per \in Nat \ {0} /\ per * step = M
<1> DEFINE fifth == M \div 5
<1>1. fifth \in Nat /\ 5 * fifth <= M /\ M < 5 * fifth + 5 /\ (M % 5 = 0 => M = 5 * fifth)
  OBVIOUS
<1>2. M = f * (M \div f) /\ M \div f \in Nat
  OBVIOUS
<1> HIDE DEF fifth
<1>3. CASE fifth > f
  <2>1. Greater(fifth, f) = fifth
    BY <1>1, <1>3 DEF Greater
  <2>2. ~(M < 5 * f)
    BY <1>1, <1>3
  <2>3. M = 5 * fifth
    BY <1>1, <2>2
  <2>4. \A n \in Nat \ {0} : (5 * n) \div n = 5
    OBVIOUS
  <2>5. fifth \in Nat \ {0} /\ M \div fifth = 5
    BY <1>1, <1>3, <2>3, <2>4
  <2>6. QED
    BY <2>1, <2>3, <2>5 DEF fifth
<1>4. CASE ~(fifth > f)
  <2>1. Greater(fifth, f) = f
    BY <1>1, <1>4 DEF Greater
  <2> DEFINE per == M \div f
  <2>2. M = f * per /\ per \in Nat
    BY <1>2
  <2> HIDE DEF per
  <2>3. per # 0
    <3>1. per = 0 => f * per = 0
      OBVIOUS
    <3>2. QED
      BY <2>2, <3>1
  <2>4. per * f = M
    BY <2>2
  <2>5. QED
    BY <2>1, <2>2, <2>3, <2>4 DEF fifth, per
<1>5. QED
  BY <1>3, <1>4

LEMMA MajorIs ==
    ASSUME \E k \in DOMAIN Ladder : Ladder[k] * Width >= span * LabelPx
    PROVE  /\ Major \in Nat \ {0} /\ Major * Width >= span * LabelPx
           /\ Major % Frame = 0 /\ (Major % 5 = 0 \/ Major < 5 * Frame)
<1> DEFINE fits == {k \in DOMAIN Ladder : Ladder[k] * Width >= span * LabelPx}
           first == CHOOSE k \in fits : \A j \in fits : k <= j
<1>1. DOMAIN Ladder \subseteq Nat /\ \A k \in DOMAIN Ladder : Ladder[k] \in Nat \ {0}
  BY LadderAssumption
<1>2. fits # {} /\ fits \subseteq Nat
  BY <1>1
<1>3. Min(fits) \in fits /\ \A j \in fits : Min(fits) <= j
  <2> HIDE DEF fits
  <2>1. QED
    BY <1>2, MinBelongs
<1>4. first \in fits
  <2> HIDE DEF fits
  <2>1. QED
    BY <1>3, Zenon
<1>5. Major = Ladder[first]
  BY <1>2, Zenon DEF Major
<1> HIDE DEF first
<1>6. first \in DOMAIN Ladder /\ Ladder[first] * Width >= span * LabelPx
  BY <1>4
<1>7. QED
  BY <1>1, <1>5, <1>6, LadderAssumption

LEMMA LabelsHaveRoom ==
    ASSUME WindowInv, \E k \in DOMAIN Ladder : Ladder[k] * Width >= span * LabelPx,
           NEW a \in {t \in Ticks : t.major}, NEW b \in {t \in Ticks : t.major}, a.t < b.t
    PROVE  (b.t - a.t) * Width >= span * LabelPx
<1> DEFINE step == Greater(Major \div 5, Frame)
           per == Major \div step
           from == start \div step
           to == (End + step - 1) \div step
<1>1. /\ Major \in Nat \ {0} /\ Major * Width >= span * LabelPx
      /\ Major % Frame = 0 /\ (Major % 5 = 0 \/ Major < 5 * Frame)
  BY MajorIs
<1>2. step \in Nat \ {0} /\ per \in Nat \ {0} /\ per * step = Major
  BY <1>1, MinSpanIs, PartsMakeAStep
<1>3. start \in Int /\ End \in Int /\ Width \in Nat /\ span * LabelPx \in Int
  <2>1. start \in Int /\ End \in Int /\ Width \in Nat /\ span \in Int /\ LabelPx \in Int
    BY WindowIs, MinSpanIs, CanvasAssumption
  <2>2. QED
    BY <2>1
<1>4. \A t \in Ticks : \E k \in from..to : t = [t |-> k * step, major |-> k % per = 0]
  BY DEF Ticks
<1> HIDE DEF per, step
<1>5. from \in Int /\ to \in Int
  BY <1>2, <1>3, QuotientIs
<1> HIDE DEF from, to
<1>6. ASSUME NEW t \in Ticks, t.major PROVE \E q \in Int : t.t = (per * q) * step
  <2>1. PICK k \in from..to : t = [t |-> k * step, major |-> k % per = 0]
    BY <1>4
  <2>2. k \in Int /\ t.t = k * step /\ k % per = 0
    <3>1. k \in Int
      BY <1>5
    <3>2. t.t = k * step /\ t.major = (k % per = 0)
      BY <2>1, Zenon
    <3>3. k % per = 0
      BY <1>6, <3>2, Zenon
    <3>4. QED
      BY <3>1, <3>2, <3>3
  <2>3. \A n \in Int : \A m \in Nat \ {0} : n % m = 0 => n \div m \in Int /\ n = m * (n \div m)
    OBVIOUS
  <2>4. k \div per \in Int /\ k = per * (k \div per)
    BY <1>2, <2>2, <2>3
  <2>5. QED
    BY <2>2, <2>4
<1>7. PICK p \in Int : a.t = (per * p) * step
  BY <1>6
<1>8. PICK q \in Int : b.t = (per * q) * step
  BY <1>6
<1>9. per * p * step = Major * p /\ per * q * step = Major * q
  <2>1. \A x, y, z \in Int : (x * y) * z = (x * z) * y
    OBVIOUS
  <2>2. per \in Int /\ step \in Int
    BY <1>2
  <2>3. QED
    BY <1>2, <1>7, <1>8, <2>1, <2>2
<1>10. p < q
  <2> SUFFICES ASSUME q <= p PROVE FALSE
    OBVIOUS
  <2>1. Major * q <= Major * p
    BY <1>1
  <2>2. Major * q \in Int /\ Major * p \in Int
    BY <1>1
  <2>3. QED
    BY <1>7, <1>8, <1>9, <2>1, <2>2
<1>11. b.t - a.t = Major * q - Major * p /\ Major * q \in Int /\ Major * p \in Int
  BY <1>1, <1>7, <1>8, <1>9
<1>12. Major * q - Major * p >= Major
  <2>1. Major * (q - p) >= Major
    <3> DEFINE d == q - p
    <3>1. d \in Int /\ d >= 1
      BY <1>10
    <3> HIDE DEF d
    <3>2. Major * d >= Major
      BY <1>1, <3>1
    <3>3. QED
      BY <3>2 DEF d
  <2>2. Major * (q - p) = Major * q - Major * p
    BY <1>1
  <2>3. QED
    BY <2>1, <2>2
<1> DEFINE gap == b.t - a.t
<1>13. gap \in Int /\ gap >= Major
  BY <1>11, <1>12
<1> HIDE DEF gap
<1>14. gap * Width >= Major * Width
  BY <1>1, <1>3, <1>13
<1>15. gap * Width \in Int /\ Major * Width \in Int
  BY <1>1, <1>3, <1>13
<1>16. gap * Width >= span * LabelPx
  BY <1>1, <1>3, <1>14, <1>15
<1>17. QED
  BY <1>16 DEF gap

\* The overview: how strong an event is, and in which column it begins.
Amp(i, e) == IF DOMAIN e.v = {} THEN IF Tracks[i].curve THEN 0 ELSE 4 ELSE Max({e.v[ch] : ch \in DOMAIN e.v})
Col(t) == Clamp((t * Columns) \div Duration, 0, Columns - 1)
Touches(i, c) == {k \in DOMAIN scene[i] : IF Tracks[i].curve THEN Col(scene[i][k].t) = c
                                         ELSE Col(scene[i][k].t) <= c /\ c <= Col(scene[i][k].end)}

LEMMA AmpIs == ASSUME NEW i, NEW e \in Marks PROVE Amp(i, e) \in 0..4
<1> DEFINE values == {e.v[ch] : ch \in DOMAIN e.v}
<1>1. \A ch \in DOMAIN e.v : e.v[ch] \in 0..4
  BY ValueIs
<1>2. CASE DOMAIN e.v = {}
  BY <1>2 DEF Amp
<1>3. CASE DOMAIN e.v # {}
  <2>1. values \subseteq 0..4 /\ values # {}
    BY <1>1, <1>3
  <2>2. Amp(i, e) = Max(values)
    BY <1>3 DEF Amp
  <2> HIDE DEF values
  <2>3. Max(values) \in values
    BY <2>1, MaxBounds
  <2>4. QED
    BY <2>1, <2>2, <2>3
<1>4. QED
  BY <1>2, <1>3

LEMMA ColumnIs ==
    /\ \A t \in Nat : Col(t) \in 0..(Columns - 1) /\ Col(t) = Lesser((t * Columns) \div Duration, Columns - 1)
    /\ \A t, u \in Nat : t <= u => Col(t) <= Col(u)
<1>1. Columns \in Nat \ {0} /\ Duration \in Nat \ {0}
  BY CanvasAssumption
<1>2. ASSUME NEW t \in Nat
      PROVE  (t * Columns) \div Duration \in Nat
  <2>1. t * Columns \in Nat
    BY <1>1
  <2>2. QED
    BY <1>1, <2>1
<1>3. ASSUME NEW t \in Nat
      PROVE  Col(t) \in 0..(Columns - 1) /\ Col(t) = Lesser((t * Columns) \div Duration, Columns - 1)
  BY <1>1, <1>2 DEF Col, Clamp, Lesser
<1>4. ASSUME NEW t \in Nat, NEW u \in Nat, t <= u PROVE Col(t) <= Col(u)
  <2>1. t * Columns \in Int /\ u * Columns \in Int /\ t * Columns <= u * Columns
    BY <1>1, <1>4
  <2>2. (t * Columns) \div Duration <= (u * Columns) \div Duration
    BY <1>1, <2>1, QuotientGrows
  <2>3. QED
    BY <1>1, <1>2, <2>2 DEF Col, Clamp
<1>5. QED
  BY <1>3, <1>4

LEMMA StrengthIs ==
    ASSUME ScenesAre, NEW i \in DOMAIN Tracks, NEW c
    PROVE  /\ Strength(i, c) \in 0..4
           /\ \A k \in Touches(i, c) : Amp(i, scene[i][k]) <= Strength(i, c)
<1> DEFINE amps == {0} \cup {Amp(i, scene[i][k]) : k \in Touches(i, c)}
<1>1. \A k \in Touches(i, c) : Amp(i, scene[i][k]) \in 0..4
  BY EventIs, AmpIs DEF Touches
<1>2. amps \subseteq 0..4 /\ amps # {}
  BY <1>1
<1>3. Strength(i, c) = Max(amps)
  BY Zenon DEF Strength, Touches, Amp, Col
<1>4. \A k \in Touches(i, c) : Amp(i, scene[i][k]) \in amps
  OBVIOUS
<1> HIDE DEF amps
<1>5. Max(amps) \in amps /\ \A y \in amps : y <= Max(amps)
  BY <1>2, MaxBounds
<1>6. QED
  BY <1>2, <1>3, <1>4, <1>5

\* Whatever is not nothing lies in a run that cannot be made longer.
LEMMA RunIsThere ==
    ASSUME NEW n \in Nat, NEW busy, busy \subseteq 0..n, NEW c \in busy
    PROVE  \E a, b \in busy : /\ a <= c /\ c <= b /\ a..b \subseteq busy
                              /\ a - 1 \notin busy /\ b + 1 \notin busy
<1> DEFINE left == {x \in 0..c : x..c \subseteq busy}
           right == {x \in c..n : c..x \subseteq busy}
           a == Min(left)
           b == Max(right)
<1>1. c \in Int /\ 0 <= c /\ c <= n
  OBVIOUS
<1>2. c..c = {c}
  BY <1>1
<1>3. c \in left /\ left \subseteq Nat
  BY <1>1, <1>2
<1>4. c \in right /\ right \subseteq 0..n
  BY <1>1, <1>2
<1>5. a \in left /\ \A y \in left : a <= y
  <2> HIDE DEF left
  <2>1. QED
    BY <1>3, MinBelongs
<1>6. b \in right /\ \A y \in right : y <= b
  <2> HIDE DEF right
  <2>1. QED
    BY <1>4, MaxBounds
<1> HIDE DEF a, b
<1>7. a \in 0..c /\ a..c \subseteq busy /\ b \in c..n /\ c..b \subseteq busy
  BY <1>5, <1>6
<1>8. a \in a..c /\ b \in c..b /\ a..b = (a..c) \cup (c..b)
  BY <1>1, <1>7
<1>9. a \in busy /\ b \in busy /\ a..b \subseteq busy /\ a <= c /\ c <= b
  BY <1>7, <1>8
<1>10. a - 1 \notin busy
  <2> SUFFICES ASSUME a - 1 \in busy PROVE FALSE
    OBVIOUS
  <2>1. a - 1 \in 0..c /\ (a - 1)..c = {a - 1} \cup (a..c)
    BY <1>1, <1>7
  <2>2. a - 1 \in left
    BY <1>7, <2>1
  <2>3. QED
    BY <1>5, <1>7, <2>2
<1>11. b + 1 \notin busy
  <2> SUFFICES ASSUME b + 1 \in busy PROVE FALSE
    OBVIOUS
  <2>1. b + 1 \in c..n /\ c..(b + 1) = (c..b) \cup {b + 1}
    BY <1>1, <1>7
  <2>2. b + 1 \in right
    BY <1>7, <2>1
  <2>3. QED
    BY <1>6, <1>7, <2>2
<1>12. QED
  BY <1>9, <1>10, <1>11

\* A band of the overview for every event, as strong as it is.
LEMMA OverviewHolds ==
    ASSUME ScenesAre, NEW i \in DOMAIN Tracks, NEW k \in DOMAIN scene[i], Amp(i, scene[i][k]) > 0
    PROVE  \E g \in Segments(i) : /\ g.a <= Col(scene[i][k].t) /\ Col(scene[i][k].t) <= g.b
                                 /\ g.level >= Amp(i, scene[i][k])
<1> DEFINE c == Col(scene[i][k].t)
           busy == {x \in 0..(Columns - 1) : Strength(i, x) > 0}
           Among(r) == {Strength(i, x) : x \in r[1]..r[2]}
           Unbroken(r) == r[1]..r[2] # {} /\ r[1]..r[2] \subseteq busy /\ {r[1] - 1, r[2] + 1} \cap busy = {}
<1>1. /\ scene[i][k].t \in Nat /\ scene[i][k].end \in Nat /\ scene[i][k].t <= scene[i][k].end
      /\ scene[i][k] \in Marks
  BY EventIs
<1>2. c \in 0..(Columns - 1) /\ c <= Col(scene[i][k].end)
  BY <1>1, ColumnIs
<1>3. k \in Touches(i, c)
  BY <1>2 DEF Touches
<1>4. Strength(i, c) \in 0..4 /\ Amp(i, scene[i][k]) \in 0..4 /\ Amp(i, scene[i][k]) <= Strength(i, c)
  BY <1>1, <1>3, StrengthIs, AmpIs
<1>5. c \in busy
  BY <1>2, <1>4
<1>6. Segments(i) = {[a |-> r[1], b |-> r[2], level |-> Max(Among(r))] : r \in {r \in busy \X busy : Unbroken(r)}}
  BY Zenon DEF Segments
<1>7. Columns - 1 \in Nat /\ busy \subseteq 0..(Columns - 1)
  BY CanvasAssumption
<1> HIDE DEF busy, c, Among
<1>8. PICK a \in busy, b \in busy : /\ a <= c /\ c <= b /\ a..b \subseteq busy
                                    /\ a - 1 \notin busy /\ b + 1 \notin busy
  BY <1>5, <1>7, RunIsThere
<1> DEFINE r == <<a, b>>
           g == [a |-> a, b |-> b, level |-> Max(Among(r))]
<1>9. c \in a..b
  BY <1>5, <1>7, <1>8
<1>10. r \in busy \X busy /\ Unbroken(r)
  BY <1>8, <1>9
<1>11. g \in Segments(i)
  BY <1>6, <1>10
<1>12. Among(r) \subseteq 0..4 /\ Strength(i, c) \in Among(r)
  BY <1>9, StrengthIs DEF Among
<1> HIDE DEF r
<1>13. Strength(i, c) <= Max(Among(r)) /\ Max(Among(r)) \in 0..4
  BY <1>12, MaxBounds
<1>14. g.a <= c /\ c <= g.b /\ g.level >= Amp(i, scene[i][k])
  BY <1>4, <1>8, <1>13
<1> HIDE DEF g
<1>15. QED
  BY <1>11, <1>14 DEF c

LEMMA NothingIsMissing == ASSUME WindowInv, ScenesAre, OrderIs PROVE PictureIsWhole
<1> DEFINE p == Picture(start, {"calm", "latency"})
<1>1. p.ruler = Ticks /\ p.calm = Bands
  BY DEF Picture
<1>2. \A n \in DOMAIN Rows : p.rows[n] = Shown(Rows[n], {"calm", "latency"})
  BY DEF Picture
<1>3. ASSUME NEW i \in DOMAIN Tracks
      PROVE  {Rows[n].channel : n \in {n \in DOMAIN Rows : Rows[n].track = i /\ Rows[n].draw = "curve"}}
             = IF ~Tracks[i].curve \/ (Tracks[i].id \in collapsed /\ Len(Tracks[i].channels) > 1)
               THEN {} ELSE ToSet(Tracks[i].channels)
  BY EveryLaneHasARow
<1>4. \A y \in 0..(Height - 1) : RowAt(y) # 0
  BY NoGapInRows
<1>5. ASSUME NEW n \in DOMAIN Rows, Rows[n].draw = "cues", NEW k \in DOMAIN scene[Rows[n].track],
             Inside(scene[Rows[n].track][k].t - Lead[Rows[n].track]),
             X(scene[Rows[n].track][k].t) - X(scene[Rows[n].track][k].t - Lead[Rows[n].track]) >= 2
      PROVE  \E l \in p.rows[n].leads : l[1] = X(scene[Rows[n].track][k].t - Lead[Rows[n].track])
  <2>1. Rows[n].track \in DOMAIN Tracks
    BY RowIs
  <2>2. p.rows[n].leads = Leads(Rows[n].track)
    <3>1. p.rows[n] = Shown(Rows[n], {"calm", "latency"})
      BY <1>2, <1>5
    <3> HIDE DEF p
    <3>2. Shown(Rows[n], {"calm", "latency"}) =
            [leads |-> Leads(Rows[n].track),
             boxes |-> {Box(scene[Rows[n].track][j]) : j \in DrawnCues(Rows[n].track)}]
      <4>1. "latency" \in {"calm", "latency"}
        OBVIOUS
      <4>2. QED
        BY <1>5, <4>1 DEF Shown
    <3>3. QED
      BY <3>1, <3>2
  <2>3. QED
    BY <1>5, <2>1, <2>2, LeadIsShown
<1>6. ASSUME NEW n \in DOMAIN Rows, "envelope" \in DOMAIN p.rows[n], NEW k \in DOMAIN scene[Rows[n].track],
             Inside(scene[Rows[n].track][k].t), scene[Rows[n].track][k].t < End,
             Rows[n].channel \in DOMAIN scene[Rows[n].track][k].v
      PROVE  LET e == scene[Rows[n].track][k]
                 m == p.rows[n].envelope[X(e.t)]
             IN m[1] <= e.v[Rows[n].channel] /\ e.v[Rows[n].channel] <= m[2]
  <2> DEFINE i == Rows[n].track
             ch == Rows[n].channel
             points == Lane(i, ch)
  <2>1. i \in DOMAIN Tracks /\ Rows[n].draw \in {"cues", "curve", "summary"}
    <3>1. \A r \in SomeRow : r.draw \in {"cues", "curve", "summary"}
      BY DEF SomeRow, Row
    <3>2. QED
      BY <3>1, RowIs
  <2>2. p.rows[n] = Shown(Rows[n], {"calm", "latency"})
    BY <1>2
  <2> HIDE DEF p
  <2>3. Rows[n].draw = "curve" /\ Dense(points)
    <3>1. CASE Rows[n].draw = "cues"
      BY <1>6, <2>2, <3>1 DEF Shown
    <3>2. CASE Rows[n].draw = "summary"
      BY <1>6, <2>2, <3>2 DEF Shown
    <3>3. CASE Rows[n].draw = "curve" /\ ~Dense(points)
      BY <1>6, <2>2, <3>3 DEF Shown
    <3>4. QED
      BY <2>1, <3>1, <3>2, <3>3
  <2>4. p.rows[n].envelope = Envelope(points, ch)
    BY <2>2, <2>3 DEF Shown
  <2>5. LET m == Envelope(points, ch)[X(scene[i][k].t)]
        IN m[1] <= scene[i][k].v[ch] /\ scene[i][k].v[ch] <= m[2]
    BY <1>6, <2>1, EnvelopeHolds
  <2>6. QED
    BY <2>4, <2>5
<1>7. ASSUME NEW c \in Calm, NEW t \in c.from..c.to, Inside(t)
      PROVE  \E b \in p.calm : b[1] <= X(t) /\ X(t) <= b[2]
  BY <1>1, <1>7, CalmIsShown
<1>8. ASSUME \E k \in DOMAIN Ladder : Ladder[k] * Width >= span * LabelPx
      PROVE  \A a, b \in {t \in p.ruler : t.major} : a.t < b.t => (b.t - a.t) * Width >= span * LabelPx
  BY <1>1, <1>8, LabelsHaveRoom
<1>9. ASSUME NEW i \in DOMAIN Tracks, NEW k \in DOMAIN scene[i]
      PROVE  LET e == scene[i][k]  c == Lesser((e.t * Columns) \div Duration, Columns - 1)
                 strong == IF DOMAIN e.v = {} THEN IF Tracks[i].curve THEN 0 ELSE 4 ELSE Max({e.v[ch] : ch \in DOMAIN e.v})
             IN strong > 0 => \E g \in Segments(i) : g.a <= c /\ c <= g.b /\ g.level >= strong
  <2> DEFINE e == scene[i][k]
             c == Lesser((e.t * Columns) \div Duration, Columns - 1)
  <2>1. c = Col(e.t)
    BY EventIs, ColumnIs
  <2> HIDE DEF c
  <2>2. Amp(i, e) > 0 => \E g \in Segments(i) : g.a <= c /\ c <= g.b /\ g.level >= Amp(i, e)
    BY <2>1, OverviewHolds
  <2>3. QED
    BY <2>2, Zenon DEF Amp, c
<1> HIDE DEF p
<1>10. \A n \in DOMAIN Rows :
            LET i == Rows[n].track  ch == Rows[n].channel  marks == p.rows[n]
            IN /\ Rows[n].draw = "cues" => \A k \in DOMAIN scene[i] :
                    LET t == scene[i][k].t
                    IN Inside(t - Lead[i]) /\ X(t) - X(t - Lead[i]) >= 2
                       => \E l \in marks.leads : l[1] = X(t - Lead[i])
               /\ "envelope" \in DOMAIN marks => \A k \in DOMAIN scene[i] :
                    LET e == scene[i][k]
                    IN Inside(e.t) /\ e.t < End /\ ch \in DOMAIN e.v =>
                       LET m == marks.envelope[X(e.t)] IN m[1] <= e.v[ch] /\ e.v[ch] <= m[2]
  BY <1>5, <1>6, Zenon
<1>11. (\E k \in DOMAIN Ladder : Ladder[k] * Width >= span * LabelPx) =>
          \A a, b \in {t \in p.ruler : t.major} : a.t < b.t => (b.t - a.t) * Width >= span * LabelPx
  BY <1>8, Zenon
<1>12. \A i \in DOMAIN Tracks : LET bands == Segments(i) IN \A k \in DOMAIN scene[i] :
            LET e == scene[i][k]  c == Lesser((e.t * Columns) \div Duration, Columns - 1)
                strong == IF DOMAIN e.v = {} THEN IF Tracks[i].curve THEN 0 ELSE 4 ELSE Max({e.v[ch] : ch \in DOMAIN e.v})
            IN strong > 0 => \E g \in bands : g.a <= c /\ c <= g.b /\ g.level >= strong
  BY <1>9, Zenon
<1>13. \A c \in Calm : \A t \in c.from..c.to : Inside(t) => \E b \in p.calm : b[1] <= X(t) /\ X(t) <= b[2]
  BY <1>7, Zenon
<1>14. QED
  BY <1>3, <1>4, <1>10, <1>11, <1>12, <1>13, Zenon DEF PictureIsWhole, p

\* For any scores, films, windows and arrangements: nothing that is there is missing from
\* the picture, be it a lane, a row, a lead, a calm stretch, a peak of a dense curve or an
\* event of the overview, and no two labels of the ruler overlap (web/src/core/layout.ts
\* layout, rowAt; web/src/core/view.ts ticks; web/src/render/lanes.ts drawLatency, drawCalm,
\* drawEnvelope; web/src/ui/Overview.tsx buildBands).
THEOREM ThePictureIsWhole == CanvasSpec => []PictureIsWhole
<1>1. CanvasInit => WindowInv /\ ScenesAre /\ OrderIs
  BY InitSeen
<1>2. WindowInv /\ ScenesAre /\ OrderIs /\ [CanvasNext]_canvasVars => (WindowInv /\ ScenesAre /\ OrderIs)'
  BY WindowKeeps, ScenesKept, OrderKept
<1>3. WindowInv /\ ScenesAre /\ OrderIs => PictureIsWhole
  BY NothingIsMissing
<1>4. QED
  BY <1>1, <1>2, <1>3, PTL DEF CanvasSpec
=============================================================================
