----------------------------- MODULE MCEditing -----------------------------
(* One cue track and one curve, and an instrument the score has no track for. *)
EXTENDS Editing

CONSTANTS c1, c2, c3, p1, p2, p3, p4, A, B, C, lamp, fog, fan

CuesV == {c1, c2, c3}
PointsV == {p1, p2, p3, p4}
InstrumentV == [k \in {A, B, C} |-> CASE k = A -> fog [] k = B -> lamp [] k = C -> fan]
FirstV ==
    [tracks |-> <<A, B>>,
     on |-> [k \in {A, B, C} |-> CASE k = A -> <<c1>> [] k = B -> <<p1, p2>> [] k = C -> <<>>],
     t |-> [x \in CuesV \cup PointsV |->
               CASE x \in {c1, p1} -> 0 [] x = p2 -> 2 [] OTHER -> Keep],
     size |-> [x \in CuesV \cup PointsV |-> IF x = c1 THEN 2 ELSE 0],
     level |-> [x \in CuesV \cup PointsV |-> IF x = p2 THEN 1 ELSE 0]]
=============================================================================
