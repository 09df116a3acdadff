------------------------------ MODULE MCConsole ------------------------------
(* Three films in the list and one that is worked on; three rig files, two of
   which are there; two boards, two administrators; storage that is empty, that
   an older build wrote, and that is as it was left. *)
EXTENDS Console

MCWords == [f \in Names |-> IF f = "a" THEN {"x"} ELSE {"x", "y"}]
MCTidied == [n \in Notes |-> IF n = "war " THEN "war" ELSE n]

MCDevice(kind, driver, addr) ==
    [id |-> "named", kind |-> kind, driver |-> driver, start |-> "none", addr |-> addr]
MCFirstShelves ==
    {(1 :> <<MCDevice("light", "virtual", FALSE)>>) @@ (2 :> <<MCDevice("wind", "cip", TRUE)>>)}
MCImports == <<[MCDevice("light", "sacn", FALSE) EXCEPT !.start = "ok"]>>

MCCleanNames == [n \in ViewNames |-> IF n = "wide " THEN "wide" ELSE n]
MCFirstViewports ==
    {<<>>, [columns |-> 11, height |-> 40],
     [columns |-> 4, height |-> 200, room |-> FALSE, force |-> TRUE, camera |-> "front"]}
MCEntry(name, raw) == [name |-> name, viewport |-> raw]
MCFirstLists ==
    {<<>>, <<MCEntry("wide ", <<>>), MCEntry("", <<>>), MCEntry("wide", [height |-> 2000])>>}
MCFirstLights == {Unset, 40, 140}
=============================================================================
