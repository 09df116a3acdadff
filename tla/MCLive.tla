------------------------------- MODULE MCLive -------------------------------
(* One tab, which may be closed and opened again, and two rigs. *)
EXTENDS Live
CONSTANTS p1, room, bench
=============================================================================
