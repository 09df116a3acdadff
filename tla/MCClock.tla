------------------------------ MODULE MCClock ------------------------------
(***************************************************************************)
(* An instance of Clock: frames of three ticks, polls that come a tick or   *)
(* two apart and answers that take up to a tick.                            *)
(***************************************************************************)
EXTENDS Clock
=============================================================================
