------------------------------ MODULE MCStudio ------------------------------
(* Two films with scores, one without, one kept version of each. *)
EXTENDS Studio
CONSTANTS A, B, C, v1
=============================================================================
