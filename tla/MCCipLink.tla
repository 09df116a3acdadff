----------------------------- MODULE MCCipLink -----------------------------
(***************************************************************************)
(* Instances of CipLink: a fan and a fogger on one board, driven by the     *)
(* show loop and by the supervisor's watchdog.                              *)
(***************************************************************************)
EXTENDS CipLink, TLC

CONSTANTS fan, fog, show, watch

MCDevice == {fan, fog}
MCCaller == {show, watch}
MCFan == {fan}
MCShow == {show}
MCNoWiring == {{}}
=============================================================================
