---------------------------- MODULE MCSupervisor ----------------------------
(***************************************************************************)
(* Instances of Supervisor: a fan with a duty cycle and a fogger with a    *)
(* continuous limit.                                                       *)
(***************************************************************************)
EXTENDS Supervisor, TLC

CONSTANTS fan, fog

MCGuarded == {fan, fog}
MCLimit == (fan :> 0) @@ (fog :> 1)
MCDutyLimited == {fan}
=============================================================================
