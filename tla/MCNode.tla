------------------------------- MODULE MCNode -------------------------------
(***************************************************************************)
(* Node for TLC: one user that the administrator may disable, with a cap   *)
(* of two bytes or none.                                                   *)
(***************************************************************************)
EXTENDS Node, TLC

CONSTANTS u1, e1

OneUser   == {u1 :> e1}
CapOrNone == {-1, 2}
=============================================================================
