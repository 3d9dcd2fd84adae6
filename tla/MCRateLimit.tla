---------------------------- MODULE MCRateLimit -----------------------------
(***************************************************************************)
(* RateLimit for TLC: no limit, a slow one whose burst is the floor, and   *)
(* one whose burst is the cap.                                             *)
(***************************************************************************)
EXTENDS RateLimit

SomeRates == {0, 1, 3}
=============================================================================
