------------------------------- MODULE MCMux --------------------------------
(***************************************************************************)
(* Mux for TLC: a TCP and a UDP session in one tunnel, and what the TCP    *)
(* session makes of it.                                                    *)
(***************************************************************************)
EXTENDS MuxAlone
=============================================================================
