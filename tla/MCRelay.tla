------------------------------ MODULE MCRelay -------------------------------
(***************************************************************************)
(* Relay for TLC: all three relays, or one of them.                        *)
(***************************************************************************)
EXTENDS Relay

AllKinds == {"tcp", "udp", "vision"}
TCPOnly  == {"tcp"}
=============================================================================
