--------------------------- MODULE MCChanListener ---------------------------
(***************************************************************************)
(* ChanListener for TLC: more connections than the channel holds.          *)
(***************************************************************************)
EXTENDS ChanListener

CONSTANTS c1, c2, c3, c4

FourConns == {c1, c2, c3, c4}
=============================================================================
