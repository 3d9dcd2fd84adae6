--------------------------- MODULE MCVlessServer ---------------------------
(***************************************************************************)
(* Instances of VlessServer for TLC: two users u1, u2 with the same or     *)
(* different e-mails, quotas that are unlimited, tight and already used    *)
(* up.                                                                     *)
(***************************************************************************)
EXTENDS VlessServer, TLC

CONSTANTS u1, u2, e1, e2

OneUserLists == {Empty, u1 :> e1}

\* u1 comes and goes; while she is there she shares an e-mail with u2.
SharingLists == {u2 :> e2, (u1 :> e1) @@ (u2 :> e1)}

Row(q, u) == [quota |-> q, used |-> u]

TightUsage == {e1 :> Row(-1, 1), e1 :> Row(2, 1), e1 :> Row(2, 2)}
MixedUsage == {(e1 :> Row(2, 1)) @@ (e2 :> Row(-1, 0)), e1 :> Row(2, 2)}
=============================================================================
