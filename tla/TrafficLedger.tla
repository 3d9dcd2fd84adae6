--------------------------- MODULE TrafficLedger ----------------------------
(***************************************************************************)
(* What the accounting of vgate-server promises, without saying how: the   *)
(* bytes recorded for an account are held by the node until they are       *)
(* settled (handed on to whoever bills them) or lost, and nothing else     *)
(* happens to a byte.                                                      *)
(* The stats of the server (VlessServer, one account per user and entry    *)
(* point) and the whole path to the manager (Node, one account) implement  *)
(* it.                                                                     *)
(***************************************************************************)
EXTENDS Naturals

CONSTANT Accounts

VARIABLES
    recorded, \* all bytes there have been
    held,     \* those still with the node
    settled,  \* bytes handed on
    lost      \* bytes given up

vars == <<recorded, held, settled, lost>>

Balances == [Accounts -> Nat]

Init ==
    /\ recorded = [a \in Accounts |-> 0]
    /\ held = [a \in Accounts |-> 0]
    /\ settled = [a \in Accounts |-> 0]
    /\ lost = [a \in Accounts |-> 0]

\* Bytes are recorded for one account.
Record(a) ==
    /\ held' \in Balances
    /\ held'[a] > held[a]
    /\ recorded'[a] + held[a] = recorded[a] + held'[a]
    /\ \A b \in Accounts \ {a} : held'[b] = held[b] /\ recorded'[b] = recorded[b]
    /\ UNCHANGED <<settled, lost>>

\* Bytes leave the node, each one settled once or lost once, never taken back.
Move ==
    /\ held' \in Balances
    /\ recorded' = recorded
    /\ \A a \in Accounts :
        /\ settled'[a] >= settled[a]
        /\ lost'[a] >= lost[a]
        /\ held'[a] + settled'[a] + lost'[a] = held[a] + settled[a] + lost[a]

Next == Move \/ \E a \in Accounts : Record(a)

Spec == Init /\ [][Next]_vars
=============================================================================
