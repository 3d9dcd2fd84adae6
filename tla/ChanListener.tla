---------------------------- MODULE ChanListener ----------------------------
(***************************************************************************)
(* The listener of the ws and xhttp transports: ChanListener               *)
(* (src/transport/xraybridge/bridge.go) turns the connections xray-core    *)
(* hands to a callback into a net.Listener, over a buffered channel and a  *)
(* Closed channel.  Server.Start is its only acceptor and stops at the     *)
(* first error; UpdateConfig closes it when port or transport change.      *)
(*                                                                         *)
(* A select with several ready cases picks any of them.                    *)
(***************************************************************************)
EXTENDS Naturals, Sequences

CONSTANTS
    Conns,   \* connections xray-core delivers
    Cap      \* capacity of Ch (32 in the code)

ASSUME CapAssumption == Cap \in Nat \ {0}

VARIABLES
    state,    \* where each connection is
    Ch,       \* the buffered channel
    closed,   \* the channel Closed is closed
    inner,    \* xray-core's listener is open
    acceptor  \* the accept loop of Start

vars == <<state, Ch, closed, inner, acceptor>>

\* "outside": not yet accepted by xray-core; "offered": its callback is in
\* AddConn; "served": handed to handleConnection; "shut": closed by AddConn.
States == {"outside", "offered", "queued", "served", "shut"}

\* The channel never holds more than its capacity, and its content is exactly
\* the connections that are queued, each once.
TypeOK ==
    /\ state \in [Conns -> States]
    /\ Ch \in Seq(Conns)
    /\ Len(Ch) <= Cap
    /\ \A c \in Conns : state[c] = "queued" <=> \E i \in 1..Len(Ch) : Ch[i] = c
    /\ \A i, j \in 1..Len(Ch) : Ch[i] = Ch[j] => i = j
    /\ closed \in BOOLEAN
    /\ inner \in BOOLEAN
    /\ acceptor \in {"accept", "stopped"}

Init ==
    /\ state = [c \in Conns |-> "outside"]
    /\ Ch = <<>>
    /\ closed = FALSE
    /\ inner = TRUE
    /\ acceptor = "accept"

-----------------------------------------------------------------------------
\* xray-core accepts a connection and calls AddConn.
Delivered(c) ==
    /\ inner
    /\ state[c] = "outside"
    /\ state' = [state EXCEPT ![c] = "offered"]
    /\ UNCHANGED <<Ch, closed, inner, acceptor>>

\* case l.Ch <- c, which may be chosen after Close as well
Enqueue(c) ==
    /\ state[c] = "offered"
    /\ Len(Ch) < Cap
    /\ state' = [state EXCEPT ![c] = "queued"]
    /\ Ch' = Append(Ch, c)
    /\ UNCHANGED <<closed, inner, acceptor>>

\* Mutated form: AddConn blocks on the channel alone.
NeverRefused(c) == FALSE /\ UNCHANGED vars

\* case <-l.Closed
Refuse(c) ==
    /\ state[c] = "offered"
    /\ closed
    /\ state' = [state EXCEPT ![c] = "shut"]
    /\ UNCHANGED <<Ch, closed, inner, acceptor>>

AddConn(c) == Enqueue(c) \/ Refuse(c)

\* Accept returns a connection, after Close too if select picks that case.
AcceptConn ==
    /\ acceptor = "accept"
    /\ Ch # <<>>
    /\ state' = [state EXCEPT ![Head(Ch)] = "served"]
    /\ Ch' = Tail(Ch)
    /\ UNCHANGED <<closed, inner, acceptor>>

\* Mutated form: an idle Accept is not woken by Close.
NotWoken == FALSE /\ UNCHANGED vars

\* Accept returns an error and Start leaves the loop.
AcceptEnds ==
    /\ acceptor = "accept"
    /\ closed
    /\ acceptor' = "stopped"
    /\ UNCHANGED <<state, Ch, closed, inner>>

\* Close, through sync.Once: the channel first, then xray-core's listener.
Close ==
    /\ ~closed
    /\ closed' = TRUE
    /\ UNCHANGED <<state, Ch, inner, acceptor>>

CloseInner ==
    /\ closed
    /\ inner
    /\ inner' = FALSE
    /\ UNCHANGED <<state, Ch, closed, acceptor>>

Next ==
    \/ \E c \in Conns : Delivered(c) \/ AddConn(c)
    \/ AcceptConn \/ AcceptEnds
    \/ Close \/ CloseInner

Spec == Init /\ [][Next]_vars

\* The callbacks, Start and a Close that has begun all run; connections need
\* not arrive and Close need not be called.
FairSpec ==
    /\ Spec
    /\ \A c \in Conns : WF_vars(AddConn(c))
    /\ WF_vars(AcceptConn \/ AcceptEnds)
    /\ WF_vars(CloseInner)

-----------------------------------------------------------------------------
\* No connection and no goroutine hangs on the listener: a delivered
\* connection is served or closed, even when the channel is full and Start
\* has stopped accepting; the exception is what lies in the channel when
\* Accept reports the close, which nobody takes out again.
DeliveredIsSettled ==
    \A c \in Conns :
        state[c] = "offered"
            ~> \/ state[c] \in {"served", "shut"}
               \/ state[c] = "queued" /\ acceptor = "stopped"

\* Close lets Start go: the accept loop ends and xray-core's listener is
\* closed, with connections queued or not.
CloseEndsAccept == closed ~> (acceptor = "stopped" /\ ~inner)
=============================================================================
