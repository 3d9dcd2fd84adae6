------------------------------ MODULE MuxAlone ------------------------------
(***************************************************************************)
(* What a Mux.Cool tunnel promises to one of its sessions: whatever the    *)
(* other sessions, their targets and their goroutines do, the session      *)
(* behaves as it would in a tunnel of its own.  The abstract specification *)
(* is Mux itself with that session as the only one.                        *)
(***************************************************************************)
EXTENDS Mux

CONSTANT One  \* the session

ASSUME OneAssumption == One \in Sessions

Places(q, f) == {i \in DOMAIN q : q[i] = f}
Count(q, f)  == Cardinality(Places(q, f))

\* The frames of the session when there are so many of them: its New, its
\* data, its End.
Turn(i, opens, data) ==
    Frame(IF i <= opens THEN "new" ELSE IF i <= opens + data THEN "keep" ELSE "end",
          One)
InTurn(opens, data, ends) ==
    [i \in 1..(opens + data + ends) |-> Turn(i, opens, data)]

\* The frames of the session among those of q.  The client sends them in turn,
\* so this is q without the frames of the others.
Opens(q)  == Count(q, Frame("new", One))
Chunks(q) == Count(q, Frame("keep", One))
Ends(q)   == Count(q, Frame("end", One))
Only(q)   == InTurn(Opens(q), Chunks(q), Ends(q))

\* What a variable that is kept per session says about this one.
Of(f) == [s \in {One} |-> f[s]]

Alone == INSTANCE Mux WITH
    Sessions <- {One}, UDP <- UDP \cap {One},
    initial <- Only(initial), wire <- Only(wire),
    sentUp <- Of(sentUp), stage <- Of(stage), ses <- Of(ses), sock <- Of(sock),
    up <- Of(up), upEnd <- Of(upEnd), down <- Of(down), downCut <- Of(downCut),
    g1 <- Of(g1), g2 <- Of(g2), tSent <- Of(tSent), tFin <- Of(tFin),
    tFail <- Of(tFail), tGot <- Of(tGot), taken <- Of(taken),
    delivered <- Of(delivered), cutShort <- cutShort \cap {One}

\* No step of another session is felt: a frame is handed to its own session,
\* the end of a session, of its target or of a copy closes the socket and the
\* pipes of that session only, and the tunnel serves the frames that are left
\* as if the others had never been sent.
SessionAlone == Alone!Spec
=============================================================================
