-------------------------------- MODULE Mux ---------------------------------
(***************************************************************************)
(* A Mux.Cool tunnel (src/proxy/vless/mux.go): handleMux seeds the frame   *)
(* stream with what came with the header and waits for xray-core's         *)
(* ServerWorker; dialDispatcher.Dispatch gives every session a target      *)
(* socket, two pipes and two goroutines.                                   *)
(*                                                                         *)
(* External, modelled from their use: the worker, which reads frames one   *)
(* after the other, dispatches New, feeds the session's request pipe, runs *)
(* a goroutine per session that carries the response pipe to the client,   *)
(* and closes a session by closing the request pipe (its reader drains it) *)
(* and interrupting the response pipe (its content is dropped); the peers; *)
(* and pipe.New(), which without options has no size limit.                *)
(***************************************************************************)
EXTENDS Naturals, Sequences, FiniteSets

CONSTANTS
    Sessions,  \* session ids the client uses, each once
    UDP,       \* those whose target is a UDP address
    MaxWire,   \* bound on the frames on their way at a time
    MaxUp,     \* bound on the data frames of a session
    MaxDown    \* bound on the chunks its target sends

ASSUME MuxAssumption ==
    UDP \subseteq Sessions /\ {MaxWire, MaxUp, MaxDown} \subseteq Nat

VARIABLES
    hpc,       \* handleMux: "start", "wait" for the worker, "done"
    initial,   \* frames that came with the VLESS header
    wire,      \* frames on their way from the client
    ended,     \* the client has closed the tunnel, or UpdateUsers or a cut has
    sentUp,    \* data frames the client has sent
    stage,     \* what the client has sent of a session: "none", "new", "end"
    ses,       \* the worker's session: "none", "open", "closed", "failed"
    sock,      \* the target socket is open
    up, upEnd,     \* chunks in the request pipe; its writer is closed
    down, downCut, \* chunks in the response pipe; it is interrupted
    g1, g2,    \* the goroutines target -> respW and reqR -> target
    tSent, tFin, tFail, tGot, \* the target: chunks sent, finished, failed, got
    taken,     \* chunks read from the target
    delivered, \* chunks the client has received
    cutShort   \* history: an answer after the session's end closed the socket

tunnelVars == <<hpc, initial, ended>>
clientVars == <<sentUp, stage>>
targetVars == <<tSent, tFin, tFail>>
copyVars   == <<taken, delivered, cutShort>>
vars == <<tunnelVars, clientVars, targetVars, wire, ses, sock, up, upEnd, down,
          downCut, g1, g2, tGot, copyVars>>

Frames == [op : {"new", "keep", "end"}, s : Sessions]
Copies == {"off", "read", "write", "gone"}

\* Pipes, sockets, frames and goroutines have their types.
TypeOK ==
    /\ hpc \in {"start", "wait", "done"}
    /\ initial \in Seq(Frames) /\ wire \in Seq(Frames)
    /\ ended \in BOOLEAN
    /\ sentUp \in [Sessions -> 0..MaxUp]
    /\ stage \in [Sessions -> {"none", "new", "end"}]
    /\ ses \in [Sessions -> {"none", "open", "closed", "failed"}]
    /\ sock \in [Sessions -> BOOLEAN]
    /\ up \in [Sessions -> Nat] /\ upEnd \in [Sessions -> BOOLEAN]
    /\ down \in [Sessions -> 0..MaxDown] /\ downCut \in [Sessions -> BOOLEAN]
    /\ g1 \in [Sessions -> Copies] /\ g2 \in [Sessions -> Copies]
    /\ tSent \in [Sessions -> 0..MaxDown] /\ tGot \in [Sessions -> Nat]
    /\ tFin \in [Sessions -> BOOLEAN] /\ tFail \in [Sessions -> BOOLEAN]
    /\ taken \in [Sessions -> 0..MaxDown] /\ delivered \in [Sessions -> 0..MaxDown]
    /\ cutShort \in SUBSET Sessions

Frame(op, s) == [op |-> op, s |-> s]
All(x) == [s \in Sessions |-> x]

\* The response header is written; the header may have come with a first frame.
Init ==
    /\ hpc = "start"
    /\ stage \in [Sessions -> {"none", "new"}]
    /\ \A s, t \in Sessions : stage[s] = "new" /\ stage[t] = "new" => s = t
    /\ initial = IF \E s \in Sessions : stage[s] = "new"
                 THEN <<Frame("new", CHOOSE s \in Sessions : stage[s] = "new")>>
                 ELSE <<>>
    /\ wire = <<>>
    /\ ended = FALSE
    /\ sentUp = All(0)
    /\ ses = All("none")
    /\ sock = All(FALSE)
    /\ up = All(0) /\ upEnd = All(FALSE)
    /\ down = All(0) /\ downCut = All(FALSE)
    /\ g1 = All("off") /\ g2 = All("off")
    /\ tSent = All(0) /\ tGot = All(0)
    /\ tFin = All(FALSE) /\ tFail = All(FALSE)
    /\ taken = All(0) /\ delivered = All(0)
    /\ cutShort = {}

-----------------------------------------------------------------------------
(* The peers (external)                                                    *)

Sends(op, s) ==
    /\ ~ended /\ Len(wire) < MaxWire
    /\ wire' = Append(wire, Frame(op, s))
    /\ UNCHANGED <<tunnelVars, targetVars, ses, sock, up, upEnd, down, downCut,
                   g1, g2, tGot, copyVars>>

ClientOpens(s) ==
    /\ stage[s] = "none"
    /\ stage' = [stage EXCEPT ![s] = "new"]
    /\ Sends("new", s)
    /\ UNCHANGED sentUp

ClientWrites(s) ==
    /\ stage[s] = "new"
    /\ sentUp[s] < MaxUp
    /\ sentUp' = [sentUp EXCEPT ![s] = @ + 1]
    /\ Sends("keep", s)
    /\ UNCHANGED stage

ClientEnds(s) ==
    /\ stage[s] = "new"
    /\ stage' = [stage EXCEPT ![s] = "end"]
    /\ Sends("end", s)
    /\ UNCHANGED sentUp

\* The client closes the tunnel or loses it, or the server closes it under
\* the handler.
TunnelBreaks ==
    /\ ~ended
    /\ ended' = TRUE
    /\ UNCHANGED <<hpc, initial, clientVars, targetVars, wire, ses, sock, up,
                   upEnd, down, downCut, g1, g2, tGot, copyVars>>

TargetStep(s) ==
    /\ sock[s] /\ ~tFail[s] /\ ~tFin[s]
    /\ \/ /\ tSent[s] < MaxDown
          /\ tSent' = [tSent EXCEPT ![s] = @ + 1]
          /\ UNCHANGED <<tFin, tFail>>
       \/ /\ s \notin UDP
          /\ tFin' = [tFin EXCEPT ![s] = TRUE]
          /\ UNCHANGED <<tSent, tFail>>
       \/ tFail' = [tFail EXCEPT ![s] = TRUE] /\ UNCHANGED <<tSent, tFin>>
    /\ UNCHANGED <<tunnelVars, clientVars, wire, ses, sock, up, upEnd, down,
                   downCut, g1, g2, tGot, copyVars>>

-----------------------------------------------------------------------------
(* handleMux and the worker                                                *)

\* Mutated form: the frames read with the header are lost.
NoSeed == wire

\* buf.BufferedReader with initialData as its first buffer, io.MultiReader on
\* the Vision path.
Seeded == initial \o wire

handleMux ==
    /\ hpc = "start"
    /\ wire' = Seeded
    /\ initial' = <<>>
    /\ hpc' = "wait"
    /\ UNCHANGED <<ended, clientVars, targetVars, ses, sock, up, upEnd, down,
                   downCut, g1, g2, tGot, copyVars>>

\* Dispatch succeeds: socket, pipes and both goroutines.
Dispatch(s) ==
    /\ ses' = [ses EXCEPT ![s] = "open"]
    /\ sock' = [sock EXCEPT ![s] = TRUE]
    /\ g1' = [g1 EXCEPT ![s] = "read"]
    /\ g2' = [g2 EXCEPT ![s] = "read"]
    /\ UNCHANGED <<up, upEnd, down, downCut>>

\* Mutated form: a session that cannot be dialled takes the others with it.
DispatchFailsAll(s) ==
    /\ ses' = All("failed")
    /\ UNCHANGED <<sock, up, upEnd, down, downCut, g1, g2>>

\* The address does not resolve, or the dial or the bind fails.
DispatchFails(s) ==
    /\ ses' = [ses EXCEPT ![s] = "failed"]
    /\ UNCHANGED <<sock, up, upEnd, down, downCut, g1, g2>>

\* session.Close: close the request pipe, interrupt the response pipe.
CloseSessions(S) ==
    LET closing == {s \in S : ses[s] = "open"} IN
    /\ ses' = [s \in Sessions |-> IF s \in closing THEN "closed" ELSE ses[s]]
    /\ upEnd' = [s \in Sessions |-> upEnd[s] \/ s \in closing]
    /\ downCut' = [s \in Sessions |-> downCut[s] \/ s \in closing]
    /\ down' = [s \in Sessions |-> IF s \in closing THEN 0 ELSE down[s]]
    /\ UNCHANGED <<sock, up, g1, g2>>

HandleFrame ==
    /\ hpc = "wait"
    /\ wire # <<>>
    /\ wire' = Tail(wire)
    /\ LET s == Head(wire).s IN
       \/ Head(wire).op = "new" /\ (Dispatch(s) \/ DispatchFails(s))
       \/ /\ Head(wire).op = "keep"
          /\ up' = IF ses[s] = "open" THEN [up EXCEPT ![s] = @ + 1] ELSE up
          /\ UNCHANGED <<ses, sock, upEnd, down, downCut, g1, g2>>
       \/ Head(wire).op = "end" /\ CloseSessions({s})
    /\ UNCHANGED <<tunnelVars, clientVars, targetVars, tGot, copyVars>>

\* The frame reader fails or meets the end: the worker closes all sessions,
\* handleMux returns and the connection is closed.
WorkerEnds ==
    /\ hpc = "wait"
    /\ ended
    /\ hpc' = "done"
    /\ CloseSessions(Sessions)
    /\ UNCHANGED <<initial, ended, clientVars, targetVars, wire, tGot, copyVars>>

\* The session's goroutine carries a chunk of the response to the client; a
\* tunnel that has broken makes it close the session.
Respond(s) ==
    /\ ses[s] = "open" /\ down[s] > 0
    /\ IF ended
       THEN CloseSessions({s}) /\ UNCHANGED delivered
       ELSE /\ down' = [down EXCEPT ![s] = @ - 1]
            /\ delivered' = [delivered EXCEPT ![s] = @ + 1]
            /\ UNCHANGED <<ses, sock, up, upEnd, downCut, g1, g2>>
    /\ UNCHANGED <<tunnelVars, clientVars, targetVars, wire, tGot, taken, cutShort>>

-----------------------------------------------------------------------------
(* The goroutines of Dispatch                                              *)

Usable(s) == sock[s] /\ ~tFail[s]

\* Mutated form: the response pipe is interrupted as well.
ResponseEndsInterrupting(s) ==
    /\ g1' = [g1 EXCEPT ![s] = "gone"]
    /\ sock' = [sock EXCEPT ![s] = FALSE]
    /\ down' = [down EXCEPT ![s] = 0]

\* Mutated form: the closer is a field of the dispatcher that sessions share.
ResponseEndsShared(s) ==
    /\ g1' = [g1 EXCEPT ![s] = "gone"]
    /\ sock' = All(FALSE)
    /\ UNCHANGED down

\* The first goroutine: buf.Copy(reader, respW) has returned, closer.Close().
\* The response pipe is not closed.
ResponseEnds(s) ==
    /\ g1' = [g1 EXCEPT ![s] = "gone"]
    /\ sock' = [sock EXCEPT ![s] = FALSE]
    /\ UNCHANGED down

ReadTarget(s) ==
    /\ g1[s] = "read"
    /\ \/ /\ Usable(s) /\ taken[s] < tSent[s]
          /\ taken' = [taken EXCEPT ![s] = @ + 1]
          /\ g1' = [g1 EXCEPT ![s] = "write"]
          /\ UNCHANGED <<sock, down>>
       \/ /\ ~Usable(s) \/ (tFin[s] /\ taken[s] = tSent[s])
          /\ ResponseEnds(s)
          /\ UNCHANGED taken
    /\ UNCHANGED <<tunnelVars, clientVars, targetVars, wire, ses, up, upEnd,
                   downCut, g2, tGot, delivered, cutShort>>

\* respW.WriteMultiBuffer
WriteResponse(s) ==
    /\ g1[s] = "write"
    /\ IF downCut[s]
       THEN /\ ResponseEnds(s)
            /\ cutShort' = IF Usable(s) THEN cutShort \cup {s} ELSE cutShort
       ELSE /\ down' = [down EXCEPT ![s] = @ + 1]
            /\ g1' = [g1 EXCEPT ![s] = "read"]
            /\ UNCHANGED <<sock, cutShort>>
    /\ UNCHANGED <<tunnelVars, clientVars, targetVars, wire, ses, up, upEnd,
                   downCut, g2, tGot, taken, delivered>>

\* Mutated form: the second goroutine leaves the socket open.
RequestEndsOpen(s) ==
    /\ g2' = [g2 EXCEPT ![s] = "gone"]
    /\ UNCHANGED sock

\* The second goroutine: buf.Copy(reqR, writer), then closer.Close().
RequestEnds(s) ==
    /\ g2' = [g2 EXCEPT ![s] = "gone"]
    /\ sock' = [sock EXCEPT ![s] = FALSE]

ReadRequest(s) ==
    /\ g2[s] = "read"
    /\ \/ /\ up[s] > 0
          /\ up' = [up EXCEPT ![s] = @ - 1]
          /\ g2' = [g2 EXCEPT ![s] = "write"]
          /\ UNCHANGED sock
       \/ /\ up[s] = 0 /\ upEnd[s]
          /\ RequestEnds(s)
          /\ UNCHANGED up
    /\ UNCHANGED <<tunnelVars, clientVars, targetVars, wire, ses, upEnd, down,
                   downCut, g1, tGot, copyVars>>

WriteTarget(s) ==
    /\ g2[s] = "write"
    /\ IF Usable(s)
       THEN /\ tGot' = [tGot EXCEPT ![s] = @ + 1]
            /\ g2' = [g2 EXCEPT ![s] = "read"]
            /\ UNCHANGED sock
       ELSE RequestEnds(s) /\ UNCHANGED tGot
    /\ UNCHANGED <<tunnelVars, clientVars, targetVars, wire, ses, up, upEnd,
                   down, downCut, g1, copyVars>>

-----------------------------------------------------------------------------
Worker == handleMux \/ HandleFrame \/ WorkerEnds

Downstream(s) == ReadTarget(s) \/ WriteResponse(s)
Upstream(s)   == ReadRequest(s) \/ WriteTarget(s)

Next ==
    \/ Worker
    \/ TunnelBreaks
    \/ \E s \in Sessions :
          \/ ClientOpens(s) \/ ClientWrites(s) \/ ClientEnds(s) \/ TargetStep(s)
          \/ Respond(s) \/ Downstream(s) \/ Upstream(s)

Spec == Init /\ [][Next]_vars

\* The scheduler runs every goroutine that can go on, and a dial ends.
FairSpec ==
    /\ Spec
    /\ WF_vars(Worker)
    /\ \A s \in Sessions :
        WF_vars(Respond(s)) /\ WF_vars(Downstream(s)) /\ WF_vars(Upstream(s))

-----------------------------------------------------------------------------
(* Properties                                                              *)

InWire(s) ==
    LET frames == initial \o wire
    IN  Cardinality({i \in DOMAIN frames : frames[i] = Frame("keep", s)})

\* Something happened to the session or its target other than the client's
\* own end of it.
Disturbed(s) ==
    ended \/ ses[s] = "failed" \/ tFin[s] \/ tFail[s] \/ s \in cutShort

\* An upload arrives: every chunk the client sent is on the wire, in the
\* request pipe, in the goroutine's hands or with the target, up to and after
\* the client's end of the session, and the frame read with the header is not
\* lost.  The exceptions are a session without a target, a target or a tunnel
\* that ends, and a target that still answers after the client's end, when
\* the response goroutine closes the socket under the request goroutine.
UploadComplete ==
    \A s \in Sessions :
        ~Disturbed(s) =>
            sentUp[s] = InWire(s) + up[s] + tGot[s]
                        + IF g2[s] = "write" THEN 1 ELSE 0

\* An answer arrives: everything the target sends before it finishes reaches
\* the client unless the client ends the session or the tunnel breaks; the
\* end of the first goroutine drops nothing that is still in the pipe.
AnswerComplete ==
    \A s \in Sessions :
        tFin[s] ~> \/ delivered[s] = tSent[s] \/ ended \/ tFail[s]
                   \/ ses[s] = "closed"

\* A session ends with the client or the tunnel, never later: both goroutines
\* return and the target socket is closed, even a UDP socket on which nothing
\* arrives any more.  (When only the target ends, the request goroutine and
\* the session stay until then, since the response pipe is never closed.)
SessionsEnd ==
    \A s \in Sessions :
        (ses[s] = "closed" \/ hpc = "done")
            ~> (g1[s] \in {"off", "gone"} /\ g2[s] \in {"off", "gone"} /\ ~sock[s])

\* The end of one session, its target or its goroutines leaves the others
\* alone: while a session is open its goroutines stop only after its own
\* target has finished or failed.
SessionsIndependent ==
    \A s \in Sessions :
        ses[s] = "open" /\ "gone" \in {g1[s], g2[s]} => tFin[s] \/ tFail[s]
=============================================================================
