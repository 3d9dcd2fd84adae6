------------------------------- MODULE Relay --------------------------------
(***************************************************************************)
(* One connection from the moment its target is known (the end of          *)
(* handleConnection, handleTCP, handleUDP and handleTCPVision in           *)
(* src/proxy/vless): dial, write what came with the header, start one copy *)
(* goroutine per direction, wait for the first of them on errChan, run the *)
(* deferred closes.                                                        *)
(*                                                                         *)
(* Data is a number of chunks: a read or a datagram of any size.  A write  *)
(* to the client and the addTraffic that follows it are one step here; the *)
(* step between the two belongs to module VlessServer.                     *)
(***************************************************************************)
EXTENDS Naturals

CONSTANTS
    Kinds,    \* relays to model: a subset of {"tcp", "udp", "vision"}
    MaxSend   \* bound on the chunks each peer sends

ASSUME RelayAssumption ==
    Kinds \subseteq {"tcp", "udp", "vision"} /\ MaxSend \in Nat \ {0}

Dirs  == {"up", "down"}      \* client -> destination, destination -> client
Peers == {"client", "dest"}

VARIABLES
    kind,      \* which relay handleConnection chose
    hpc,       \* where the handler is
    cpc,       \* where the copy goroutine of each direction is
    left,      \* chunks of initialData not yet taken
    sent,      \* chunks the source has sent, initialData included
    fin,       \* the peer has finished sending
    reset,     \* the peer's connection has failed
    sock,      \* our end of the peer's connection is open
    halfClosed,\* we have called CloseWrite on it
    got,       \* chunks read
    delivered, \* chunks written to the sink
    counted,   \* chunks passed to addTraffic
    errs,      \* values in errChan
    cut        \* UpdateUsers or a quota cut has closed the client's connection

peerVars == <<sent, fin, reset>>
vars == <<kind, hpc, cpc, left, peerVars, sock, halfClosed, got, delivered,
          counted, errs, cut>>

Source(d) == IF d = "up" THEN "client" ELSE "dest"
Sink(d)   == IF d = "up" THEN "dest" ELSE "client"

\* Counters, sockets and program counters are in range; errChan holds at most
\* the two values it was made for.
TypeOK ==
    /\ kind \in Kinds
    /\ hpc \in {"dial", "initial", "relay", "closeDest", "closeClient", "done"}
    /\ cpc \in [Dirs -> {"off", "read", "write", "half", "send", "gone"}]
    /\ left \in 0..1
    /\ sent \in [Dirs -> 0..MaxSend]
    /\ fin \in [Peers -> BOOLEAN]
    /\ reset \in [Peers -> BOOLEAN]
    /\ sock \in [Peers -> BOOLEAN]
    /\ halfClosed \in [Peers -> BOOLEAN]
    /\ got \in [Dirs -> 0..MaxSend]
    /\ delivered \in [Dirs -> 0..MaxSend]
    /\ counted \in [Dirs -> 0..(MaxSend + 1)]
    /\ errs \in 0..2
    /\ cut \in BOOLEAN

\* The request is parsed; initialData came with the header and was counted
\* with it.
Init ==
    /\ kind \in Kinds
    /\ hpc = "dial"
    /\ cpc = [d \in Dirs |-> "off"]
    /\ left \in 0..1
    /\ sent = [d \in Dirs |-> IF d = "up" THEN left ELSE 0]
    /\ fin = [p \in Peers |-> FALSE]
    /\ reset = [p \in Peers |-> FALSE]
    /\ sock = [p \in Peers |-> p = "client"]
    /\ halfClosed = [p \in Peers |-> FALSE]
    /\ got = [d \in Dirs |-> 0]
    /\ delivered = [d \in Dirs |-> 0]
    /\ counted = sent
    /\ errs = 0
    /\ cut = FALSE

-----------------------------------------------------------------------------
(* The peers (external) and the control loop                               *)

Connected(p) == p = "client" \/ sock["dest"]

Sends(d) ==
    /\ Connected(Source(d)) /\ ~fin[Source(d)] /\ ~reset[Source(d)]
    /\ sent[d] < MaxSend
    /\ sent' = [sent EXCEPT ![d] = @ + 1]
    /\ UNCHANGED <<kind, hpc, cpc, left, fin, reset, sock, halfClosed, got,
                   delivered, counted, errs, cut>>

\* The peer half-closes its side; a UDP destination cannot.
Finishes(p) ==
    /\ Connected(p) /\ ~fin[p] /\ ~reset[p]
    /\ ~(p = "dest" /\ kind = "udp")
    /\ fin' = [fin EXCEPT ![p] = TRUE]
    /\ UNCHANGED <<kind, hpc, cpc, left, sent, reset, sock, halfClosed, got,
                   delivered, counted, errs, cut>>

Fails(p) ==
    /\ Connected(p) /\ ~reset[p]
    /\ reset' = [reset EXCEPT ![p] = TRUE]
    /\ UNCHANGED <<kind, hpc, cpc, left, sent, fin, sock, halfClosed, got,
                   delivered, counted, errs, cut>>

\* UpdateUsers or accrueQuotaLocked closes the tracked connection.
ServerCloses ==
    /\ hpc \in {"dial", "initial", "relay"}
    /\ ~cut
    /\ cut' = TRUE
    /\ sock' = [sock EXCEPT !["client"] = FALSE]
    /\ UNCHANGED <<kind, hpc, cpc, left, peerVars, halfClosed, got, delivered,
                   counted, errs>>

-----------------------------------------------------------------------------
(* The handler                                                             *)

Usable(p) == sock[p] /\ ~reset[p]

\* The dial, or the set-up of the Vision connection before it, fails.
DialFails ==
    /\ hpc = "dial"
    /\ hpc' = "closeClient"
    /\ UNCHANGED <<kind, cpc, left, peerVars, sock, halfClosed, got, delivered,
                   counted, errs, cut>>

\* handleTCP writes initialData itself; the others let the copy read it.
DialSucceeds ==
    /\ hpc = "dial"
    /\ sock' = [sock EXCEPT !["dest"] = TRUE]
    /\ IF kind = "tcp" /\ left > 0
       THEN hpc' = "initial" /\ UNCHANGED cpc
       ELSE hpc' = "relay" /\ cpc' = [d \in Dirs |-> "read"]
    /\ UNCHANGED <<kind, left, peerVars, halfClosed, got, delivered, counted,
                   errs, cut>>

\* Mutated form: initialData is dropped.
DropInitial == UNCHANGED delivered

ForwardInitial == delivered' = [delivered EXCEPT !["up"] = left]

WriteInitial ==
    /\ hpc = "initial"
    /\ IF Usable("dest")
       THEN /\ ForwardInitial
            /\ left' = 0
            /\ got' = [got EXCEPT !["up"] = left]
            /\ hpc' = "relay"
            /\ cpc' = [d \in Dirs |-> "read"]
       ELSE /\ hpc' = "closeDest"
            /\ UNCHANGED <<delivered, left, got, cpc>>
    /\ UNCHANGED <<kind, peerVars, sock, halfClosed, counted, errs, cut>>

\* <-errChan
Wait ==
    /\ hpc = "relay"
    /\ errs > 0
    /\ errs' = errs - 1
    /\ hpc' = "closeDest"
    /\ UNCHANGED <<kind, cpc, left, peerVars, sock, halfClosed, got, delivered,
                   counted, cut>>

\* Deferred: destConn.Close first, then (in handleConnection) conn.Close.
CloseDest ==
    /\ hpc = "closeDest"
    /\ sock' = [sock EXCEPT !["dest"] = FALSE]
    /\ hpc' = "closeClient"
    /\ UNCHANGED <<kind, cpc, left, peerVars, halfClosed, got, delivered,
                   counted, errs, cut>>

CloseClient ==
    /\ hpc = "closeClient"
    /\ sock' = [sock EXCEPT !["client"] = FALSE]
    /\ hpc' = "done"
    /\ UNCHANGED <<kind, cpc, left, peerVars, halfClosed, got, delivered,
                   counted, errs, cut>>

-----------------------------------------------------------------------------
(* The copy goroutines                                                     *)

\* countingConn counts what it reads from and writes to the client;
\* accountReader counts both directions at the read side of the copy.
CountsAtRead(d) == d = "up" \/ kind = "vision"

\* Mutated form: only the uplink is passed to addTraffic.
CountUplink(d, yes) ==
    counted' = IF yes /\ d = "up" THEN [counted EXCEPT ![d] = @ + 1] ELSE counted

Count(d, yes) ==
    counted' = IF yes THEN [counted EXCEPT ![d] = @ + 1] ELSE counted

\* Does the reader over initialData count what the header read has counted?
SeedCounted == kind = "vision"

\* initialData is the head of the MultiReader: countingConn does not see it,
\* accountReader does.
ReadInitial ==
    /\ cpc["up"] = "read"
    /\ left > 0
    /\ left' = 0
    /\ got' = [got EXCEPT !["up"] = @ + 1]
    /\ cpc' = [cpc EXCEPT !["up"] = "write"]
    /\ Count("up", SeedCounted)
    /\ UNCHANGED <<kind, hpc, peerVars, sock, halfClosed, delivered, errs, cut>>

Drained(d) == d = "up" => left = 0

ReadChunk(d) ==
    /\ cpc[d] = "read"
    /\ Drained(d)
    /\ Usable(Source(d))
    /\ got[d] < sent[d]
    /\ got' = [got EXCEPT ![d] = @ + 1]
    /\ cpc' = [cpc EXCEPT ![d] = "write"]
    /\ Count(d, CountsAtRead(d))
    /\ UNCHANGED <<kind, hpc, left, peerVars, sock, halfClosed, delivered, errs,
                   cut>>

\* The copy of direction d returns; handleTCP half-closes the sink next.
CopyReturns(d) ==
    cpc' = [cpc EXCEPT ![d] = IF kind = "tcp" THEN "half" ELSE "send"]

AtEnd(d) ==
    \/ ~Usable(Source(d))
    \/ fin[Source(d)] /\ got[d] = sent[d]

\* The read fails or returns end of file.
ReadEnds(d) ==
    /\ cpc[d] = "read"
    /\ Drained(d)
    /\ AtEnd(d)
    /\ CopyReturns(d)
    /\ UNCHANGED <<kind, hpc, left, peerVars, sock, halfClosed, got, delivered,
                   counted, errs, cut>>

Write(d) ==
    /\ cpc[d] = "write"
    /\ IF Usable(Sink(d))
       THEN /\ delivered' = [delivered EXCEPT ![d] = @ + 1]
            /\ Count(d, ~CountsAtRead(d))
            /\ cpc' = [cpc EXCEPT ![d] = "read"]
       ELSE CopyReturns(d) /\ UNCHANGED <<delivered, counted>>
    /\ UNCHANGED <<kind, hpc, left, peerVars, sock, halfClosed, got, errs, cut>>

closeWrite(d) ==
    /\ cpc[d] = "half"
    /\ halfClosed' = [halfClosed EXCEPT ![Sink(d)] = @ \/ sock[Sink(d)]]
    /\ cpc' = [cpc EXCEPT ![d] = "send"]
    /\ UNCHANGED <<kind, hpc, left, peerVars, sock, got, delivered, counted,
                   errs, cut>>

\* Mutated form: make(chan error)
Unbuffered == 0

ErrChanCap == 2

\* errChan <- err: there is room, or the handler is waiting to take it.
SendErr(d) ==
    /\ cpc[d] = "send"
    /\ errs < ErrChanCap \/ (errs = 0 /\ hpc = "relay")
    /\ errs' = errs + 1
    /\ cpc' = [cpc EXCEPT ![d] = "gone"]
    /\ UNCHANGED <<kind, hpc, left, peerVars, sock, halfClosed, got, delivered,
                   counted, cut>>

-----------------------------------------------------------------------------
Handler ==
    \/ DialFails \/ DialSucceeds \/ WriteInitial \/ Wait \/ CloseDest \/ CloseClient

Copy(d) ==
    \/ d = "up" /\ ReadInitial
    \/ ReadChunk(d) \/ ReadEnds(d) \/ Write(d) \/ closeWrite(d) \/ SendErr(d)

Environment ==
    \/ \E d \in Dirs : Sends(d)
    \/ \E p \in Peers : Finishes(p) \/ Fails(p)
    \/ ServerCloses

Next == Handler \/ (\E d \in Dirs : Copy(d)) \/ Environment

Spec == Init /\ [][Next]_vars

\* The dial has a timeout and the scheduler runs every goroutine that can go
\* on.  Nothing is assumed of the peers.
FairSpec == Spec /\ WF_vars(Handler) /\ \A d \in Dirs : WF_vars(Copy(d))

-----------------------------------------------------------------------------
(* Properties                                                              *)

\* Something other than the end of a stream happened to the connection.
Disturbed == cut \/ \E p \in Peers : reset[p]

\* When the relay of an undisturbed connection ends, the direction that ended
\* it is complete: its source had finished, and everything it sent, what came
\* with the header included, was written to the other side.
EndedDirectionComplete ==
    hpc \in {"closeDest", "closeClient", "done"} /\ ~Disturbed
    /\ (\E d \in Dirs : cpc[d] # "off")
        => \E d \in Dirs : fin[Source(d)] /\ delivered[d] = sent[d]

\* Nothing is carried for free and nothing is charged twice, on whichever
\* relay and in whichever order the two directions end: whatever reached a
\* peer has been passed to addTraffic, and no more than was sent.  The one
\* exception is what came with a Vision header, counted with the header and
\* again by accountReader.
CarriedIsCountedOnce ==
    \A d \in Dirs :
        /\ delivered[d] <= counted[d]
        /\ counted[d] > sent[d]
            => kind = "vision" /\ d = "up" /\ counted[d] = sent[d] + 1

\* No goroutine outlives the connection: once one direction ends, or the
\* server closes the client's connection, the handler returns and the other
\* copy, blocked on its socket or on errChan, ends as well.
NoGoroutineLeft ==
    (cut \/ \E d \in Dirs : cpc[d] \in {"half", "send"})
        ~> (hpc = "done" /\ \A d \in Dirs : cpc[d] \in {"off", "gone"})

\* handler.go:272-273: "Client finished sending: half-close toward destination
\* so its read sees EOF and the dest->client copy below can return", and
\* handler.go:291-292, "enabling proper TCP half-close propagation in the
\* relay": an undisturbed TCP relay ends when both sides have finished.
HalfCloseHonoured ==
    kind = "tcp" /\ hpc \in {"closeClient", "done"} /\ ~Disturbed
    /\ (\E d \in Dirs : cpc[d] # "off")
        => \A p \in Peers : fin[p]
=============================================================================
