------------------------------ MODULE Listener ------------------------------
(***************************************************************************)
(* Hot reload of the listener: Server.UpdateConfig, called by the control  *)
(* loop, against the goroutine of Server.Start                             *)
(* (src/proxy/vless/server.go), with transport.Listen and the bind and     *)
(* wrap order of the transports (src/transport).                           *)
(*                                                                         *)
(* UpdateConfig holds s.mu throughout and is one action.  Start takes s.mu *)
(* only to read port and stream and to publish s.ln, so a configuration    *)
(* may arrive between any two of its steps.  A listener is a record; nil   *)
(* is a listener that is not open, since all the code asks of s.ln is to   *)
(* close it.                                                               *)
(***************************************************************************)
EXTENDS Naturals

CONSTANTS
    Configs,     \* configurations the manager may send
    Decryptions, \* values of vless.decryption
    GoodKeys,    \* those that parse and initialise
    Tables       \* values of the speed limits and short IDs of a configuration

Networks   == {"", "tcp", "ws", "unknown"}
Securities == {"", "none", "tls", "unknown"}

\* settings stands for the transport, TLS and Reality blocks: two well-formed
\* ones, and one their decoder refuses.  "tls" stands for both secure layers.
Settings == {"a", "b", "bad"}
Streams  == [network : Networks, security : Securities, settings : Settings]
VlessCfg == [decryption : Decryptions, flow : {"", "vision"}]

ASSUME ConfigAssumption ==
    \A cfg \in Configs :
        /\ cfg.port \in Nat
        /\ cfg.stream \in Streams
        /\ cfg.vless \in VlessCfg
        /\ cfg.tables \in Tables
ASSUME KeyAssumption ==
    /\ "" \in Decryptions /\ "" \in Tables
    /\ GoodKeys \subseteq Decryptions \ {"", "none"}

VARIABLES
    port,       \* s.port
    stream,     \* s.stream
    vless,      \* s.vless
    decryption, \* s.decryption: the string it was built from, "" = nil
    tables,     \* global limiters and short-ID map, as the config gives them
    ln,         \* s.ln
    pc,         \* where Start is
    rPort,      \* Start's local port ...
    rStream,    \* ... and stream
    leaked,     \* ports of open sockets that nothing references any more
    last,       \* history: the configuration delivered last
    raced,      \* history: s.ln was published for an outdated configuration
    faulted     \* history: Accept failed on a listener that is still open

configVars == <<port, stream, vless, decryption, tables, last>>
startVars  == <<pc, rPort, rStream>>
vars       == <<configVars, startVars, ln, leaked, raced, faulted>>

ZeroStream == [network |-> "", security |-> "", settings |-> "a"]
ZeroVless  == [decryption |-> "", flow |-> ""]
ListenerOn(p, s) == [port |-> p, stream |-> s, open |-> TRUE]
NilListener      == [port |-> 0, stream |-> ZeroStream, open |-> FALSE]

\* Fields, listener and program counter have the types of the Go struct.
TypeOK ==
    /\ port \in Nat
    /\ stream \in Streams
    /\ vless \in VlessCfg
    /\ decryption \in GoodKeys \cup {""}
    /\ tables \in Tables
    /\ ln \in [port : Nat, stream : Streams, open : BOOLEAN]
    /\ pc \in {"read", "listen", "publish", "accept"}
    /\ rPort \in Nat
    /\ rStream \in Streams
    /\ leaked \in SUBSET Nat
    /\ raced \in BOOLEAN
    /\ faulted \in BOOLEAN

\* NewServer: the zero configuration, no listener.
Init ==
    /\ port = 0
    /\ stream = ZeroStream
    /\ vless = ZeroVless
    /\ decryption = ""
    /\ tables = ""
    /\ ln = NilListener
    /\ pc = "read"
    /\ rPort = 0
    /\ rStream = ZeroStream
    /\ leaked = {}
    /\ last = [port |-> 0, stream |-> ZeroStream, vless |-> ZeroVless, tables |-> ""]
    /\ raced = FALSE
    /\ faulted = FALSE

-----------------------------------------------------------------------------
(* Configuration                                                           *)

\* transportName and transport.Listen: the empty network is tcp.
Network(s) == IF s.network = "" THEN "tcp" ELSE s.network

streamEqual(a, b) ==
    /\ Network(a) = Network(b)
    /\ a.security = b.security
    /\ a.settings = b.settings

\* rebuildDecryptionLocked: an empty, "none" or invalid string disables v2.
Instance(d) == IF d \in GoodKeys THEN d ELSE ""

\* Mutated form: only the decryption string is compared.
VlessEqualButFlow(a, b) == a.decryption = b.decryption

vlessEqual(a, b) == a = b

\* The defensive checks: no flow without security or off tcp.
AllowedFlow(cfg) ==
    IF cfg.stream.security = "none" \/ cfg.stream.network \notin {"", "tcp"}
    THEN "" ELSE cfg.vless.flow

\* Mutated form: the listener is closed when nothing it depends on changed.
ClosesAlways(cfg) == TRUE

\* Mutated form: a change of the stream alone does not close it.
ClosesOnPortOnly(cfg) == port # cfg.port

ListenerChanged(cfg) == port # cfg.port \/ ~streamEqual(stream, cfg.stream)

UpdateConfig(cfg) ==
    /\ port' = cfg.port
    /\ stream' = IF streamEqual(stream, cfg.stream) THEN stream ELSE cfg.stream
    /\ IF vlessEqual(vless, cfg.vless)
       THEN UNCHANGED <<vless, decryption>>
       ELSE /\ vless' = [cfg.vless EXCEPT !.flow = AllowedFlow(cfg)]
            /\ decryption' = Instance(cfg.vless.decryption)
    /\ tables' = cfg.tables
    /\ IF ListenerChanged(cfg)
       THEN ln' = [ln EXCEPT !.open = FALSE] /\ faulted' = FALSE
       ELSE UNCHANGED <<ln, faulted>>
    /\ last' = cfg
    /\ UNCHANGED <<startVars, leaked, raced>>

-----------------------------------------------------------------------------
(* Start                                                                   *)

\* The top of the loop; with port 0 it only sleeps.
ReadConfig ==
    /\ pc = "read"
    /\ port # 0
    /\ rPort' = port
    /\ rStream' = stream
    /\ pc' = "listen"
    /\ UNCHANGED <<configVars, ln, leaked, raced, faulted>>

\* security.Wrap: the TLS or Reality block has to decode.
SecurityDecodes(s) ==
    \/ s.security \in {"", "none"}
    \/ s.security = "tls" /\ s.settings # "bad"

\* The ws and xhttp transports decode settings of their own; tcp has none.
TransportDecodes(s) == Network(s) = "ws" => s.settings # "bad"

PortFree(p) == p \notin leaked /\ ~(ln.open /\ ln.port = p)

\* Can a listener for s be built, once its port is free?
Builds(s) ==
    Network(s) # "unknown" /\ SecurityDecodes(s) /\ TransportDecodes(s)

ListenSucceeds ==
    /\ pc = "listen"
    /\ Builds(rStream)
    /\ PortFree(rPort)
    /\ pc' = "publish"
    /\ UNCHANGED <<configVars, rPort, rStream, ln, leaked, raced, faulted>>

\* tcp binds before it wraps: when the wrap fails, the bound socket is
\* dropped without Close.  The other transports decode everything before
\* they bind, an unknown network fails in Get.
ListenFails ==
    /\ pc = "listen"
    /\ ~(Builds(rStream) /\ PortFree(rPort))
    /\ leaked' = IF Network(rStream) = "tcp" /\ PortFree(rPort)
                 THEN leaked \cup {rPort} ELSE leaked
    /\ pc' = "read"
    /\ UNCHANGED <<configVars, rPort, rStream, ln, raced, faulted>>

\* Overwriting s.ln drops the only reference to the old listener.
Publish ==
    /\ pc = "publish"
    /\ ln' = ListenerOn(rPort, rStream)
    /\ leaked' = IF ln.open THEN leaked \cup {ln.port} ELSE leaked
    /\ raced' = (rPort # port \/ ~streamEqual(rStream, stream))
    /\ faulted' = FALSE
    /\ pc' = "accept"
    /\ UNCHANGED <<configVars, rPort, rStream>>

\* Mutated form: the accept loop is left while the listener is open.
LeavesOpenListener ==
    /\ pc = "accept"
    /\ pc' = "read"
    /\ UNCHANGED <<configVars, rPort, rStream, ln, leaked, raced, faulted>>

\* Accept returns the error of a closed listener.
AcceptClosed ==
    /\ pc = "accept"
    /\ ~ln.open
    /\ pc' = "read"
    /\ UNCHANGED <<configVars, rPort, rStream, ln, leaked, raced, faulted>>

\* Accept of a tcp socket fails for another reason, such as a lack of file
\* descriptors: the loop is left and the listener stays open.
AcceptFails ==
    /\ pc = "accept"
    /\ ln.open
    /\ Network(ln.stream) = "tcp"
    /\ pc' = "read"
    /\ faulted' = TRUE
    /\ UNCHANGED <<configVars, rPort, rStream, ln, leaked, raced>>

\* The garbage collector finalizes an unreferenced socket and closes it.
Finalize ==
    /\ \E p \in leaked : leaked' = leaked \ {p}
    /\ UNCHANGED <<configVars, startVars, ln, raced, faulted>>

StartStep == ReadConfig \/ ListenSucceeds \/ ListenFails \/ Publish \/ AcceptClosed

Next ==
    \/ \E cfg \in Configs : UpdateConfig(cfg)
    \/ StartStep
    \/ AcceptFails
    \/ Finalize

Spec == Init /\ [][Next]_vars

\* Start runs in a goroutine of its own and sleeps for bounded times; the Go
\* runtime forces a collection every two minutes.
FairSpec == Spec /\ WF_vars(StartStep) /\ WF_vars(Finalize)

-----------------------------------------------------------------------------
(* Properties                                                              *)

\* The server runs the last configuration it was given, whatever sequence of
\* configurations led to it: port, transport, tables and the v2 instance are
\* those of the last one, a flow that the last one may use is in force, and
\* no flow of an earlier one survives (UpdateConfig's change detection
\* compares against a stored copy whose flow may have been cleared).
LastConfigApplied ==
    /\ port = last.port
    /\ streamEqual(stream, last.stream)
    /\ tables = last.tables
    /\ decryption = Instance(last.vless.decryption)
    /\ AllowedFlow(last) # "" => vless.flow = AllowedFlow(last)
    /\ vless.flow \in {"", last.vless.flow}

\* A listener that Start accepts from serves the current port and transport,
\* unless the configuration changed after Start had read it and before it
\* published the listener, when UpdateConfig had nothing to close.
StaleOnlyByRace ==
    pc = "accept" /\ ln.open /\ ~raced
        => ln.port = port /\ streamEqual(ln.stream, stream)

\* No listener is left open with nobody accepting from it, except after a
\* failed Accept: whenever Start is about to bind, the previous listener is
\* closed and cannot hold the port.
NoUnattendedListener ==
    pc # "accept" /\ ~faulted => ~ln.open

\* A published listener is closed only to follow a change of port or
\* transport: other changes (decryption, flow, limits) keep it.
RebindOnlyOnChange ==
    [][ln.open /\ ~ln'.open
        => port' # port \/ ~streamEqual(stream', stream)]_vars

Serving ==
    pc = "accept" /\ ln.open /\ ln.port = port /\ streamEqual(ln.stream, stream)

Quiet ==
    <>[][~AcceptFails /\ ~\E cfg \in Configs : UpdateConfig(cfg)]_vars

\* Once configurations stop arriving, Start ends up serving the current one
\* if it is one that can be served, through leaked sockets and retries,
\* unless the last rebind raced or an Accept failed.
Converges ==
    Quiet => <>[](\/ Serving \/ raced \/ faulted
                  \/ port = 0 \/ ~Builds(stream))
=============================================================================
