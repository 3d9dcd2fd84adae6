----------------------------- MODULE Handshake ------------------------------
(***************************************************************************)
(* The way of one connection from Accept to its relay (src/proxy/vless:    *)
(* handleConnection in handler.go, setupVisionConn in vision.go), while    *)
(* UpdateConfig replaces the v2 decryption instance (server.go).           *)
(*                                                                         *)
(* Lengths are bytes as on the wire; of the contents only what decides is  *)
(* kept.  A byte that has not arrived is a zero of the fresh buffer.       *)
(* handleConnection reads s.decryption without s.mu, so each of its reads  *)
(* is a step and rebuildDecryptionLocked is two: nil, then the instance.   *)
(* An instance is named by its key.  User lookup and quota gate are those  *)
(* of VlessServer; what the relays do is in Relay and Mux.                 *)
(***************************************************************************)
EXTENDS Naturals

CONSTANTS
    Keys,      \* decryption settings that yield an instance
    Configs,   \* [decryption, flow, stream] the manager may send
    Requests,  \* what the client sends, see RequestType
    MuxOn      \* s.enableMux

Nil     == "nil"                            \* no instance, no key
XRV     == "xtls-rprx-vision"
BufLen  == 512                              \* buf := make([]byte, 512)
Prefix  == 1 + 16 + 1                       \* version, uuid, addonsLen
Tail    == 1 + 2 + 1                        \* command, port, address type
Streams == {"tcp+none", "tcp+tls", "tcp+reality", "ws+tls"}
Ends    == {"idle", "done", "refused", "panic"}
Relays  == {"tcp", "udp", "mux", "vision"}
Steps   == {"accepted", "tunnel", "prefix", "lookup", "addons", "flow",
            "exclusive", "dispatch", "target", "setup"}

RequestType ==
    [key     : Keys \cup {Nil},             \* of the client's v2 tunnel
     outer   : {"tls13", "tls12", "reality", "other"},  \* type of the conn
     addons  : 0..255, flow : {XRV, ""},
     cmd     : {"tcp", "udp", "mux", "unsupported"},
     atype   : {"ipv4", "domain", "ipv6", "invalid"},
     domain  : 0..255,                      \* length of the domain
     payload : Nat]                         \* bytes that follow the header

ConfigType == [decryption : Keys \cup {"none", "invalid"}, flow : {XRV, ""},
               stream : Streams]

ASSUME HandshakeAssumption ==
    /\ Keys \cap {Nil, "none", "invalid"} = {}
    /\ Configs \subseteq ConfigType
    /\ Requests \subseteq RequestType
    /\ MuxOn \in BOOLEAN

VARIABLES
    decryption, \* s.decryption: the key of its instance, or Nil
    vless,      \* s.vless: [decryption, flow]
    applying,   \* {the config UpdateConfig is applying with s.mu held}, or {}
    req,        \* the request on the wire
    pc,         \* where the handler is
    seen,       \* the instance its first read of s.decryption found
    layer,      \* the tunnel conn is wrapped in: a key, or Nil
    n,          \* bytes of the header read into buf
    flow,       \* the flow decoded from the addons
    initial,    \* bytes handed to the relay as initial data
    addonsCut,  \* history: the addons were decoded before they had arrived
    required,   \* history: every setting since Accept named a usable key
    steady,     \* history: no setting has changed since Accept
    torn        \* history: a read of s.decryption fell into a rebuild

serverVars == <<decryption, vless, applying>>
parseVars  == <<n, flow, initial, addonsCut>>
vars == <<serverVars, req, pc, seen, layer, parseVars, required, steady, torn>>

(* Settings, program counter and buffer positions are in range.            *)
TypeOK ==
    /\ decryption \in Keys \cup {Nil}
    /\ vless \in [decryption : Keys \cup {"none", "invalid"}, flow : {XRV, ""}]
    /\ applying \in {{}} \cup {{cfg} : cfg \in Configs}
    /\ req \in Requests
    /\ pc \in Ends \cup Relays \cup Steps
    /\ seen \in Keys \cup {Nil} /\ layer \in Keys \cup {Nil}
    /\ n \in 0..BufLen /\ initial \in 0..BufLen
    /\ flow \in {XRV, "", "garbled"}
    /\ {addonsCut, required, steady, torn} \subseteq BOOLEAN

\* NewServer, and a client that will connect.
Init ==
    /\ decryption = Nil
    /\ vless = [decryption |-> "none", flow |-> ""]
    /\ applying = {}
    /\ req \in Requests
    /\ pc = "idle" /\ seen = Nil /\ layer = Nil
    /\ n = 0 /\ flow = "" /\ initial = 0
    /\ addonsCut = FALSE /\ required = FALSE /\ steady = FALSE /\ torn = FALSE

Locked == applying # {}
Usable(d) == IF d \in Keys THEN d ELSE Nil

-----------------------------------------------------------------------------
(* UpdateConfig, as far as the handler sees it                             *)

\* Flow is cleared where Vision cannot run, but only when the VLESS part has
\* changed: a change of the stream alone leaves s.vless as it is.
Sanitized(cfg) ==
    [decryption |-> cfg.decryption,
     flow |-> IF cfg.stream \in {"tcp+none", "ws+tls"} THEN "" ELSE cfg.flow]

vlessEqual(cfg) ==
    vless.decryption = cfg.decryption /\ vless.flow = cfg.flow

\* UpdateConfig takes s.mu and tears the old instance down.
BeginUpdate(cfg) ==
    /\ ~Locked /\ ~vlessEqual(cfg)
    /\ applying' = {cfg}
    /\ decryption' = Nil
    /\ UNCHANGED <<vless, req, pc, seen, layer, parseVars, required, steady, torn>>

\* Mutated form: a setting whose keys do not parse keeps no instance, but one
\* that does is only built if there was none.
RebuiltOnce(d) == IF vless.decryption \in Keys THEN vless.decryption ELSE Usable(d)

\* "none" and settings that do not parse or Init disable v2.
Rebuilt(d) == Usable(d)

FinishUpdate ==
    /\ \E cfg \in applying : /\ decryption' = Rebuilt(cfg.decryption)
                             /\ vless' = Sanitized(cfg)
    /\ applying' = {}
    /\ required' = (required /\ vless'.decryption \in Keys)
    /\ steady' = FALSE
    /\ UNCHANGED <<req, pc, seen, layer, parseVars, torn>>

-----------------------------------------------------------------------------
(* The handler                                                             *)

Goto(label) == pc' = label /\ UNCHANGED <<serverVars, req, required, steady>>

Accept ==
    /\ pc = "idle"
    /\ pc' = "accepted"
    /\ required' = (vless.decryption \in Keys)
    /\ steady' = ~Locked
    /\ UNCHANGED <<serverVars, req, seen, layer, parseVars, torn>>

\* if s.decryption != nil
CheckDecryption ==
    /\ pc = "accepted"
    /\ seen' = decryption
    /\ torn' = Locked
    /\ Goto(IF decryption = Nil THEN "prefix" ELSE "tunnel")
    /\ UNCHANGED <<layer, parseVars>>

\* Mutated form: a client that fails the v2 handshake goes on without it.
FallsBack(inst) == IF inst = Nil THEN "panic" ELSE "prefix"

HandshakeLeadsTo(inst) ==
    IF inst = Nil THEN "panic" ELSE IF inst = req.key THEN "prefix" ELSE "refused"

\* s.decryption.Handshake(conn, nil): the build may load the pointer again or
\* use the one just compared; a call on nil dereferences it.
DoHandshake ==
    /\ pc = "tunnel"
    /\ \E inst \in {seen, decryption} :
          /\ Goto(HandshakeLeadsTo(inst))
          /\ layer' = IF inst = req.key THEN inst ELSE Nil
          /\ torn' = (torn \/ inst = Nil)
    /\ UNCHANGED <<seen, parseVars>>

AddrStart == Prefix + req.addons + Tail
AddrLen   == CASE req.atype = "ipv4" -> 4
               [] req.atype = "ipv6" -> 16
               [] req.atype = "domain" -> 1 + req.domain
               [] OTHER -> 0
\* The end of the header by the wire layout: Mux has no port and no address.
HeaderLen == IF req.cmd = "mux" THEN Prefix + req.addons + 1 ELSE AddrStart + AddrLen
Sent      == HeaderLen + req.payload

\* What a ReadAtLeast(buf[n:], at least min) may leave n at.
ReadUpTo(least) == {k \in least..BufLen : k <= Sent}

\* The first read, and the version byte: inside an unopened tunnel the bytes
\* are ciphertext and no header.
ReadPrefix ==
    /\ pc = "prefix"
    /\ \E k \in ReadUpTo(Prefix) : n' = k
    /\ Goto(IF layer = req.key THEN "lookup" ELSE "done")
    /\ UNCHANGED <<seen, layer, flow, initial, addonsCut, torn>>

\* s.users and the quota gate, each under s.mu; then addConn and addTraffic.
LookupUser ==
    /\ pc = "lookup" /\ ~Locked
    /\ \E known \in BOOLEAN : Goto(IF known THEN "addons" ELSE "done")
    /\ UNCHANGED <<seen, layer, parseVars, torn>>

\* proto.Unmarshal(buf[18:18+addonsLen]), awaited or not: where the message is
\* cut short the zeros in its place read as an illegal tag or as content.
Decoded == IF n >= Prefix + req.addons THEN {req.flow}
           ELSE IF n < Prefix + 2 THEN {"error"}
           ELSE {"error", "garbled", req.flow}

Needed == Prefix + req.addons + Tail

\* The addons, and a second read when command, port or address type is missing.
ReadAddons ==
    /\ pc = "addons"
    /\ addonsCut' = (n < Prefix + req.addons)
    /\ \E f \in Decoded :
          IF f = "error" THEN Goto("done") /\ UNCHANGED <<n, flow>>
          ELSE /\ flow' = f
               /\ IF n >= Needed THEN n' = n ELSE \E k \in ReadUpTo(Needed) : n' = k
               /\ Goto("flow")
    /\ UNCHANGED <<seen, layer, initial, torn>>

isVision == flow = XRV

\* allowedFlow := s.vless.Flow, under s.mu
FlowGate ==
    /\ pc = "flow"
    /\ isVision => ~Locked
    /\ Goto(IF ~isVision THEN "dispatch"
            ELSE IF vless.flow = XRV THEN "exclusive" ELSE "refused")
    /\ UNCHANGED <<seen, layer, parseVars, torn>>

\* if s.decryption != nil: the third read without the lock
ExclusiveGate ==
    /\ pc = "exclusive"
    /\ torn' = (torn \/ Locked)
    /\ Goto(IF decryption = Nil THEN "dispatch" ELSE "refused")
    /\ UNCHANGED <<seen, layer, parseVars>>

\* switch cmd; a mux tunnel gets everything after the command byte.
Dispatch ==
    /\ pc = "dispatch"
    /\ \/ /\ req.cmd = "mux" /\ MuxOn
          /\ initial' = n - (Prefix + req.addons + 1)
          /\ Goto(IF isVision THEN "setup" ELSE "mux")
       \/ /\ req.cmd = "unsupported" \/ (req.cmd = "mux" /\ ~MuxOn)
          /\ Goto("done") /\ UNCHANGED initial
       \/ /\ req.cmd \in {"tcp", "udp"}
          /\ Goto("target") /\ UNCHANGED initial
    /\ UNCHANGED <<seen, layer, n, flow, addonsCut, torn>>

\* Mutated form: the length byte of a domain is taken for its first letter.
AddrEndUncounted ==
    IF req.atype = "domain" THEN AddrStart + (IF n > AddrStart THEN req.domain ELSE 0)
    ELSE AddrStart + AddrLen

\* Mutated form: an IPv4 address is taken in its 16-byte form.
AddrEndMapped ==
    CASE req.atype = "domain" -> AddrStart + 1 + (IF n > AddrStart THEN req.domain ELSE 0)
      [] req.atype = "ipv4" -> AddrStart + 16
      [] OTHER -> AddrStart + AddrLen

\* curr after the address: a domain length that has not arrived is zero.
AddrEnd ==
    IF req.atype = "domain" THEN AddrStart + 1 + (IF n > AddrStart THEN req.domain ELSE 0)
    ELSE AddrStart + AddrLen

\* Port and address, the response, and the slice buf[curr:n].
ParseTarget ==
    /\ pc = "target"
    /\ LET refusal == req.atype = "invalid" \/ (isVision /\ req.cmd = "udp")
           inRange == AddrEnd <= n
       IN  /\ Goto(CASE AddrEnd > BufLen -> "panic"
                     [] AddrEnd <= BufLen /\ refusal -> "done"
                     [] ~refusal /\ ~inRange /\ AddrEnd <= BufLen -> "panic"
                     [] OTHER -> IF isVision THEN "setup" ELSE req.cmd)
           /\ initial' = IF inRange /\ ~refusal THEN n - AddrEnd ELSE 0
    /\ UNCHANGED <<seen, layer, n, flow, addonsCut, torn>>

\* Mutated form: any connection is taken for a TLS connection.
AnyConn == TRUE

\* The type switch of setupVisionConn: a wrapped conn is neither type.
DirectConn == layer = Nil /\ req.outer \in {"tls13", "reality"}

SetupVision ==
    /\ pc = "setup"
    /\ Goto(IF DirectConn THEN "vision" ELSE "refused")
    /\ UNCHANGED <<seen, layer, parseVars, torn>>

\* A read or a write of the handshake fails: the client is gone.
Hangup ==
    /\ pc \in {"tunnel", "prefix", "addons", "dispatch", "target"}
    /\ Goto("done")
    /\ UNCHANGED <<seen, layer, parseVars, torn>>

Handler == \/ Accept \/ CheckDecryption \/ DoHandshake \/ ReadPrefix \/ LookupUser
           \/ ReadAddons \/ FlowGate \/ ExclusiveGate \/ Dispatch \/ ParseTarget
           \/ SetupVision \/ Hangup

\* A panic of one handler ends the process.
Next == /\ pc # "panic"
        /\ \/ Handler
           \/ \E cfg \in Configs : BeginUpdate(cfg)
           \/ FinishUpdate

Spec == Init /\ [][Next]_vars

-----------------------------------------------------------------------------
(* Properties                                                              *)

Relaying == pc \in Relays

\* However the request was split into reads, and whichever of them came late,
\* a relay is only entered with the whole header in the buffer, with the
\* payload cut off exactly where the wire layout ends the header, and with the
\* flow the client asked for, unless the addons were decoded before they had
\* all arrived.
ParsedAsSent ==
    Relaying => /\ n >= HeaderLen /\ initial = n - HeaderLen
                /\ isVision <=> pc = "vision"
                /\ flow = req.flow \/ addonsCut

\* The only ways into a panic: a slice past the bytes that have arrived, when
\* the header did not come whole or does not fit the buffer, and a read of
\* s.decryption that fell into a rebuild.
PanicHasCause == pc = "panic" => n < HeaderLen \/ torn

\* Vision unwraps the conn it is given, so it must be TLS 1.3 or Reality itself,
\* never a v2 tunnel.  The check in handleConnection reads s.decryption again,
\* possibly after it was switched off under this connection; the type switch of
\* setupVisionConn has to catch what slips through.
VisionOnlyOnDirectConn ==
    pc = "vision" => req.key = Nil /\ layer = Nil /\ req.outer \in {"tls13", "reality"}

\* A client without a v2 tunnel is served only if some setting since its
\* Accept disabled v2 (or could not be used), or if the handler looked at
\* s.decryption between the two writes of a rebuild.
PlaintextHasCause == Relaying /\ layer = Nil /\ required => torn

\* The configuration suits the client.
Suits == /\ req.key = Usable(vless.decryption)
         /\ req.flow = XRV => /\ vless.flow = XRV /\ req.key = Nil
                              /\ req.outer \in {"tls13", "reality"}

\* As long as the settings stay what they were at Accept, a client they suit is
\* not refused: after any number of updates s.decryption and s.vless agree.
SteadyClientsServed == steady /\ Suits => pc # "refused"

\* handler.go: the wire layout of handleConnection's comment, and "Need more
\* data": a request that follows the layout is dispatched however it arrives.
DispatchedHoweverItArrives == pc # "panic"
=============================================================================
