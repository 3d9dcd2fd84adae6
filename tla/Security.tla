------------------------------ MODULE Security ------------------------------
(***************************************************************************)
(* The security layers (src/transport/security, src/transport/xraybridge)  *)
(* and the attribution of Reality clients to entry points (UpdateConfig    *)
(* and nodeForShortID in src/proxy/vless).                                 *)
(*                                                                         *)
(* Each settings block is decoded and built twice in this code: for the    *)
(* native tcp listener and, in other words, for xray-core's ws and xhttp.  *)
(* Short IDs are decoded twice as well, as the list a listener admits and  *)
(* as the table that maps them to child nodes; the table is replaced at    *)
(* once, the list when Start has rebound.  A short ID is its sequence of   *)
(* bytes, SidLen (8 in the code) at most.                                  *)
(***************************************************************************)
EXTENDS Naturals, Sequences, FiniteSets

CONSTANTS
    SidLen,    \* length of a padded short ID
    Bytes,     \* byte values of short IDs
    Configs,   \* configurations the manager may send, see ConfigType
    Dialled,   \* short IDs clients are set up with
    Conns,
    Nodes,     \* node IDs
    Home       \* the empty one: this node

Tcp == "tcp"
Ws  == "ws"

\* cert_file and key_file, cert_pem and key_pem: not both given, a pair, a pair
\* that does not match, a file that cannot be read.  reject_unknown_sni is left
\* out: the native layer compares with server_name, xray with its certificates.
FileStates == {"absent", "pairF", "mismatchF", "unreadable"}
PemStates  == {"absent", "pairP", "mismatchP"}
Unset      == 0
Versions   == 10..13
Unknown    == 99                       \* a version string not in tlsVersionMap

TLSBlock == [file : FileStates, pem : PemStates,
             min : Versions \cup {Unset, Unknown}, max : Versions \cup {Unset, Unknown},
             alpn : {"given", "absent"}]

\* A text that should be hexadecimal: its bytes, blanks around it, other
\* characters in it.
Sids == [bytes : Seq(Bytes), blanks : BOOLEAN, hex : BOOLEAN]

\* TrafficSIDs: short IDs with the child nodes they stand for.
Entries == [sid : Sids, node : Nodes]

IsReality(b) == /\ {b.target, b.name} \subseteq BOOLEAN      \* given
                /\ b.key \in {"absent", "good", "bad"}
                /\ b.ids \in Seq(Sids)

IsConfig(c) == /\ c.net \in {Tcp, Ws}
               /\ \/ c.sec = "tls" /\ c.block \in TLSBlock
                  \/ c.sec = "reality" /\ IsReality(c.block)
               /\ c.sids \in Seq(Entries)

ASSUME SecurityAssumption == /\ SidLen \in Nat /\ 0 \in Bytes /\ Home \in Nodes
                             /\ \A c \in Configs : IsConfig(c)
                             /\ Dialled \subseteq Seq(Bytes)

-----------------------------------------------------------------------------
(* TLS                                                                     *)

\* DecodeTLSConfig
TLSDecodes(b) == b.min # Unknown /\ b.max # Unknown

\* The choice of BuildTLSConfig: files first.
NativeCert(b) == IF b.file # "absent" THEN b.file ELSE b.pem

\* Mutated form: files are not looked at when there is no PEM text.
BridgePemOnly(b) == b.pem

\* The choice of BuildXrayTLSConfig: PEM text first.
BridgeCert(b) == IF b.pem # "absent" THEN b.pem ELSE b.file

Alpn(b) == IF b.alpn = "given" THEN "given" ELSE "h2,http/1.1"

\* BuildTLSConfig: the pair is loaded and checked, TLS 1.2 is the floor of an
\* unset min_version.
NativeTLSBuilds(b) == TLSDecodes(b) /\ NativeCert(b) \in {"pairF", "pairP"}

NativeTLS(b) == [cert |-> NativeCert(b), alpn |-> Alpn(b), max |-> b.max,
                 min |-> IF b.min = Unset THEN 12 ELSE b.min]

\* BuildXrayTLSConfig: files are read, the pair is left to xray.
BridgeTLSBuilds(b) == TLSDecodes(b) /\ BridgeCert(b) \notin {"absent", "unreadable"}

\* xray leaves an unset min_version to crypto/tls, whose floor is TLS 1.2.
XrayFloor(v) == IF v = Unset THEN 12 ELSE v

BridgeTLS(b) == [cert |-> BridgeCert(b), alpn |-> Alpn(b), max |-> b.max,
                 min |-> XrayFloor(b.min)]

-----------------------------------------------------------------------------
(* Reality                                                                 *)

Zeros(k)  == [i \in 1..k |-> 0]

\* var sid [8]byte; copy(sid[:], b)
Pad(b) == b \o Zeros(SidLen - Len(b))

\* The list is not trimmed; "" stands for the zero ID.
ShortIdDecodes(s) == s.hex /\ ~s.blanks /\ Len(s.bytes) <= SidLen

\* DecodeRealityConfig
RealityDecodes(b) ==
    /\ b.target /\ b.name /\ b.key = "good"
    /\ \A i \in DOMAIN b.ids : ShortIdDecodes(b.ids[i])

\* Without a list the zero ID is admitted; BuildRealityConfig takes the set.
AdmittedIds(b) == IF b.ids = <<>> THEN {Zeros(SidLen)}
                  ELSE {Pad(b.ids[i].bytes) : i \in DOMAIN b.ids}

\* BuildXrayRealityConfig makes a list of it again.
BridgeIds(b) == AdmittedIds(b)

-----------------------------------------------------------------------------
(* The table of UpdateConfig                                               *)

\* Mutated form: overlong IDs are kept.
SidOfAnyLength(s) == s.hex /\ Len(s.bytes) > 0

\* Trimmed and lower-cased first; empty and overlong IDs are skipped.
SidListed(s) == s.hex /\ Len(s.bytes) \in 1..SidLen

\* Mutated form: the zeros go before the bytes.
SidKeyRight(b) == Zeros(SidLen - Len(b)) \o b

\* var key [8]byte; copy(key[:], b)
SidKey(b) == Pad(b)

\* Mutated form: the first of several entries is kept.
FirstEntry(S) == CHOOSE i \in S : \A j \in S : i <= j

\* Of the entries for one key the last one is left in the map.
LastEntry(S) == CHOOSE i \in S : \A j \in S : i >= j

SidTable(sids) ==
    LET listed    == {i \in DOMAIN sids : SidListed(sids[i].sid)}
        key(i)    == SidKey(sids[i].sid.bytes)
    IN  [k \in {key(i) : i \in listed} |->
            sids[LastEntry({i \in listed : key(i) = k})].node]

-----------------------------------------------------------------------------
VARIABLES
    cfg,     \* {the configuration last delivered}, or {}
    sidNode, \* s.sidNode
    reading, \* Start's copy of the stream: {it}, or {} when Start is not binding
    served,  \* {the stream of the open listener}, or {}
    pc, dial, net, \* of each connection: "idle", "accepted", "entered"; the ID
                   \* the client uses; the transport it came through
    entry,   \* its entryNode
    owner,   \* history: the node its ID belonged to by the lists at Accept
    stale,   \* history: connections whose table was replaced since Accept
    aliased  \* history: connections whose ID is another listed one, but for zeros

connVars == <<pc, dial, net, entry, owner, aliased>>
vars == <<cfg, sidNode, reading, served, connVars, stale>>

\* The entries for the very text of the ID, the last of which names its node.
EntriesFor(b, sids) == {i \in DOMAIN sids : SidListed(sids[i].sid) /\ sids[i].sid.bytes = b}

OwnerOf(b, sids) ==
    LET own == EntriesFor(b, sids)
    IN  IF own = {} THEN Home
        ELSE sids[CHOOSE i \in own : \A j \in own : j <= i].node

\* Some other listed ID differs from b in trailing zeros only.
Aliased(b, sids) ==
    \E i \in DOMAIN sids :
        LET o == sids[i].sid.bytes
            m == IF Len(o) < Len(b) THEN Len(o) ELSE Len(b)
        IN  /\ SidListed(sids[i].sid) /\ o # b
            /\ SubSeq(o, 1, m) = SubSeq(b, 1, m)
            /\ \A j \in m+1..Len(o) : o[j] = 0
            /\ \A j \in m+1..Len(b) : b[j] = 0

StreamOf(c) == [net |-> c.net, sec |-> c.sec, block |-> c.block]
StreamsOf == {StreamOf(c) : c \in Configs}

\* The table is keyed by padded short IDs, connections have nodes.
TypeOK ==
    /\ cfg \subseteq Configs /\ Cardinality(cfg) <= 1
    /\ \A k \in DOMAIN sidNode : Len(k) = SidLen /\ sidNode[k] \in Nodes
    /\ reading \subseteq StreamsOf /\ served \subseteq StreamsOf
    /\ pc \in [Conns -> {"idle", "accepted", "entered"}]
    /\ dial \in [Conns -> Dialled \cup {<<>>}]
    /\ net \in [Conns -> {Tcp, Ws}]
    /\ entry \in [Conns -> Nodes]
    /\ owner \in [Conns -> Nodes]
    /\ stale \in SUBSET Conns /\ aliased \in SUBSET Conns

Init ==
    /\ cfg = {} /\ sidNode = SidTable(<<>>) /\ reading = {} /\ served = {}
    /\ pc = [c \in Conns |-> "idle"] /\ dial = [c \in Conns |-> <<>>]
    /\ net = [c \in Conns |-> Tcp] /\ entry = [c \in Conns |-> Home]
    /\ owner = [c \in Conns |-> Home]
    /\ stale = {} /\ aliased = {}

\* A change of the stream closes the listener; the table changes anyway.
UpdateConfig(c) ==
    /\ cfg' = {c}
    /\ sidNode' = SidTable(c.sids)
    /\ served' = IF \E old \in cfg : StreamOf(old) = StreamOf(c) THEN served ELSE {}
    /\ stale' = stale \cup {x \in Conns : pc[x] = "accepted"}
    /\ UNCHANGED <<reading, connVars>>

\* Start between two listeners: it copies s.stream ...
ReadStream ==
    /\ served = {} /\ reading = {} /\ cfg # {}
    /\ reading' = {StreamOf(c) : c \in cfg}
    /\ UNCHANGED <<cfg, sidNode, served, connVars, stale>>

\* security.Wrap of the tcp transport
Wrap(s) == IF s.sec = "tls" THEN NativeTLSBuilds(s.block) ELSE RealityDecodes(s.block)

\* The switch of ws and xhttp
BridgeBuilds(s) ==
    IF s.sec = "tls" THEN BridgeTLSBuilds(s.block) ELSE RealityDecodes(s.block)

Builds(s) == IF s.net = Tcp THEN Wrap(s) ELSE BridgeBuilds(s)

\* ... and binds, or fails and tries again.
Listen ==
    /\ reading # {}
    /\ served' = {s \in reading : Builds(s)}
    /\ reading' = {}
    /\ UNCHANGED <<cfg, sidNode, connVars, stale>>

\* A client authenticates to the Reality listener.
Connect(c, b) ==
    /\ pc[c] = "idle"
    /\ \E s \in served : /\ s.sec = "reality"
                         /\ Pad(b) \in IF s.net = Tcp THEN AdmittedIds(s.block)
                                      ELSE BridgeIds(s.block)
                         /\ net' = [net EXCEPT ![c] = s.net]
    /\ pc' = [pc EXCEPT ![c] = "accepted"]
    /\ dial' = [dial EXCEPT ![c] = b]
    /\ \E now \in cfg : /\ owner' = [owner EXCEPT ![c] = OwnerOf(b, now.sids)]
                        /\ aliased' = IF Aliased(b, now.sids)
                                      THEN aliased \cup {c} ELSE aliased
    /\ UNCHANGED <<cfg, sidNode, reading, served, entry, stale>>

nodeForShortID(key) == IF key \in DOMAIN sidNode THEN sidNode[key] ELSE Home

\* handleConnection: only a native connection still knows its short ID.
Enter(c) ==
    /\ pc[c] = "accepted"
    /\ entry' = [entry EXCEPT ![c] = IF net[c] = Tcp THEN nodeForShortID(Pad(dial[c]))
                                     ELSE Home]
    /\ pc' = [pc EXCEPT ![c] = "entered"]
    /\ UNCHANGED <<cfg, sidNode, reading, served, dial, net, owner, stale, aliased>>

Next == \/ \E c \in Configs : UpdateConfig(c)
        \/ ReadStream \/ Listen
        \/ \E c \in Conns : Enter(c) \/ \E b \in Dialled : Connect(c, b)

Spec == Init /\ [][Next]_vars

-----------------------------------------------------------------------------
(* Properties                                                              *)

BothForms(b) == b.file # "absent" /\ b.pem # "absent"

\* The two translations of a TLS block agree: what the native listener can be
\* built from, ws and xhttp can, with the same certificate, versions and ALPN,
\* and they build from nothing else but a pair that does not match, which only
\* the native one checks.  The exception is a block with both forms of
\* certificate, where tcp takes the files and the others the PEM text.
TransportsAgree ==
    \A c \in cfg : c.sec = "tls" /\ ~BothForms(c.block) =>
        LET b == c.block
        IN  /\ NativeTLSBuilds(b) => BridgeTLSBuilds(b) /\ NativeTLS(b) = BridgeTLS(b)
            /\ BridgeTLSBuilds(b) /\ ~NativeTLSBuilds(b)
                  => BridgeCert(b) \in {"mismatchF", "mismatchP"}

\* The list that admits a client and the table that attributes it are decoded
\* by different code from different texts and replaced at different times;
\* still the traffic of a native client goes to the node its ID is listed for,
\* and that of any other to this node, unless the table was replaced between
\* its Accept and its lookup, or another listed ID is the same once padded.
AttributedToOwner ==
    \A c \in Conns : pc[c] = "entered" /\ c \notin stale \cup aliased
        => entry[c] = IF net[c] = Tcp THEN owner[c] ELSE Home
=============================================================================
