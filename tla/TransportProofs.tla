-------------------------- MODULE TransportProofs ---------------------------
(***************************************************************************)
(* Proofs about the transports, for any configurations, short IDs, clients *)
(* and channel capacity: the two translations of TLS settings agree and    *)
(* the traffic of a Reality client goes to the node that owns its short ID *)
(* (Security); the channel of a ws or xhttp listener holds exactly the     *)
(* connections that are queued, each of them once (ChanListener).          *)
(***************************************************************************)
EXTENDS Security, SequenceTheorems, SumTheorems

-----------------------------------------------------------------------------
(* Short IDs                                                               *)

(* A padded ID is the ID and then zeros, up to SidLen.                     *)
LEMMA PadFacts ==
    ASSUME NEW b \in Seq(Bytes)
    PROVE  /\ Len(b) \in Nat
           /\ Len(b) <= SidLen => Len(Pad(b)) = SidLen
           /\ Len(b) > SidLen => Len(Pad(b)) = Len(b)
           /\ \A i \in 1..Len(b) : Pad(b)[i] = b[i]
           /\ \A i \in (Len(b) + 1)..SidLen : Pad(b)[i] = 0
<1> USE SecurityAssumption
<1> DEFINE k == SidLen - Len(b)
           z == Zeros(k)
<1>0. Len(b) \in Nat /\ SidLen \in Nat /\ k \in Int
  OBVIOUS
<1>1. CASE Len(b) <= SidLen
  <2>1. k \in Nat
    BY <1>0, <1>1
  <2>2. z \in Seq(Bytes) /\ Len(z) = k /\ \A i \in 1..k : z[i] = 0
    <3>1. z \in [1..k -> Bytes]
      BY <2>1 DEF Zeros
    <3>2. z \in Seq(Bytes) /\ Len(z) = k
      BY <2>1, <3>1
    <3> QED
      BY <3>2 DEF Zeros
  <2> HIDE DEF z
  <2>3. /\ Len(b \o z) = Len(b) + Len(z)
        /\ \A i \in 1..(Len(b) + Len(z)) :
              (b \o z)[i] = IF i <= Len(b) THEN b[i] ELSE z[i - Len(b)]
    BY <2>2, ConcatProperties
  <2>4. Pad(b) = b \o z
    BY DEF Pad, z
  <2> HIDE DEF k
  <2>5. Len(b) + k = SidLen
    BY <1>0 DEF k
  <2>6. Len(Pad(b)) = SidLen
    BY <2>2, <2>3, <2>4, <2>5
  <2>7. ASSUME NEW i \in 1..Len(b) PROVE Pad(b)[i] = b[i]
    <3>1. i \in 1..(Len(b) + Len(z)) /\ i <= Len(b)
      BY <1>0, <2>1, <2>2, <2>7
    <3> QED
      BY <2>3, <2>4, <3>1
  <2>8. ASSUME NEW i \in (Len(b) + 1)..SidLen PROVE Pad(b)[i] = 0
    <3>1. /\ i \in 1..(Len(b) + Len(z)) /\ ~(i <= Len(b))
          /\ i - Len(b) \in 1..k
      BY <1>0, <2>1, <2>2, <2>5, <2>8
    <3> QED
      BY <2>2, <2>3, <2>4, <3>1
  <2> QED
    BY <1>0, <1>1, <2>6, <2>7, <2>8
<1>2. CASE Len(b) > SidLen
  <2>1. 1..k = {} /\ (Len(b) + 1)..SidLen = {}
    BY <1>0, <1>2
  <2>2. z = <<>>
    BY <2>1 DEF Zeros
  <2>3. Pad(b) = b
    BY <2>2, ConcatEmptySeq DEF Pad
  <2> QED
    BY <1>0, <1>2, <2>1, <2>3
<1> QED
  BY <1>0, <1>1, <1>2

(* Two IDs with the same padding differ in trailing zeros only.            *)
LEMMA SamePadding ==
    ASSUME NEW b \in Seq(Bytes), NEW o \in Seq(Bytes), Len(o) <= SidLen,
           Pad(o) = Pad(b),
           NEW m, m = IF Len(o) < Len(b) THEN Len(o) ELSE Len(b)
    PROVE  /\ SubSeq(o, 1, m) = SubSeq(b, 1, m)
           /\ \A j \in (m + 1)..Len(o) : o[j] = 0
           /\ \A j \in (m + 1)..Len(b) : b[j] = 0
<1>0. Len(b) \in Nat /\ Len(o) \in Nat /\ SidLen \in Nat /\ m \in Nat
  BY SecurityAssumption
<1>1. Len(b) <= SidLen
  <2>1. Len(Pad(o)) = SidLen
    BY PadFacts
  <2>2. Len(b) > SidLen => Len(Pad(b)) = Len(b)
    BY PadFacts
  <2> QED
    BY <1>0, <2>1, <2>2
<1>2. /\ \A i \in 1..Len(o) : Pad(b)[i] = o[i]
      /\ \A i \in (Len(o) + 1)..SidLen : Pad(b)[i] = 0
      /\ \A i \in 1..Len(b) : Pad(b)[i] = b[i]
      /\ \A i \in (Len(b) + 1)..SidLen : Pad(b)[i] = 0
  BY PadFacts
<1>3. \A j \in 1..m : j \in 1..Len(o) /\ j \in 1..Len(b)
  BY <1>0
<1>4. SubSeq(o, 1, m) = SubSeq(b, 1, m)
  <2>1. SubSeq(o, 1, m) = [i \in 1..m |-> o[i]] /\ SubSeq(b, 1, m) = [i \in 1..m |-> b[i]]
    BY <1>0
  <2>2. \A i \in 1..m : o[i] = b[i]
    BY <1>2, <1>3
  <2> QED
    BY <2>1, <2>2
<1>5. ASSUME NEW j \in (m + 1)..Len(o) PROVE o[j] = 0
  <2>1. j \in 1..Len(o) /\ j \in (Len(b) + 1)..SidLen
    BY <1>0, <1>5
  <2> QED
    BY <1>2, <2>1
<1>6. ASSUME NEW j \in (m + 1)..Len(b) PROVE b[j] = 0
  <2>1. j \in 1..Len(b) /\ j \in (Len(o) + 1)..SidLen
    BY <1>0, <1>1, <1>6
  <2> QED
    BY <1>2, <2>1
<1> QED
  BY <1>4, <1>5, <1>6

(* The last entry of a non-empty set of entries.                           *)
LEMMA LastEntryIs ==
    ASSUME NEW n \in Nat, NEW S \in SUBSET (1..n), S # {}
    PROVE  /\ LastEntry(S) \in S
           /\ LastEntry(S) = CHOOSE i \in S : \A j \in S : j <= i
<1>1. IsFiniteSet(S) /\ S \in SUBSET Int
  <2>1. IsFiniteSet(1..n)
    BY FS_Interval
  <2>2. IsFiniteSet(S)
    BY <2>1, FS_Subset
  <2> QED
    BY <2>2
<1>2. PICK m \in S : \A x \in S : x <= m
  BY <1>1, FiniteMax
<1>3. \A i, j \in S : i >= j <=> j <= i
  OBVIOUS
<1>4. LastEntry(S) \in S /\ \A j \in S : j <= LastEntry(S)
  BY <1>2, <1>3 DEF LastEntry
<1>5. PICK c : c = CHOOSE i \in S : \A j \in S : j <= i
  OBVIOUS
<1>6. c \in S /\ \A j \in S : j <= c
  BY <1>2, <1>5
<1>7. LastEntry(S) = c
  <2>1. PICK l \in S : l = LastEntry(S)
    BY <1>4
  <2>2. l \in Int /\ c \in Int /\ l <= c /\ c <= l
    BY <1>1, <1>4, <1>6, <2>1
  <2> QED
    BY <2>1, <2>2
<1> QED
  BY <1>4, <1>5, <1>7

Listed(sids) == {i \in DOMAIN sids : SidListed(sids[i].sid)}
KeyOf(sids, i) == SidKey(sids[i].sid.bytes)

LEMMA EntryFacts ==
    ASSUME NEW sids \in Seq(Entries), NEW i \in DOMAIN sids
    PROVE  /\ i \in 1..Len(sids) /\ Len(sids) \in Nat
           /\ sids[i].node \in Nodes /\ sids[i].sid.bytes \in Seq(Bytes)
           /\ Len(sids[i].sid.bytes) \in Nat
           /\ SidListed(sids[i].sid) => Len(sids[i].sid.bytes) \in 1..SidLen
<1>1. i \in 1..Len(sids) /\ Len(sids) \in Nat /\ sids[i] \in Entries
  OBVIOUS
<1> QED
  BY <1>1 DEF Entries, Sids, SidListed

(* The table UpdateConfig builds, and its types.                           *)
LEMMA SidTableIs ==
    ASSUME NEW sids \in Seq(Entries)
    PROVE  /\ DOMAIN SidTable(sids) = {KeyOf(sids, i) : i \in Listed(sids)}
           /\ \A k \in DOMAIN SidTable(sids) :
                SidTable(sids)[k] =
                    sids[LastEntry({i \in Listed(sids) : KeyOf(sids, i) = k})].node
  BY DEF SidTable, Listed, KeyOf

LEMMA SidTableType ==
    ASSUME NEW sids \in Seq(Entries), NEW k \in DOMAIN SidTable(sids)
    PROVE  Len(k) = SidLen /\ SidTable(sids)[k] \in Nodes
<1> DEFINE S == {i \in Listed(sids) : KeyOf(sids, i) = k}
<1>1. PICK i \in Listed(sids) : k = KeyOf(sids, i)
  BY SidTableIs
<1>2. Len(k) = SidLen
  BY <1>1, EntryFacts, PadFacts, SecurityAssumption DEF Listed, KeyOf, SidKey
<1>3. S \in SUBSET (1..Len(sids)) /\ S # {} /\ Len(sids) \in Nat
  BY <1>1, EntryFacts DEF Listed
<1>4. LastEntry(S) \in DOMAIN sids
  BY <1>3, LastEntryIs DEF Listed
<1> QED
  BY <1>2, <1>4, SidTableIs, EntryFacts

(* For an ID without an alias the lookup finds the node of the last entry  *)
(* with its text: the entries with its key are those with its text.        *)
LEMMA LookupIsOwner ==
    ASSUME NEW sids \in Seq(Entries), NEW b \in Seq(Bytes), ~Aliased(b, sids)
    PROVE  OwnerOf(b, sids) = IF Pad(b) \in DOMAIN SidTable(sids)
                              THEN SidTable(sids)[Pad(b)] ELSE Home
<1> DEFINE S == {i \in Listed(sids) : KeyOf(sids, i) = Pad(b)}
           own == EntriesFor(b, sids)
<1>1. ASSUME NEW i \in Listed(sids), KeyOf(sids, i) = Pad(b)
      PROVE  sids[i].sid.bytes = b
  <2> SUFFICES ASSUME sids[i].sid.bytes # b PROVE FALSE
    OBVIOUS
  <2>1. PICK o \in Seq(Bytes) : o = sids[i].sid.bytes
    BY EntryFacts DEF Listed
  <2>2. PICK m : m = IF Len(o) < Len(b) THEN Len(o) ELSE Len(b)
    OBVIOUS
  <2>3. Len(o) <= SidLen /\ Pad(o) = Pad(b)
    <3>1. Len(o) \in 1..SidLen
      BY <2>1, EntryFacts DEF Listed
    <3>2. Pad(o) = Pad(b)
      BY <1>1, <2>1 DEF KeyOf, SidKey
    <3> QED
      BY <3>1, <3>2, SecurityAssumption
  <2>4. /\ SubSeq(o, 1, m) = SubSeq(b, 1, m)
        /\ \A j \in (m + 1)..Len(o) : o[j] = 0
        /\ \A j \in (m + 1)..Len(b) : b[j] = 0
    BY <2>2, <2>3, SamePadding
  <2>5. i \in DOMAIN sids /\ SidListed(sids[i].sid) /\ o # b
    BY <2>1 DEF Listed
  <2>6. Aliased(b, sids)
    BY <2>1, <2>2, <2>4, <2>5 DEF Aliased
  <2> QED
    BY <2>6
<1>2. S = own
  BY <1>1 DEF Listed, KeyOf, SidKey, EntriesFor
<1>3. Pad(b) \in DOMAIN SidTable(sids) <=> own # {}
  <2>1. DOMAIN SidTable(sids) = {KeyOf(sids, i) : i \in Listed(sids)}
    BY SidTableIs
  <2>2. Pad(b) \in DOMAIN SidTable(sids) <=> \E i \in Listed(sids) : KeyOf(sids, i) = Pad(b)
    BY <2>1, Zenon
  <2>3. S # {} <=> \E i \in Listed(sids) : KeyOf(sids, i) = Pad(b)
    OBVIOUS
  <2> QED
    BY <1>2, <2>2, <2>3
<1>4. CASE own = {}
  BY <1>3, <1>4 DEF OwnerOf
<1>5. CASE own # {}
  <2>1. own \in SUBSET (1..Len(sids)) /\ Len(sids) \in Nat
    BY DEF EntriesFor
  <2>2. LastEntry(own) = CHOOSE i \in own : \A j \in own : j <= i
    BY <1>5, <2>1, LastEntryIs
  <2>3. SidTable(sids)[Pad(b)] = sids[LastEntry(own)].node
    BY <1>2, <1>3, <1>5, SidTableIs
  <2> QED
    BY <1>3, <1>5, <2>2, <2>3 DEF OwnerOf
<1> QED
  BY <1>4, <1>5

LEMMA OwnerType ==
    ASSUME NEW sids \in Seq(Entries), NEW b PROVE OwnerOf(b, sids) \in Nodes
<1> DEFINE own == EntriesFor(b, sids)
<1>1. CASE own = {}
  BY <1>1, SecurityAssumption DEF OwnerOf
<1>2. CASE own # {}
  <2>1. own \in SUBSET (1..Len(sids)) /\ Len(sids) \in Nat /\ own \in SUBSET DOMAIN sids
    BY DEF EntriesFor
  <2>2. (CHOOSE i \in own : \A j \in own : j <= i) \in own
    BY <1>2, <2>1, LastEntryIs
  <2> QED
    BY <1>2, <2>1, <2>2, EntryFacts DEF OwnerOf
<1> QED
  BY <1>1, <1>2

-----------------------------------------------------------------------------
(* The specification                                                       *)

LEMMA ConfigFacts ==
    ASSUME NEW c \in Configs
    PROVE  /\ c.sids \in Seq(Entries) /\ StreamOf(c) \in StreamsOf /\ c.net \in {Tcp, Ws}
           /\ StreamOf(c).net = c.net
           /\ c.sec = "tls" => c.block \in TLSBlock
  BY SecurityAssumption DEF IsConfig, StreamOf, StreamsOf

(* The table is the one of the configuration in force, and what was noted  *)
(* of a client at Accept still describes it until the next configuration.  *)
TableInForce == \A now \in cfg : sidNode = SidTable(now.sids)

NotedAtAccept ==
    \A c \in Conns : pc[c] = "accepted" /\ c \notin stale =>
        \E now \in cfg : /\ owner[c] = OwnerOf(dial[c], now.sids)
                         /\ Aliased(dial[c], now.sids) => c \in aliased

SInv == TypeOK /\ TableInForce /\ NotedAtAccept /\ AttributedToOwner

LEMMA SecurityInitially == Init => SInv
<1> SUFFICES ASSUME Init PROVE SInv
  OBVIOUS
<1>1. <<>> \in Seq(Entries) /\ cfg \subseteq Configs
  BY DEF Init
<1>2. Cardinality(cfg) <= 1
  BY FS_EmptySet DEF Init
<1>3. \A k \in DOMAIN sidNode : Len(k) = SidLen /\ sidNode[k] \in Nodes
  BY <1>1, SidTableType DEF Init
<1>4. TypeOK
  BY <1>1, <1>2, <1>3, SecurityAssumption DEF Init, TypeOK
<1> QED
  BY <1>4 DEF Init, SInv, TableInForce, NotedAtAccept, AttributedToOwner

LEMMA UpdateConfigStep ==
    ASSUME SInv, NEW c \in Configs, UpdateConfig(c) PROVE SInv'
<1> USE DEF SInv, connVars
<1>1. cfg' = {c} /\ sidNode' = SidTable(c.sids) /\ c.sids \in Seq(Entries)
  BY ConfigFacts DEF UpdateConfig
<1>2. Cardinality({c}) <= 1 /\ {c} \subseteq Configs
  BY FS_Singleton
<1>3. \A k \in DOMAIN sidNode' : Len(k) = SidLen /\ sidNode'[k] \in Nodes
  BY <1>1, SidTableType
<1>4. TypeOK'
  BY <1>1, <1>2, <1>3 DEF UpdateConfig, TypeOK
<1>5. TableInForce'
  BY <1>1 DEF TableInForce
<1>6. NotedAtAccept'
  BY DEF UpdateConfig, NotedAtAccept
<1>7. AttributedToOwner'
  BY DEF UpdateConfig, AttributedToOwner
<1> QED
  BY <1>4, <1>5, <1>6, <1>7

LEMMA StartStep == ASSUME SInv, ReadStream \/ Listen PROVE SInv'
<1> USE DEF SInv, connVars
<1>1. reading' \subseteq StreamsOf /\ served' \subseteq StreamsOf
  BY DEF ReadStream, Listen, TypeOK, StreamsOf
<1>2. UNCHANGED <<cfg, sidNode, pc, dial, net, entry, owner, aliased, stale>>
  BY DEF ReadStream, Listen
<1>3. TypeOK'
  BY <1>1, <1>2 DEF TypeOK
<1>4. TableInForce' /\ NotedAtAccept' /\ AttributedToOwner'
  BY <1>2 DEF TableInForce, NotedAtAccept, AttributedToOwner
<1> QED
  BY <1>3, <1>4

LEMMA ConnectStep ==
    ASSUME SInv, NEW c \in Conns, NEW b \in Dialled, Connect(c, b) PROVE SInv'
<1> USE DEF SInv
<1>1. PICK now \in cfg : /\ owner' = [owner EXCEPT ![c] = OwnerOf(b, now.sids)]
                        /\ aliased' = IF Aliased(b, now.sids)
                                      THEN aliased \cup {c} ELSE aliased
  BY DEF Connect
<1>2. PICK s \in served : net' = [net EXCEPT ![c] = s.net]
  BY DEF Connect
<1>3. s.net \in {Tcp, Ws}
  BY ConfigFacts DEF TypeOK, StreamsOf
<1>4. OwnerOf(b, now.sids) \in Nodes
  BY ConfigFacts, OwnerType DEF TypeOK
<1>5. /\ pc[c] = "idle" /\ pc' = [pc EXCEPT ![c] = "accepted"]
      /\ dial' = [dial EXCEPT ![c] = b]
      /\ UNCHANGED <<cfg, sidNode, reading, served, entry, stale>>
  BY DEF Connect
<1>6. TypeOK'
  <2>1. dial' \in [Conns -> Dialled \cup {<<>>}]
    BY <1>5 DEF TypeOK
  <2>2. pc' \in [Conns -> {"idle", "accepted", "entered"}]
    BY <1>5 DEF TypeOK
  <2>3. net' \in [Conns -> {Tcp, Ws}] /\ owner' \in [Conns -> Nodes]
    BY <1>1, <1>2, <1>3, <1>4 DEF TypeOK
  <2> QED
    BY <1>1, <1>5, <2>1, <2>2, <2>3 DEF TypeOK
<1>7. TableInForce'
  BY <1>5 DEF TableInForce
<1>8. NotedAtAccept'
  <2> SUFFICES ASSUME NEW x \in Conns, pc'[x] = "accepted", x \notin stale
               PROVE  \E w \in cfg : /\ owner'[x] = OwnerOf(dial'[x], w.sids)
                                     /\ Aliased(dial'[x], w.sids) => x \in aliased'
    BY <1>5 DEF NotedAtAccept, Aliased, OwnerOf, EntriesFor
  <2>1. CASE x = c
    <3>1. owner'[c] = OwnerOf(b, now.sids) /\ dial'[c] = b
      BY <1>1, <1>5 DEF TypeOK
    <3> QED
      BY <1>1, <2>1, <3>1
  <2>2. CASE x # c
    <3>1. owner'[x] = owner[x] /\ dial'[x] = dial[x] /\ pc'[x] = pc[x]
      BY <1>1, <1>5, <2>2 DEF TypeOK
    <3>2. aliased \subseteq aliased' /\ cfg' = cfg
      BY <1>1, <1>5
    <3>3. PICK w \in cfg : /\ owner[x] = OwnerOf(dial[x], w.sids)
                           /\ Aliased(dial[x], w.sids) => x \in aliased
      BY <1>5, <3>1 DEF NotedAtAccept
    <3> QED
      BY <3>1, <3>2, <3>3
  <2> QED
    BY <2>1, <2>2
<1>9. AttributedToOwner'
  BY <1>1, <1>2, <1>5 DEF AttributedToOwner, TypeOK
<1> QED
  BY <1>6, <1>7, <1>8, <1>9

(* The lookup is right at the moment it is made.                           *)
LEMMA EnterStep == ASSUME SInv, NEW c \in Conns, Enter(c) PROVE SInv'
<1> USE DEF SInv
<1> DEFINE node == IF net[c] = Tcp THEN nodeForShortID(Pad(dial[c])) ELSE Home
<1>1. /\ pc[c] = "accepted" /\ pc' = [pc EXCEPT ![c] = "entered"]
      /\ entry' = [entry EXCEPT ![c] = node]
      /\ UNCHANGED <<cfg, sidNode, reading, served, dial, net, owner, stale, aliased>>
  BY DEF Enter
<1>2. node \in Nodes
  BY SecurityAssumption DEF nodeForShortID, TypeOK
<1>3. ASSUME c \notin stale, c \notin aliased, net[c] = Tcp PROVE node = owner[c]
  <2>1. PICK now \in cfg : /\ owner[c] = OwnerOf(dial[c], now.sids)
                          /\ ~Aliased(dial[c], now.sids)
    BY <1>1, <1>3 DEF NotedAtAccept
  <2>2. sidNode = SidTable(now.sids) /\ now.sids \in Seq(Entries)
    BY ConfigFacts DEF TableInForce, TypeOK
  <2>3. dial[c] \in Seq(Bytes)
    <3>1. <<>> \in Seq(Bytes)
      OBVIOUS
    <3> QED
      BY <3>1, SecurityAssumption DEF TypeOK
  <2>4. OwnerOf(dial[c], now.sids) = IF Pad(dial[c]) \in DOMAIN SidTable(now.sids)
                                    THEN SidTable(now.sids)[Pad(dial[c])] ELSE Home
    BY <2>1, <2>2, <2>3, LookupIsOwner
  <2> QED
    BY <1>3, <2>1, <2>2, <2>4 DEF nodeForShortID
<1>4. net[c] # Tcp => node = Home
  OBVIOUS
<1> HIDE DEF node
<1>5. TypeOK'
  <2>1. pc' \in [Conns -> {"idle", "accepted", "entered"}]
    BY <1>1 DEF TypeOK
  <2>2. entry' \in [Conns -> Nodes]
    BY <1>1, <1>2 DEF TypeOK
  <2> QED
    BY <1>1, <2>1, <2>2 DEF TypeOK
<1>6. TableInForce'
  BY <1>1 DEF TableInForce
<1>7. NotedAtAccept'
  <2> SUFFICES ASSUME NEW x \in Conns, pc'[x] = "accepted", x \notin stale
               PROVE  \E w \in cfg : /\ owner[x] = OwnerOf(dial[x], w.sids)
                                     /\ Aliased(dial[x], w.sids) => x \in aliased
    BY <1>1 DEF NotedAtAccept
  <2>1. pc[x] = "accepted"
    BY <1>1 DEF TypeOK
  <2> QED
    BY <2>1 DEF NotedAtAccept
<1>8. ASSUME NEW x \in Conns, pc'[x] = "entered", x \notin stale \cup aliased
      PROVE  entry'[x] = IF net[x] = Tcp THEN owner[x] ELSE Home
  <2>1. CASE x = c
    BY <1>1, <1>3, <1>4, <1>8, <2>1 DEF TypeOK
  <2>2. CASE x # c
    BY <1>1, <1>8, <2>2 DEF AttributedToOwner, TypeOK
  <2> QED
    BY <2>1, <2>2
<1>9. AttributedToOwner'
  BY <1>1, <1>8 DEF AttributedToOwner
<1> QED
  BY <1>5, <1>6, <1>7, <1>9

LEMMA SecurityInvariance == Spec => []SInv
<1>1. SInv /\ [Next]_vars => SInv'
  <2> SUFFICES ASSUME SInv, [Next]_vars PROVE SInv'
    OBVIOUS
  <2>1. CASE UNCHANGED vars
    BY <2>1 DEF vars, connVars, SInv, TypeOK, TableInForce, NotedAtAccept, AttributedToOwner
  <2> QED
    BY <2>1, UpdateConfigStep, StartStep, ConnectStep, EnterStep DEF Next
<1> QED
  BY <1>1, SecurityInitially, PTL DEF Spec

(* UpdateConfig, Start and handleConnection keep the types; the keys of    *)
(* s.sidNode are 8-byte arrays, whatever texts the manager sends.          *)
THEOREM SecurityTypeCorrect == Spec => []TypeOK
<1>1. SInv => TypeOK
  BY DEF SInv
<1> QED
  BY <1>1, SecurityInvariance, PTL

(* nodeForShortID, called by handleConnection some time after Accept, finds *)
(* the node the client's short ID is listed for by the very text of the    *)
(* list, although UpdateConfig has padded, overwritten and skipped entries, *)
(* unless the table was replaced meanwhile or another listed ID is the     *)
(* same once padded.                                                       *)
THEOREM TrafficGoesToOwner == Spec => []AttributedToOwner
<1>1. SInv => AttributedToOwner
  BY DEF SInv
<1> QED
  BY <1>1, SecurityInvariance, PTL

(* BuildTLSConfig and BuildXrayTLSConfig give the same certificate,        *)
(* versions and ALPN for every TLS block with one form of certificate.     *)
THEOREM TranslationsAgree == Spec => []TransportsAgree
<1>1. SInv => TransportsAgree
  <2> SUFFICES ASSUME SInv, NEW c \in cfg, c.sec = "tls", ~BothForms(c.block)
               PROVE  LET b == c.block
                      IN  /\ NativeTLSBuilds(b) =>
                               BridgeTLSBuilds(b) /\ NativeTLS(b) = BridgeTLS(b)
                          /\ BridgeTLSBuilds(b) /\ ~NativeTLSBuilds(b)
                               => BridgeCert(b) \in {"mismatchF", "mismatchP"}
    BY DEF TransportsAgree
  <2>1. PICK b \in TLSBlock : b = c.block
    BY ConfigFacts DEF SInv, TypeOK
  <2>2. b.file \in FileStates /\ b.pem \in PemStates
    BY DEF TLSBlock
  <2>3. b.file = "absent" \/ b.pem = "absent"
    BY <2>1 DEF BothForms
  <2>4. NativeCert(b) = BridgeCert(b)
    BY <2>3 DEF NativeCert, BridgeCert
  <2>5. BridgeCert(b) \in {"absent", "pairF", "mismatchF", "unreadable", "pairP", "mismatchP"}
    BY <2>2 DEF BridgeCert, FileStates, PemStates
  <2>6. NativeTLS(b) = BridgeTLS(b)
    BY <2>4 DEF NativeTLS, BridgeTLS, XrayFloor
  <2> QED
    BY <2>1, <2>4, <2>5, <2>6 DEF NativeTLSBuilds, BridgeTLSBuilds
<1> QED
  BY <1>1, SecurityInvariance, PTL

-----------------------------------------------------------------------------
(* The channel of the ws and xhttp listeners                               *)

CONSTANT Cap
VARIABLES state, Ch, closed, inner, acceptor

Chan == INSTANCE ChanListener

CapHolds == Cap \in Nat \ {0}

LEMMA ChanInitially == ASSUME CapHolds, Chan!Init PROVE Chan!TypeOK
<1>1. state \in [Conns -> Chan!States] /\ \A c \in Conns : state[c] # "queued"
  BY DEF Chan!Init, Chan!States
<1>2. Ch \in Seq(Conns) /\ Len(Ch) = 0
  BY DEF Chan!Init
<1>3. closed \in BOOLEAN /\ inner \in BOOLEAN
  BY Zenon DEF Chan!Init
<1> QED
  BY <1>1, <1>2, <1>3 DEF CapHolds, Chan!Init, Chan!TypeOK

LEMMA EnqueueStep ==
    ASSUME CapHolds, Chan!TypeOK, NEW c \in Conns, Chan!Enqueue(c) PROVE Chan!TypeOK'
<1>1. /\ Ch' \in Seq(Conns) /\ Len(Ch') = Len(Ch) + 1 /\ Ch'[Len(Ch) + 1] = c
      /\ \A i \in 1..Len(Ch) : Ch'[i] = Ch[i]
  BY DEF Chan!TypeOK, Chan!Enqueue
<1>2. Len(Ch') <= Cap /\ Len(Ch) \in Nat
  BY <1>1 DEF CapHolds, Chan!TypeOK, Chan!Enqueue
<1>3. state' \in [Conns -> Chan!States]
  BY DEF Chan!TypeOK, Chan!Enqueue, Chan!States
<1>4. \A i \in 1..Len(Ch) : Ch[i] # c
  BY DEF Chan!TypeOK, Chan!Enqueue
<1>5. ASSUME NEW k \in Conns
      PROVE  (state[k] = "queued")' <=> \E i \in 1..Len(Ch') : Ch'[i] = k
  <2>1. CASE k = c
    BY <1>1, <1>2, <2>1 DEF Chan!TypeOK, Chan!Enqueue
  <2>2. CASE k # c
    BY <1>1, <1>2, <2>2 DEF Chan!TypeOK, Chan!Enqueue
  <2> QED
    BY <2>1, <2>2
<1>6. \A i, j \in 1..Len(Ch') : Ch'[i] = Ch'[j] => i = j
  BY <1>1, <1>2, <1>4 DEF Chan!TypeOK
<1> QED
  BY <1>1, <1>2, <1>3, <1>5, <1>6 DEF Chan!TypeOK, Chan!Enqueue

LEMMA AcceptStep ==
    ASSUME CapHolds, Chan!TypeOK, Chan!AcceptConn PROVE Chan!TypeOK'
<1>1. /\ Ch' \in Seq(Conns) /\ Len(Ch) \in Nat /\ Len(Ch) > 0
      /\ Len(Ch') = Len(Ch) - 1 /\ Head(Ch) = Ch[1] /\ Ch[1] \in Conns
      /\ \A i \in 1..Len(Ch') : Ch'[i] = Ch[i + 1]
  BY DEF Chan!TypeOK, Chan!AcceptConn
<1>2. Len(Ch') <= Cap
  BY <1>1 DEF CapHolds, Chan!TypeOK
<1>3. state' \in [Conns -> Chan!States]
  BY <1>1 DEF Chan!TypeOK, Chan!AcceptConn, Chan!States
<1>4. \A i \in 1..Len(Ch') : Ch'[i] # Ch[1]
  BY <1>1 DEF Chan!TypeOK
<1>5. ASSUME NEW k \in Conns
      PROVE  (state[k] = "queued")' <=> \E i \in 1..Len(Ch') : Ch'[i] = k
  <2>1. CASE k = Ch[1]
    BY <1>1, <1>4, <2>1 DEF Chan!TypeOK, Chan!AcceptConn
  <2>2. CASE k # Ch[1]
    <3>1. (state[k] = "queued")' <=> \E i \in 1..Len(Ch) : Ch[i] = k
      BY <1>1, <2>2 DEF Chan!TypeOK, Chan!AcceptConn
    <3>2. ASSUME NEW i \in 1..Len(Ch), Ch[i] = k
          PROVE  i - 1 \in 1..Len(Ch') /\ Ch'[i - 1] = k
      BY <1>1, <2>2, <3>2
    <3>3. ASSUME NEW i \in 1..Len(Ch'), Ch'[i] = k
          PROVE  i + 1 \in 1..Len(Ch) /\ Ch[i + 1] = k
      BY <1>1, <3>3
    <3> QED
      BY <3>1, <3>2, <3>3
  <2> QED
    BY <2>1, <2>2
<1>6. ASSUME NEW i \in 1..Len(Ch'), NEW j \in 1..Len(Ch'), Ch'[i] = Ch'[j] PROVE i = j
  <2>1. i + 1 \in 1..Len(Ch) /\ j + 1 \in 1..Len(Ch) /\ Ch[i + 1] = Ch[j + 1]
    BY <1>1, <1>6
  <2>2. i + 1 = j + 1
    BY <2>1 DEF Chan!TypeOK
  <2> QED
    BY <2>2
<1> QED
  BY <1>1, <1>2, <1>3, <1>5, <1>6 DEF Chan!TypeOK, Chan!AcceptConn

(* AddConn and Accept neither lose nor duplicate a connection between the  *)
(* callback and the accept loop, and never overfill the channel.           *)
THEOREM ChannelExact ==
    ASSUME CapHolds PROVE Chan!Spec => []Chan!TypeOK
<1>1. Chan!TypeOK /\ [Chan!Next]_Chan!vars => Chan!TypeOK'
  <2> SUFFICES ASSUME Chan!TypeOK, [Chan!Next]_Chan!vars PROVE Chan!TypeOK'
    OBVIOUS
  <2>1. ASSUME NEW c \in Conns, Chan!Delivered(c) PROVE Chan!TypeOK'
    BY <2>1 DEF Chan!TypeOK, Chan!Delivered, Chan!States
  <2>2. ASSUME NEW c \in Conns, Chan!Refuse(c) PROVE Chan!TypeOK'
    BY <2>2 DEF Chan!TypeOK, Chan!Refuse, Chan!States
  <2>3. CASE Chan!AcceptEnds
    BY <2>3 DEF Chan!TypeOK, Chan!AcceptEnds
  <2>4. CASE Chan!Close
    BY <2>4 DEF Chan!TypeOK, Chan!Close
  <2>5. CASE Chan!CloseInner
    BY <2>5 DEF Chan!TypeOK, Chan!CloseInner
  <2>6. CASE UNCHANGED Chan!vars
    BY <2>6 DEF Chan!TypeOK, Chan!vars
  <2> QED
    BY <2>1, <2>2, <2>3, <2>4, <2>5, <2>6, EnqueueStep, AcceptStep DEF Chan!Next, Chan!AddConn
<1>2. Chan!Init => Chan!TypeOK
  BY ChanInitially
<1> QED
  BY <1>1, <1>2, PTL DEF Chan!Spec
=============================================================================
