---------------------------- MODULE VlessServer ----------------------------
(***************************************************************************)
(* The user, connection, traffic and quota state of the VLESS inbound      *)
(* (src/proxy/vless: user.go, quota.go, traffic.go and the gate at the top *)
(* of handler.go).                                                         *)
(*                                                                         *)
(* Every operation of the Server that takes s.mu is one atomic action; a   *)
(* connection goroutine is a program counter that moves from one critical  *)
(* section to the next, so the control loop's UpdateUsers, ApplyUsage and  *)
(* GetAndResetTraffic may run between any two of them.  Go maps are        *)
(* functions whose DOMAIN changes; upload and download counters are one    *)
(* number, since no decision of this code tells them apart.  Rate-limit    *)
(* buckets are not part of this module.                                    *)
(***************************************************************************)
EXTENDS Integers, FiniteSets, FiniteSetsExt

CONSTANTS
    Uuids,       \* 16-byte ids a client may present, known or unknown
    Emails,      \* user names of the manager
    Nodes,       \* entry points a connection is attributed to
    Conns,       \* accepted connections
    Chunks,      \* possible sizes of one read or write
    NoUuid,      \* no header parsed yet
    NoEmail,     \* the empty e-mail of a stat created for an unknown user
    UserLists,   \* user maps the manager may send: functions uuid -> e-mail
    UsageLists,  \* usage maps: functions e-mail -> [quota, used]
    MaxMoved     \* bound on the bytes moved over all connections

\* A Go map from S to T.
IsMap(f, S, T) == DOMAIN f \subseteq S /\ f \in [DOMAIN f -> T]

ASSUME IdAssumption    == NoUuid \notin Uuids /\ NoEmail \notin Emails
ASSUME ChunkAssumption == /\ Chunks \subseteq Nat \ {0} /\ Chunks # {}
                          /\ IsFiniteSet(Chunks) /\ IsFiniteSet(Conns)
ASSUME ListAssumption  ==
    /\ \A l \in UserLists : IsMap(l, Uuids, Emails)
    /\ \A l \in UsageLists : IsMap(l, Emails, [quota : Int, used : Nat])

Dirs == {"up", "down"}
Keys == Uuids \X Nodes      \* trafficKey
Pcs  == {"new", "header", "authed", "gated", "added", "relay", "unreg", "done"}

VARIABLES
    users,        \* s.users: uuid -> e-mail
    userConns,    \* s.userConns: uuid -> connections ({} = no entry)
    userTraffic,  \* s.userTraffic: key -> [email, bytes]
    userQuota,    \* s.userQuota: uuid -> [quota, base, accrual, cut]
    pc,           \* where the goroutine of a connection is
    who,          \* the uuid of its header
    entry,        \* its entryNode
    open,         \* FALSE once Close has been called on it
    buf,          \* bytes moved by a read or write and not yet counted
    moved,        \* all bytes moved so far (only to bound the model)
    counted,      \* history: bytes ever passed to addTraffic, per key
    returned,     \* history: bytes GetAndResetTraffic handed out, per key
    dropped,      \* history: bytes it reset without handing them out
    missedRevoke, \* history: connections registered when their user was gone
    missedCut     \* history: connections the current cut did not close

serverVars == <<users, userConns, userTraffic, userQuota>>
connVars   == <<pc, who, entry, open, buf, moved>>
history    == <<counted, returned, dropped, missedRevoke, missedCut>>
vars       == <<serverVars, connVars, history>>

TrafficStat == [email : Emails \cup {NoEmail}, bytes : Nat]
QuotaState  == [quota : Int, base : Nat, accrual : Nat, cut : BOOLEAN]

(* The maps, counters and program counters hold values of the Go types.    *)
TypeOK ==
    /\ IsMap(users, Uuids, Emails)
    /\ userConns \in [Uuids -> SUBSET Conns]
    /\ IsMap(userTraffic, Keys, TrafficStat)
    /\ IsMap(userQuota, Uuids, QuotaState)
    /\ pc \in [Conns -> Pcs]
    /\ who \in [Conns -> Uuids \cup {NoUuid}]
    /\ entry \in [Conns -> Nodes]
    /\ open \in [Conns -> BOOLEAN]
    /\ buf \in [Conns -> [Dirs -> Nat]]
    /\ moved \in Nat
    /\ counted \in [Keys -> Nat]
    /\ returned \in [Keys -> Nat]
    /\ dropped \in [Keys -> Nat]
    /\ missedRevoke \in SUBSET Conns
    /\ missedCut \in SUBSET Conns

Empty == [x \in {} |-> x]

(* NewServer: all maps empty, no connection accepted yet.                  *)
Init ==
    /\ users = Empty
    /\ userConns = [u \in Uuids |-> {}]
    /\ userTraffic = Empty
    /\ userQuota = Empty
    /\ pc = [c \in Conns |-> "new"]
    /\ who = [c \in Conns |-> NoUuid]
    /\ entry \in [Conns -> Nodes]
    /\ open = [c \in Conns |-> TRUE]
    /\ buf = [c \in Conns |-> [d \in Dirs |-> 0]]
    /\ moved = 0
    /\ counted = [k \in Keys |-> 0]
    /\ returned = [k \in Keys |-> 0]
    /\ dropped = [k \in Keys |-> 0]
    /\ missedRevoke = {}
    /\ missedCut = {}

-----------------------------------------------------------------------------
(* Helpers                                                                 *)

EmailOf(u) == IF u \in DOMAIN users THEN users[u] ELSE NoEmail

\* The goroutine stands between addConn and its deferred removeConn.
Registered(c) == pc[c] \in {"added", "relay"}

\* open after Close has been called on every connection of S
Closing(S) == [c \in Conns |-> open[c] /\ c \notin S]

\* Mutated form: the boundary test is remaining < 0.
ExhaustedLate(quota, base, accrual) == quota - base - accrual < 0

Exhausted(quota, base, accrual) == quota - base - accrual <= 0

\* userOverQuotaLocked
OverQuota(u) == u \in DOMAIN userQuota /\ userQuota[u].cut

-----------------------------------------------------------------------------
(* The connection goroutine: handleConnection and the relays               *)

\* The handler returns before registering: deferred conn.Close, and the
\* header bytes it read are never counted.
Reject(c) ==
    /\ pc' = [pc EXCEPT ![c] = "done"]
    /\ open' = [open EXCEPT ![c] = FALSE]
    /\ buf' = [buf EXCEPT ![c]["up"] = 0]
    /\ UNCHANGED <<serverVars, who, entry, moved, history>>

\* Handshake error, short header or wrong version.
HandshakeFails(c) == pc[c] = "new" /\ Reject(c)

\* n header bytes have been read; they carry the uuid u.
ReadHeader(c, u, n) ==
    /\ pc[c] = "new"
    /\ moved + n <= MaxMoved
    /\ pc' = [pc EXCEPT ![c] = "header"]
    /\ who' = [who EXCEPT ![c] = u]
    /\ buf' = [buf EXCEPT ![c]["up"] = n]
    /\ moved' = moved + n
    /\ UNCHANGED <<serverVars, entry, open, history>>

\* The handler goes on to its next critical section.
Advance(c, to) ==
    /\ pc' = [pc EXCEPT ![c] = to]
    /\ UNCHANGED <<serverVars, who, entry, open, buf, moved, history>>

\* s.users[uuid] under RLock
LookupUser(c) ==
    /\ pc[c] = "header"
    /\ IF who[c] \in DOMAIN users THEN Advance(c, "authed") ELSE Reject(c)

\* if s.userOverQuota(uuid)
QuotaGate(c) ==
    /\ pc[c] = "authed"
    /\ IF OverQuota(who[c]) THEN Reject(c) ELSE Advance(c, "gated")

\* Mutated form: the connection replaces the user's set instead of joining it.
AddConnReplaces(c) == userConns' = [userConns EXCEPT ![who[c]] = {c}]

addConn(c) ==
    userConns' = [userConns EXCEPT ![who[c]] = @ \cup {c}]

Register(c) ==
    /\ pc[c] = "gated"
    /\ addConn(c)
    /\ pc' = [pc EXCEPT ![c] = "added"]
    /\ missedRevoke' = IF who[c] \in DOMAIN users
                       THEN missedRevoke ELSE missedRevoke \cup {c}
    /\ missedCut' = IF OverQuota(who[c]) THEN missedCut \cup {c} ELSE missedCut
    /\ UNCHANGED <<users, userTraffic, userQuota, who, entry, open, buf, moved,
                   counted, returned, dropped>>

\* A read from, or a write to, the client returned n bytes.  The other copy
\* goroutine of handleTCP may still be running after removeConn.
Transfer(c, d, n) ==
    /\ pc[c] \in {"relay", "unreg"}
    /\ open[c]
    /\ buf[c][d] = 0
    /\ moved + n <= MaxMoved
    /\ buf' = [buf EXCEPT ![c][d] = n]
    /\ moved' = moved + n
    /\ UNCHANGED <<serverVars, pc, who, entry, open, history>>

-----------------------------------------------------------------------------
(* Traffic accounting and the local quota cut                              *)

StatAfterAdd(k, n) ==
    IF k \in DOMAIN userTraffic
    THEN [userTraffic[k] EXCEPT !.bytes = @ + n]
    ELSE [email |-> EmailOf(k[1]), bytes |-> n]

addStat(k, n) ==
    userTraffic' = [x \in DOMAIN userTraffic \cup {k} |->
                       IF x = k THEN StatAfterAdd(k, n) ELSE userTraffic[x]]

\* Mutated form: the connections stay open when the user is cut.
CutClosesNothing(u) == {}

\* Mutated form: the cut closes every tracked connection.
CutClosesEveryone(u) == UNION {userConns[v] : v \in Uuids}

CutCloses(u) == userConns[u]

\* Mutated form: the chunk is charged in both directions.
AccruedTwice(qs, n) ==
    [quota |-> qs.quota, base |-> qs.base, accrual |-> qs.accrual + 2 * n,
     cut |-> qs.cut \/ Exhausted(qs.quota, qs.base, qs.accrual + 2 * n)]

\* The quota state after n more bytes.
Accrued(qs, n) ==
    [quota |-> qs.quota, base |-> qs.base, accrual |-> qs.accrual + n,
     cut |-> qs.cut \/ Exhausted(qs.quota, qs.base, qs.accrual + n)]

\* Connections of u that are past removeConn and not yet closed.
Unregistering(u) == {c \in Conns : who[c] = u /\ pc[c] = "unreg" /\ open[c]}

\* accrueQuotaLocked: the chunk that exhausts the headroom cuts the user and
\* closes her connections, exactly once.
accrueQuota(u, n) ==
    IF u \in DOMAIN userQuota /\ userQuota[u].quota >= 0
    THEN LET qs   == Accrued(userQuota[u], n)
             cuts == qs.cut /\ ~userQuota[u].cut
         IN  /\ userQuota' = [userQuota EXCEPT ![u] = qs]
             /\ open' = Closing(IF cuts THEN CutCloses(u) ELSE {})
             /\ missedCut' = missedCut \cup IF cuts THEN Unregistering(u) ELSE {}
    ELSE UNCHANGED <<userQuota, open, missedCut>>

addTraffic(u, node, n) ==
    /\ addStat(<<u, node>>, n)
    /\ accrueQuota(u, n)
    /\ counted' = [counted EXCEPT ![<<u, node>>] = @ + n]

\* The critical section of addTraffic for the bytes direction d of c moved;
\* the first one, for the header, lets the goroutine go on to the relay.
Count(c, d) ==
    /\ pc[c] \in {"added", "relay", "unreg", "done"}
    /\ buf[c][d] > 0
    /\ addTraffic(who[c], entry[c], buf[c][d])
    /\ buf' = [buf EXCEPT ![c][d] = 0]
    /\ pc' = IF pc[c] = "added" THEN [pc EXCEPT ![c] = "relay"] ELSE pc
    /\ UNCHANGED <<users, userConns, who, entry, moved, returned, dropped,
                   missedRevoke>>

\* Mutated form: the deferred removeConn is missing.
RemoveConnForgets(c) == UNCHANGED userConns

removeConn(c) ==
    userConns' = [userConns EXCEPT ![who[c]] = @ \ {c}]

\* The handler returns, for whatever reason: a malformed request, a failed
\* dial, or the end of one copy direction.  Deferred calls run in reverse
\* order, removeConn before conn.Close.
Finish(c) ==
    /\ pc[c] = "relay"
    /\ removeConn(c)
    /\ pc' = [pc EXCEPT ![c] = "unreg"]
    /\ UNCHANGED <<users, userTraffic, userQuota, who, entry, open, buf, moved,
                   history>>

CloseConn(c) ==
    /\ pc[c] = "unreg"
    /\ pc' = [pc EXCEPT ![c] = "done"]
    /\ open' = [open EXCEPT ![c] = FALSE]
    /\ UNCHANGED <<serverVars, who, entry, buf, moved, history>>

-----------------------------------------------------------------------------
(* The control loop's calls                                                *)

\* Mutated form: a removed user's connections are forgotten but not closed.
RevokesNothing(removed) == {}

RevokedConns(removed) == UNION {userConns[u] : u \in removed}

\* new is the map built from the list: entries whose id does not parse are
\* skipped and a repeated id keeps one entry.
UpdateUsers(new) ==
    LET removed == DOMAIN users \ DOMAIN new
    IN  /\ users' = new
        /\ open' = Closing(RevokedConns(removed))
        /\ userConns' = [u \in Uuids |->
                            IF u \in removed THEN {} ELSE userConns[u]]
        /\ userQuota' = [u \in DOMAIN userQuota \ removed |-> userQuota[u]]
        /\ UNCHANGED <<userTraffic, pc, who, entry, buf, moved, history>>

Snapshot(u) ==
    [quota |-> u.quota, base |-> u.used, accrual |-> 0,
     cut |-> u.quota >= 0 /\ u.quota - u.used <= 0]

\* emailUUID: one uuid for each e-mail in use; with duplicate e-mails the map
\* iteration order picks which.
EmailUuids ==
    LET inUse == {users[u] : u \in DOMAIN users}
    IN  {p \in [inUse -> DOMAIN users] : \A e \in inUse : users[p[e]] = e}

\* Every quota state is rebuilt; a user that the snapshot finds over the cap
\* is marked cut, but her open connections are left alone.
ApplyUsage(usage, uuidOf) ==
    LET known == {u \in DOMAIN users : /\ users[u] \in DOMAIN usage
                                       /\ uuidOf[users[u]] = u}
    IN  /\ userQuota' = [u \in known |-> Snapshot(usage[users[u]])]
        /\ missedCut' = UNION {userConns[u] :
                            u \in {v \in known : Snapshot(usage[users[v]]).cut}}
        /\ UNCHANGED <<users, userConns, userTraffic, connVars,
                       counted, returned, dropped, missedRevoke>>

EmailAtDrain(k) ==
    IF userTraffic[k].email # NoEmail THEN userTraffic[k].email ELSE EmailOf(k[1])

\* Mutated form: a missing e-mail is not looked up again.
DrainedByCachedEmail ==
    {k \in DOMAIN userTraffic :
        userTraffic[k].bytes > 0 /\ userTraffic[k].email # NoEmail}

\* The keys GetAndResetTraffic returns an entry for.
Drained ==
    {k \in DOMAIN userTraffic :
        userTraffic[k].bytes > 0 /\ EmailAtDrain(k) # NoEmail}

Delta == [k \in Drained |-> [email |-> EmailAtDrain(k),
                             bytes |-> userTraffic[k].bytes]]

\* Mutated form: the counter is loaded where it should be swapped with zero.
StatNotReset(k) ==
    [email |-> IF userTraffic[k].bytes > 0
               THEN EmailAtDrain(k) ELSE userTraffic[k].email,
     bytes |-> userTraffic[k].bytes]

StatAfterDrain(k) ==
    [email |-> IF userTraffic[k].bytes > 0
               THEN EmailAtDrain(k) ELSE userTraffic[k].email,
     bytes |-> 0]

\* Every counter is swapped to zero, the ones without an e-mail too; idle
\* stats of users that are gone are deleted.
GetAndResetTraffic ==
    LET kept == {k \in DOMAIN userTraffic :
                    userTraffic[k].bytes > 0 \/ k[1] \in DOMAIN users}
        lost == {k \in DOMAIN userTraffic \ Drained : userTraffic[k].bytes > 0}
    IN  /\ userTraffic' = [k \in kept |-> StatAfterDrain(k)]
        /\ returned' = [k \in Keys |->
             returned[k] + IF k \in Drained THEN userTraffic[k].bytes ELSE 0]
        /\ dropped' = [k \in Keys |->
             dropped[k] + IF k \in lost THEN userTraffic[k].bytes ELSE 0]
        /\ UNCHANGED <<users, userConns, userQuota, connVars, counted,
                       missedRevoke, missedCut>>

-----------------------------------------------------------------------------
ClientStep(c) ==
    \/ HandshakeFails(c)
    \/ \E u \in Uuids, n \in Chunks : ReadHeader(c, u, n)
    \/ \E d \in Dirs, n \in Chunks : Transfer(c, d, n)

HandlerStep(c) ==
    \/ LookupUser(c)
    \/ QuotaGate(c)
    \/ Register(c)
    \/ \E d \in Dirs : Count(c, d)
    \/ Finish(c)
    \/ CloseConn(c)

ControlStep ==
    \/ \E new \in UserLists : UpdateUsers(new)
    \/ \E usage \in UsageLists, p \in EmailUuids : ApplyUsage(usage, p)
    \/ GetAndResetTraffic

Next ==
    \/ \E c \in Conns : ClientStep(c) \/ HandlerStep(c)
    \/ ControlStep

Spec == Init /\ [][Next]_vars

\* The Go scheduler runs every goroutine that is not blocked.  A handler with
\* an open connection may stay in its relay for ever; once the connection is
\* closed, its reads and writes fail and the handler returns.
GoesOn(c) ==
    \/ LookupUser(c)
    \/ QuotaGate(c)
    \/ Register(c)
    \/ \E d \in Dirs : Count(c, d)
    \/ ~open[c] /\ Finish(c)
    \/ CloseConn(c)

FairSpec == Spec /\ \A c \in Conns : WF_vars(GoesOn(c))

-----------------------------------------------------------------------------
(* Properties                                                              *)

\* The index userConns is exact: a handler between addConn and removeConn
\* whose connection is open is listed under its own user, so UpdateUsers and
\* a quota cut can reach it, and nothing that has left the relay is listed
\* (no entry leaks when UpdateUsers deletes the set under a live handler).
IndexExact ==
    /\ \A c \in Conns : Registered(c) /\ open[c] => c \in userConns[who[c]]
    /\ \A u \in Uuids : \A c \in userConns[u] : Registered(c) /\ who[c] = u

\* UpdateUsers disconnects the users it removes: the only open, registered
\* connections of a user that is not in s.users are those that passed the
\* lookup before the removal and reached addConn after it.
RevocationReachesTracked ==
    \A c \in Conns :
        Registered(c) /\ open[c] /\ who[c] \notin DOMAIN users
            => c \in missedRevoke

\* A locally cut user is disconnected: the only open, registered connections
\* of a cut user are those that passed the quota gate before the cut and
\* registered after it, and those of a user that a /usage snapshot found over
\* the cap.
LocalCutDisconnects ==
    \A c \in Conns :
        Registered(c) /\ open[c] /\ OverQuota(who[c]) => c \in missedCut

\* The cut flag tracks the headroom through snapshots, counted chunks and user
\* removals: a capped user is cut exactly when quota - base - accrual has
\* reached zero, an unlimited user never.
CutIffExhausted ==
    \A u \in DOMAIN userQuota :
        LET qs == userQuota[u]
        IN  qs.cut <=> qs.quota >= 0 /\ qs.quota - qs.base - qs.accrual <= 0

\* The bytes of key k that wait in its stat.
Held(k) == IF k \in DOMAIN userTraffic THEN userTraffic[k].bytes ELSE 0

\* No byte passed to addTraffic is lost or handed out twice by the swap and
\* the stat deletion of GetAndResetTraffic: what was counted for a key is in
\* its stat, was returned, or was dropped for want of an e-mail.
TrafficConserved ==
    \A k \in Keys :
        counted[k] = returned[k] + dropped[k] + Held(k)

Ledger == INSTANCE TrafficLedger WITH
    Accounts <- Keys,
    recorded <- counted,
    held     <- [k \in Keys |-> Held(k)],
    settled  <- returned,
    lost     <- dropped

\* Step by step, the stats are a ledger per user and entry point: addTraffic
\* adds to one key only, and creating, swapping, re-labelling and deleting
\* stats only ever moves bytes on to the reporter, each of them once.
ImplementsLedger == Ledger!Spec

\* GetAndResetTraffic drops bytes only of users that are not in s.users at
\* that moment, even when the stat was created while the user was away.
NoLossForActiveUsers ==
    [][\A k \in Keys : dropped'[k] > dropped[k] => k[1] \notin DOMAIN users]_vars

\* Connections of u that are past the gate, and any rejected ones.
Counting(u) ==
    {c \in Conns : who[c] = u /\ pc[c] \in {"added", "relay", "unreg", "done"}}

\* The bytes a connection has moved and not yet counted.
Load == [c \in Conns |-> buf[c]["up"] + buf[c]["down"]]

InFlight(u) == SumFunctionOnSet(Load, Counting(u))

\* A user that crosses the cap overshoots it by no more than the bytes in
\* flight at that moment, one chunk per direction of each connection
\* ("cut within bytes-in-flight rather than minutes"), unless a connection
\* slipped past the cut.
OvershootBounded ==
    \A u \in DOMAIN userQuota :
        LET qs == userQuota[u]
        IN  qs.quota > qs.base /\ Counting(u) \cap missedCut = {}
            => qs.accrual + InFlight(u)
                 < qs.quota - qs.base + 2 * Cardinality(Counting(u)) * Max(Chunks)

\* A connection is closed under its running handler only when its own user has
\* just been removed or is cut: no call of the control loop and no other
\* user's traffic disconnects a user in good standing.
OnlyOffendersClosed ==
    [][\A c \in Conns :
        Registered(c) /\ open[c] /\ ~open'[c]
            => who[c] \notin DOMAIN users' \/ OverQuota(who[c])']_vars

\* A connection closed under its handler by UpdateUsers or by a cut is left by
\* the handler, its last bytes are counted and its index entry is removed.
ClosedConnectionsDrain ==
    \A c \in Conns :
        ~open[c] ~> /\ pc[c] = "done"
                    /\ \A d \in Dirs : buf[c][d] = 0
                    /\ \A u \in Uuids : c \notin userConns[u]

\* user.go: "All connections belonging to users that no longer exist in the
\* new set are forcibly closed so that revoked users lose access immediately."
RevokedLoseAccess ==
    \A c \in Conns : Registered(c) /\ open[c] => who[c] \in DOMAIN users
=============================================================================
