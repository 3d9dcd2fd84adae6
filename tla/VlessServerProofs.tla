------------------------- MODULE VlessServerProofs -------------------------
(***************************************************************************)
(* Proofs, for every set of users, connections, entry points and lists,    *)
(* that the user, connection, traffic and quota bookkeeping of the VLESS   *)
(* server keeps its invariants.                                            *)
(***************************************************************************)
EXTENDS VlessServer, SumTheorems, TLAPS

(* A connection whose header has not been read carries no uncounted bytes  *)
(* and its handler has not gone past the start.                            *)
HeaderKnown ==
    \A c \in Conns : \/ who[c] \in Uuids
                     \/ /\ pc[c] \in {"new", "done"}
                        /\ \A d \in Dirs : buf[c][d] = 0

TInv == TypeOK /\ HeaderKnown

(* The operations of a connection's goroutine, one by one. *)
LEMMA NextCases ==
    ASSUME Next
    PROVE  \/ \E c \in Conns : \/ HandshakeFails(c)
                               \/ LookupUser(c)
                               \/ QuotaGate(c)
                               \/ Register(c)
                               \/ Finish(c)
                               \/ CloseConn(c)
                               \/ \E u \in Uuids, n \in Chunks : ReadHeader(c, u, n)
                               \/ \E d \in Dirs, n \in Chunks : Transfer(c, d, n)
                               \/ \E d \in Dirs : Count(c, d)
           \/ \E new \in UserLists : UpdateUsers(new)
           \/ \E usage \in UsageLists, p \in EmailUuids : ApplyUsage(usage, p)
           \/ GetAndResetTraffic
BY DEF Next, ClientStep, HandlerStep, ControlStep

LEMMA TypeInit == Init => TInv
BY IdAssumption DEF Init, TInv, TypeOK, HeaderKnown, IsMap, Empty, Dirs, Pcs, Keys

LEMMA RejectType ==
    ASSUME TInv, NEW c \in Conns, Reject(c)
    PROVE  TInv'
BY DEF TInv, Reject, TypeOK, HeaderKnown, IsMap, serverVars, history, Pcs, Dirs

LEMMA AdvanceType ==
    ASSUME TInv, NEW c \in Conns, pc[c] \notin {"new", "done"},
           NEW to \in Pcs, Advance(c, to)
    PROVE  TInv'
BY DEF TInv, Advance, TypeOK, HeaderKnown, IsMap, serverVars, history

LEMMA StatAfterAddType ==
    ASSUME TypeOK, NEW k \in Keys, NEW n \in Nat
    PROVE  /\ StatAfterAdd(k, n) \in TrafficStat
           /\ StatAfterAdd(k, n).bytes =
                IF k \in DOMAIN userTraffic THEN userTraffic[k].bytes + n ELSE n
<1>1. EmailOf(k[1]) \in Emails \cup {NoEmail}
  BY DEF EmailOf, TypeOK, IsMap
<1>2. CASE k \in DOMAIN userTraffic
  <2>1. userTraffic[k] \in TrafficStat
    BY <1>2 DEF TypeOK, IsMap
  <2> QED
    BY <1>2, <2>1 DEF StatAfterAdd, TrafficStat
<1>3. CASE k \notin DOMAIN userTraffic
  BY <1>1, <1>3 DEF StatAfterAdd, TrafficStat
<1> QED
  BY <1>2, <1>3

LEMMA AccruedType ==
    ASSUME NEW qs \in QuotaState, NEW n \in Nat
    PROVE  Accrued(qs, n) \in QuotaState
BY DEF Accrued, QuotaState

LEMMA DrainType ==
    ASSUME TypeOK, NEW k \in DOMAIN userTraffic
    PROVE  /\ StatAfterDrain(k) \in TrafficStat
           /\ StatAfterDrain(k).bytes = 0
           /\ userTraffic[k].bytes \in Nat
<1>1. userTraffic[k] \in TrafficStat
  BY DEF TypeOK, IsMap
<1>2. EmailAtDrain(k) \in Emails \cup {NoEmail}
  BY <1>1 DEF EmailAtDrain, EmailOf, TypeOK, IsMap, TrafficStat
<1> QED
  BY <1>1, <1>2 DEF StatAfterDrain, TrafficStat

LEMMA TypeStep == TInv /\ [Next]_vars => TInv'
<1> SUFFICES ASSUME TInv, [Next]_vars PROVE TInv'
  OBVIOUS
<1> USE DEF TInv
<1>1. CASE UNCHANGED vars
  BY <1>1 DEF TypeOK, HeaderKnown, IsMap, vars, serverVars, connVars, history
<1>2. CASE \E c \in Conns : HandshakeFails(c)
  BY <1>2, RejectType DEF HandshakeFails
<1>3. CASE \E c \in Conns : LookupUser(c)
  BY <1>3, RejectType, AdvanceType DEF LookupUser, Pcs
<1>4. CASE \E c \in Conns : QuotaGate(c)
  BY <1>4, RejectType, AdvanceType DEF QuotaGate, Pcs
<1>5. CASE \E c \in Conns : Register(c)
  BY <1>5 DEF Register, addConn, TypeOK, HeaderKnown, IsMap, Pcs, Dirs
<1>6. CASE \E c \in Conns : Finish(c)
  BY <1>6 DEF Finish, removeConn, TypeOK, HeaderKnown, IsMap, history, Pcs, Dirs
<1>7. CASE \E c \in Conns : CloseConn(c)
  BY <1>7 DEF CloseConn, TypeOK, HeaderKnown, IsMap, serverVars, history, Pcs, Dirs
<1>8. CASE \E c \in Conns : \E u \in Uuids, n \in Chunks : ReadHeader(c, u, n)
  BY <1>8, ChunkAssumption
  DEF ReadHeader, TypeOK, HeaderKnown, IsMap, serverVars, history, Pcs, Dirs
<1>9. CASE \E c \in Conns : \E d \in Dirs, n \in Chunks : Transfer(c, d, n)
  BY <1>9, ChunkAssumption
  DEF Transfer, TypeOK, HeaderKnown, IsMap, serverVars, history, Pcs, Dirs
<1>10. CASE \E c \in Conns : \E d \in Dirs : Count(c, d)
  <2> PICK c \in Conns, d \in Dirs : Count(c, d)
    BY <1>10
  <2>1. who[c] \in Uuids /\ entry[c] \in Nodes /\ buf[c][d] \in Nat
    BY DEF Count, HeaderKnown, TypeOK, Dirs
  <2> DEFINE k == <<who[c], entry[c]>>
  <2>2. k \in Keys /\ k[1] = who[c]
    BY <2>1 DEF Keys
  <2>3. IsMap(userTraffic', Keys, TrafficStat)
    <3>1. addStat(k, buf[c][d])
      BY DEF Count, addTraffic
    <3>2. StatAfterAdd(k, buf[c][d]) \in TrafficStat
      BY <2>1, <2>2, StatAfterAddType
    <3> HIDE DEF k
    <3> QED
      BY <2>2, <3>1, <3>2 DEF addStat, TypeOK, IsMap
  <2>4. /\ IsMap(userQuota', Uuids, QuotaState)
        /\ open' \in [Conns -> BOOLEAN]
        /\ missedCut' \in SUBSET Conns
    <3>1. accrueQuota(who[c], buf[c][d])
      BY DEF Count, addTraffic
    <3>2. who[c] \in DOMAIN userQuota
            => Accrued(userQuota[who[c]], buf[c][d]) \in QuotaState
      BY <2>1, AccruedType DEF TypeOK, IsMap
    <3> QED
      BY <2>1, <3>1, <3>2 DEF accrueQuota, Closing, Unregistering, TypeOK, IsMap
  <2>5. counted' \in [Keys -> Nat]
    <3>1. counted' = [counted EXCEPT ![k] = @ + buf[c][d]]
      BY DEF Count, addTraffic
    <3> HIDE DEF k
    <3> QED
      BY <2>1, <2>2, <3>1 DEF TypeOK
  <2>6. /\ buf' \in [Conns -> [Dirs -> Nat]]
        /\ pc' \in [Conns -> Pcs]
    BY DEF Count, TypeOK, Pcs
  <2>7. HeaderKnown'
    BY DEF Count, HeaderKnown, TypeOK, Dirs, Pcs
  <2> QED
    BY <2>3, <2>4, <2>5, <2>6, <2>7 DEF Count, TypeOK, IsMap
<1>11. CASE \E new \in UserLists : UpdateUsers(new)
  BY <1>11, ListAssumption
  DEF UpdateUsers, Closing, TypeOK, HeaderKnown, IsMap, history
<1>12. CASE \E usage \in UsageLists, p \in EmailUuids : ApplyUsage(usage, p)
  BY <1>12, ListAssumption
  DEF ApplyUsage, Snapshot, TypeOK, HeaderKnown, IsMap, QuotaState, connVars
<1>13. CASE GetAndResetTraffic
  <2>1. IsMap(userTraffic', Keys, TrafficStat)
    BY <1>13, DrainType DEF GetAndResetTraffic, TypeOK, IsMap
  <2>2. returned' \in [Keys -> Nat] /\ dropped' \in [Keys -> Nat]
    BY <1>13, DrainType DEF GetAndResetTraffic, Drained, TypeOK
  <2> QED
    BY <1>13, <2>1, <2>2
    DEF GetAndResetTraffic, TypeOK, HeaderKnown, IsMap, connVars
<1> QED
  BY <1>1, <1>2, <1>3, <1>4, <1>5, <1>6, <1>7, <1>8, <1>9, <1>10, <1>11,
     <1>12, <1>13, NextCases

(* Type correctness: the Go maps, counters and program counters stay in    *)
(* their types under every interleaving of the handlers with UpdateUsers,  *)
(* ApplyUsage and GetAndResetTraffic.                                      *)
THEOREM TypeCorrect == Spec => []TypeOK
<1>1. TInv => TypeOK
  BY DEF TInv
<1> QED
  BY <1>1, TypeInit, TypeStep, PTL DEF Spec

-----------------------------------------------------------------------------
(* What the steps that do not touch the maps have in common. *)

QuietStep(c) ==
    \/ HandshakeFails(c)
    \/ LookupUser(c)
    \/ QuotaGate(c)
    \/ CloseConn(c)
    \/ \E u \in Uuids, n \in Chunks : ReadHeader(c, u, n)
    \/ \E d \in Dirs, n \in Chunks : Transfer(c, d, n)

LEMMA StepKinds ==
    ASSUME [Next]_vars
    PROVE  \/ UNCHANGED vars
           \/ \E c \in Conns : QuietStep(c)
           \/ \E c \in Conns : Register(c)
           \/ \E c \in Conns : Finish(c)
           \/ \E c \in Conns : \E d \in Dirs : Count(c, d)
           \/ \E new \in UserLists : UpdateUsers(new)
           \/ \E usage \in UsageLists, p \in EmailUuids : ApplyUsage(usage, p)
           \/ GetAndResetTraffic
BY NextCases DEF QuietStep

LEMMA QuietSteps ==
    ASSUME TInv, NEW c \in Conns, QuietStep(c)
    PROVE  /\ UNCHANGED <<users, userConns, userTraffic, userQuota, counted,
                          returned, dropped, missedRevoke, missedCut>>
           /\ \A x \in Conns : Registered(x)' => Registered(x)
           /\ \A x \in Conns : Registered(x) => Registered(x)' /\ who'[x] = who[x]
           /\ \A x \in Conns : open'[x] => open[x]
           /\ \A x \in Conns : Registered(x) => open'[x] = open[x]
<1>1. CASE HandshakeFails(c)
  BY <1>1 DEF HandshakeFails, Reject, Registered, TInv, TypeOK, serverVars, history
<1>2. CASE LookupUser(c)
  BY <1>2 DEF LookupUser, Advance, Reject, Registered, TInv, TypeOK, serverVars, history
<1>3. CASE QuotaGate(c)
  BY <1>3 DEF QuotaGate, Advance, Reject, Registered, TInv, TypeOK, serverVars, history
<1>4. CASE CloseConn(c)
  BY <1>4 DEF CloseConn, Registered, TInv, TypeOK, serverVars, history
<1>5. CASE \E u \in Uuids, n \in Chunks : ReadHeader(c, u, n)
  BY <1>5 DEF ReadHeader, Registered, TInv, TypeOK, serverVars, history
<1>6. CASE \E d \in Dirs, n \in Chunks : Transfer(c, d, n)
  BY <1>6 DEF Transfer, Registered, TInv, TypeOK, serverVars, history
<1> QED
  BY <1>1, <1>2, <1>3, <1>4, <1>5, <1>6 DEF QuietStep

(* Count leaves the index alone, keeps every handler on its side of       *)
(* addConn and removeConn and reopens nothing.                            *)
LEMMA CountFacts ==
    ASSUME TInv, NEW c \in Conns, NEW d \in Dirs, Count(c, d)
    PROVE  /\ who[c] \in Uuids
           /\ UNCHANGED <<users, userConns, who, missedRevoke>>
           /\ \A x \in Conns : Registered(x)' <=> Registered(x)
           /\ \A x \in Conns : open'[x] => open[x]
<1>1. who[c] \in Uuids /\ UNCHANGED <<users, userConns, who, missedRevoke>>
  BY DEF Count, TInv, HeaderKnown, TypeOK, Dirs
<1>2. \A x \in Conns : Registered(x)' <=> Registered(x)
  BY DEF Count, Registered, TInv, TypeOK
<1>3. \A x \in Conns : open'[x] => open[x]
  BY DEF Count, addTraffic, accrueQuota, Closing, TInv, TypeOK
<1> QED
  BY <1>1, <1>2, <1>3

LEMMA IndexStep == TInv /\ IndexExact /\ [Next]_vars => IndexExact'
<1> SUFFICES ASSUME TInv, IndexExact, [Next]_vars PROVE IndexExact'
  OBVIOUS
<1>1. CASE UNCHANGED vars
  BY <1>1 DEF IndexExact, Registered, vars, serverVars, connVars
<1>2. CASE \E c \in Conns : QuietStep(c)
  BY <1>2, QuietSteps DEF IndexExact, TInv, TypeOK
<1>3. CASE \E c \in Conns : Register(c)
  <2> PICK c \in Conns : Register(c)
    BY <1>3
  <2>1. /\ pc[c] = "gated" /\ pc' = [pc EXCEPT ![c] = "added"]
        /\ userConns' = [userConns EXCEPT ![who[c]] = @ \cup {c}]
        /\ who' = who /\ open' = open
    BY DEF Register, addConn
  <2>2. /\ who[c] \in Uuids /\ userConns \in [Uuids -> SUBSET Conns]
        /\ pc \in [Conns -> Pcs]
    BY <2>1 DEF TInv, TypeOK, HeaderKnown
  <2>3. \A x \in Conns : Registered(x)' <=> Registered(x) \/ x = c
    BY <2>1, <2>2 DEF Registered
  <2>4. \A u \in Uuids : userConns'[u] = IF u = who[c] THEN userConns[u] \cup {c}
                                                       ELSE userConns[u]
    BY <2>1, <2>2
  <2>5. ASSUME NEW x \in Conns, Registered(x)', open'[x]
        PROVE  x \in userConns'[who'[x]]
    <3>1. CASE x = c
      BY <2>1, <2>2, <2>4, <3>1
    <3>2. CASE x # c
      <4>1. x \in userConns[who[x]]
        BY <2>1, <2>3, <2>5, <3>2 DEF IndexExact
      <4>2. who[x] \in Uuids
        BY <2>1, <2>3, <2>5, <3>2 DEF TInv, HeaderKnown, Registered
      <4> QED
        BY <2>1, <2>4, <4>1, <4>2
    <3> QED
      BY <3>1, <3>2
  <2>6. ASSUME NEW u \in Uuids, NEW x \in userConns'[u]
        PROVE  Registered(x)' /\ who'[x] = u
    <3>1. CASE x = c
      <4>1. x \in userConns[u] => who[x] = u
        BY DEF IndexExact
      <4> QED
        BY <2>1, <2>3, <2>4, <2>6, <3>1, <4>1
    <3>2. CASE x # c
      <4>1. x \in userConns[u]
        BY <2>4, <2>6, <3>2
      <4> QED
        BY <2>1, <2>2, <2>3, <4>1 DEF IndexExact
    <3> QED
      BY <3>1, <3>2
  <2> QED
    BY <2>5, <2>6 DEF IndexExact
<1>4. CASE \E c \in Conns : Finish(c)
  BY <1>4 DEF Finish, removeConn, IndexExact, Registered, TInv, TypeOK, HeaderKnown
<1>5. CASE \E c \in Conns : \E d \in Dirs : Count(c, d)
  BY <1>5, CountFacts DEF IndexExact, TInv, TypeOK
<1>6. CASE \E new \in UserLists : UpdateUsers(new)
  <2> PICK new \in UserLists : UpdateUsers(new)
    BY <1>6
  <2>1. /\ \A c \in Conns : Registered(c)' <=> Registered(c)
        /\ who' = who
    BY DEF UpdateUsers, Registered
  <2>2. ASSUME NEW c \in Conns, Registered(c), open'[c]
        PROVE  c \in userConns'[who[c]]
    <3>1. open[c] /\ c \notin RevokedConns(DOMAIN users \ DOMAIN new)
      BY <2>2 DEF UpdateUsers, Closing
    <3>2. who[c] \in Uuids /\ c \in userConns[who[c]]
      BY <2>2, <3>1 DEF IndexExact, Registered, TInv, HeaderKnown
    <3> QED
      BY <3>1, <3>2 DEF UpdateUsers, RevokedConns
  <2>3. \A u \in Uuids : userConns'[u] \subseteq userConns[u]
    BY DEF UpdateUsers
  <2> QED
    BY <2>1, <2>2, <2>3 DEF IndexExact, TInv, TypeOK
<1>7. CASE \E usage \in UsageLists, p \in EmailUuids : ApplyUsage(usage, p)
  BY <1>7 DEF ApplyUsage, IndexExact, Registered, connVars
<1>8. CASE GetAndResetTraffic
  BY <1>8 DEF GetAndResetTraffic, IndexExact, Registered, connVars
<1> QED
  BY <1>1, <1>2, <1>3, <1>4, <1>5, <1>6, <1>7, <1>8, StepKinds

LEMMA RevocationStep ==
    TInv /\ IndexExact /\ RevocationReachesTracked /\ [Next]_vars
        => RevocationReachesTracked'
<1> SUFFICES ASSUME TInv, IndexExact, RevocationReachesTracked, [Next]_vars
             PROVE  RevocationReachesTracked'
  OBVIOUS
<1>1. CASE UNCHANGED vars
  BY <1>1 DEF RevocationReachesTracked, Registered, vars, serverVars, connVars, history
<1>2. CASE \E c \in Conns : QuietStep(c)
  BY <1>2, QuietSteps DEF RevocationReachesTracked
<1>3. CASE \E c \in Conns : Register(c)
  BY <1>3 DEF Register, RevocationReachesTracked, Registered, TInv, TypeOK
<1>4. CASE \E c \in Conns : Finish(c)
  BY <1>4 DEF Finish, RevocationReachesTracked, Registered, TInv, TypeOK, history
<1>5. CASE \E c \in Conns : \E d \in Dirs : Count(c, d)
  BY <1>5, CountFacts DEF RevocationReachesTracked
<1>6. CASE \E new \in UserLists : UpdateUsers(new)
  <2> PICK new \in UserLists : UpdateUsers(new)
    BY <1>6
  <2> SUFFICES ASSUME NEW c \in Conns, Registered(c)', open'[c],
                      who'[c] \notin DOMAIN users'
               PROVE  c \in missedRevoke'
    BY DEF RevocationReachesTracked
  <2>1. /\ Registered(c) /\ open[c] /\ who[c] \notin DOMAIN new
        /\ c \notin RevokedConns(DOMAIN users \ DOMAIN new)
    BY DEF UpdateUsers, Closing, Registered
  <2>2. who[c] \notin DOMAIN users
    <3>1. c \in userConns[who[c]]
      BY <2>1 DEF IndexExact
    <3> QED
      BY <2>1, <3>1 DEF RevokedConns
  <2> QED
    BY <2>1, <2>2 DEF UpdateUsers, RevocationReachesTracked, history
<1>7. CASE \E usage \in UsageLists, p \in EmailUuids : ApplyUsage(usage, p)
  BY <1>7 DEF ApplyUsage, RevocationReachesTracked, Registered, connVars
<1>8. CASE GetAndResetTraffic
  BY <1>8 DEF GetAndResetTraffic, RevocationReachesTracked, Registered, connVars
<1> QED
  BY <1>1, <1>2, <1>3, <1>4, <1>5, <1>6, <1>7, <1>8, StepKinds

(* A Count that changes the cut flag of a user closes that user's          *)
(* connections; every other flag is left as it was.                        *)
LEMMA CountCuts ==
    ASSUME TInv, NEW c \in Conns, NEW d \in Dirs, Count(c, d),
           NEW u \in Uuids, OverQuota(u)', ~OverQuota(u)
    PROVE  u = who[c] /\ \A x \in userConns[u] : ~open'[x]
<1>1. accrueQuota(who[c], buf[c][d])
  BY DEF Count, addTraffic
<1>2. /\ who[c] \in DOMAIN userQuota
      /\ userQuota[who[c]].quota >= 0
      /\ u = who[c]
  BY <1>1 DEF accrueQuota, OverQuota, TInv, TypeOK, IsMap
<1>3. userQuota'[u] = Accrued(userQuota[who[c]], buf[c][d])
  BY <1>1, <1>2 DEF accrueQuota, TInv, TypeOK, IsMap
<1>4. open' = Closing(userConns[u])
  BY <1>1, <1>2, <1>3 DEF accrueQuota, CutCloses, OverQuota
<1> QED
  BY <1>2, <1>4 DEF Closing, TInv, TypeOK

LEMMA CutStep ==
    TInv /\ IndexExact /\ LocalCutDisconnects /\ [Next]_vars => LocalCutDisconnects'
<1> SUFFICES ASSUME TInv, IndexExact, LocalCutDisconnects, [Next]_vars
             PROVE  LocalCutDisconnects'
  OBVIOUS
<1>1. CASE UNCHANGED vars
  BY <1>1 DEF LocalCutDisconnects, OverQuota, Registered, vars, serverVars, connVars, history
<1>2. CASE \E c \in Conns : QuietStep(c)
  BY <1>2, QuietSteps DEF LocalCutDisconnects, OverQuota
<1>3. CASE \E c \in Conns : Register(c)
  BY <1>3 DEF Register, LocalCutDisconnects, OverQuota, Registered, TInv, TypeOK
<1>4. CASE \E c \in Conns : Finish(c)
  BY <1>4 DEF Finish, LocalCutDisconnects, OverQuota, Registered, TInv, TypeOK, history
<1>5. CASE \E c \in Conns : \E d \in Dirs : Count(c, d)
  <2> PICK c \in Conns, d \in Dirs : Count(c, d)
    BY <1>5
  <2> SUFFICES ASSUME NEW x \in Conns, Registered(x)', open'[x], OverQuota(who[x])'
               PROVE  x \in missedCut'
    BY DEF LocalCutDisconnects
  <2>1. Registered(x) /\ open[x] /\ who'[x] = who[x] /\ x \in userConns[who[x]]
    BY CountFacts DEF IndexExact
  <2>2. missedCut \subseteq missedCut'
    BY DEF Count, addTraffic, accrueQuota
  <2>3. who[x] \in Uuids
    BY <2>1 DEF Registered, TInv, HeaderKnown
  <2>4. OverQuota(who[x])
    BY <2>1, <2>3, CountCuts DEF OverQuota
  <2> QED
    BY <2>1, <2>2, <2>4 DEF LocalCutDisconnects
<1>6. CASE \E new \in UserLists : UpdateUsers(new)
  BY <1>6 DEF UpdateUsers, Closing, LocalCutDisconnects, OverQuota, Registered,
              TInv, TypeOK, IsMap, history
<1>7. CASE \E usage \in UsageLists, p \in EmailUuids : ApplyUsage(usage, p)
  BY <1>7 DEF ApplyUsage, LocalCutDisconnects, OverQuota, Registered, IndexExact, connVars
<1>8. CASE GetAndResetTraffic
  BY <1>8 DEF GetAndResetTraffic, LocalCutDisconnects, OverQuota, Registered, connVars
<1> QED
  BY <1>1, <1>2, <1>3, <1>4, <1>5, <1>6, <1>7, <1>8, StepKinds

-----------------------------------------------------------------------------
(* The cut flag and the traffic counters *)

LEMMA CutExactStep ==
    TInv /\ CutIffExhausted /\ [Next]_vars => CutIffExhausted'
<1> SUFFICES ASSUME TInv, CutIffExhausted, [Next]_vars PROVE CutIffExhausted'
  OBVIOUS
<1>1. CASE UNCHANGED userQuota
  BY <1>1 DEF CutIffExhausted
<1>2. CASE \E c \in Conns : \E d \in Dirs : Count(c, d)
  <2> PICK c \in Conns, d \in Dirs : Count(c, d)
    BY <1>2
  <2> DEFINE u == who[c]
             n == buf[c][d]
  <2>1. accrueQuota(u, n) /\ n \in Nat \ {0}
    BY DEF Count, addTraffic, TInv, TypeOK
  <2>2. CASE ~(u \in DOMAIN userQuota /\ userQuota[u].quota >= 0)
    BY <1>1, <2>1, <2>2 DEF accrueQuota
  <2>3. CASE u \in DOMAIN userQuota /\ userQuota[u].quota >= 0
    <3>1. userQuota' = [userQuota EXCEPT ![u] = Accrued(userQuota[u], n)]
      BY <2>1, <2>3 DEF accrueQuota
    <3>2. userQuota[u] \in QuotaState
      BY <2>3 DEF TInv, TypeOK, IsMap
    <3>3. LET qs == Accrued(userQuota[u], n)
          IN  qs.cut <=> qs.quota >= 0 /\ qs.quota - qs.base - qs.accrual <= 0
      <4> DEFINE q == userQuota[u]
      <4>1. /\ Accrued(q, n).quota = q.quota
            /\ Accrued(q, n).base = q.base
            /\ Accrued(q, n).accrual = q.accrual + n
        BY DEF Accrued
      <4>2. Accrued(q, n).cut <=> q.cut \/ q.quota - q.base - (q.accrual + n) <= 0
        BY Zenon DEF Accrued, Exhausted
      <4>3. q.quota \in Int /\ q.base \in Nat /\ q.accrual \in Nat
        BY <3>2 DEF QuotaState
      <4>4. q.cut <=> q.quota >= 0 /\ q.quota - q.base - q.accrual <= 0
        BY <2>3 DEF CutIffExhausted
      <4> QED
        BY <2>1, <2>3, <4>1, <4>2, <4>3, <4>4
    <3> QED
      BY <2>3, <3>1, <3>3 DEF CutIffExhausted, TInv, TypeOK, IsMap
  <2> QED
    BY <2>2, <2>3
<1>3. CASE \E new \in UserLists : UpdateUsers(new)
  BY <1>3 DEF UpdateUsers, CutIffExhausted, TInv, TypeOK, IsMap
<1>4. CASE \E usage \in UsageLists, p \in EmailUuids : ApplyUsage(usage, p)
  <2> PICK usage \in UsageLists, p \in EmailUuids : ApplyUsage(usage, p)
    BY <1>4
  <2>1. \A u \in DOMAIN userQuota' :
            /\ users[u] \in DOMAIN usage
            /\ userQuota'[u] = Snapshot(usage[users[u]])
    BY DEF ApplyUsage
  <2>2. \A e \in DOMAIN usage : usage[e] \in [quota : Int, used : Nat]
    BY ListAssumption DEF IsMap
  <2>3. ASSUME NEW r \in [quota : Int, used : Nat]
        PROVE  LET qs == Snapshot(r)
               IN  qs.cut <=> qs.quota >= 0 /\ qs.quota - qs.base - qs.accrual <= 0
    <3>1. /\ Snapshot(r).quota = r.quota
          /\ Snapshot(r).base = r.used
          /\ Snapshot(r).accrual = 0
      BY DEF Snapshot
    <3>2. Snapshot(r).cut <=> r.quota >= 0 /\ r.quota - r.used <= 0
      BY Zenon DEF Snapshot
    <3> QED
      BY <3>1, <3>2
  <2> QED
    BY <2>1, <2>2, <2>3 DEF CutIffExhausted
<1>5. CASE \E c \in Conns : QuietStep(c) \/ Register(c) \/ Finish(c)
  BY <1>1, <1>5, QuietSteps DEF Register, Finish
<1> QED
  BY <1>1, <1>2, <1>3, <1>4, <1>5, StepKinds
  DEF GetAndResetTraffic, vars, serverVars

LEMMA HeldType == ASSUME TypeOK, NEW k \in Keys PROVE Held(k) \in Nat
BY DEF Held, TypeOK, IsMap, TrafficStat

(* addTraffic adds the chunk to the stat of one key, present or not. *)
LEMMA CountLedger ==
    ASSUME TInv, NEW c \in Conns, NEW d \in Dirs, Count(c, d)
    PROVE  \E key \in Keys, n \in Nat \ {0} :
             /\ key = <<who[c], entry[c]>> /\ n = buf[c][d]
             /\ UNCHANGED <<returned, dropped>>
             /\ Held(key)' = Held(key) + n
             /\ \A k \in Keys \ {key} : Held(k)' = Held(k)
             /\ counted' = [counted EXCEPT ![key] = @ + n]
<1>1. PICK key \in Keys, n \in Nat \ {0} : key = <<who[c], entry[c]>> /\ n = buf[c][d]
  <2>1. <<who[c], entry[c]>> \in Keys
    BY CountFacts DEF Keys, TInv, TypeOK
  <2>2. buf[c][d] \in Nat /\ buf[c][d] > 0
    BY DEF Count, TInv, TypeOK
  <2> QED
    BY <2>1, <2>2
<1>2. /\ addStat(key, n)
      /\ counted' = [counted EXCEPT ![key] = @ + n]
      /\ UNCHANGED <<returned, dropped>>
  BY <1>1 DEF Count, addTraffic
<1>3. StatAfterAdd(key, n).bytes = Held(key) + n
  BY StatAfterAddType DEF Held, TInv
<1>4. Held(key)' = Held(key) + n
  BY <1>2, <1>3 DEF addStat, Held
<1>5. \A k \in Keys \ {key} : Held(k)' = Held(k)
  BY <1>2 DEF addStat, Held
<1> QED
  BY <1>1, <1>2, <1>4, <1>5

(* GetAndResetTraffic empties every stat into what it returns or drops. *)
LEMMA DrainLedger ==
    ASSUME TInv, GetAndResetTraffic, NEW k \in Keys
    PROVE  /\ Held(k)' = 0 /\ counted' = counted
           /\ \/ returned'[k] = returned[k] + Held(k) /\ dropped'[k] = dropped[k]
              \/ returned'[k] = returned[k] /\ dropped'[k] = dropped[k] + Held(k)
<1>0. returned[k] \in Nat /\ dropped[k] \in Nat /\ Held(k) \in Nat
  BY HeldType DEF TInv, TypeOK
<1>1. Held(k)' = 0 /\ counted' = counted
  BY DrainType DEF GetAndResetTraffic, Held, TInv
<1>2. CASE k \in Drained
  BY <1>0, <1>1, <1>2 DEF GetAndResetTraffic, Held, Drained
<1>3. CASE k \notin Drained
  BY <1>0, <1>1, <1>3 DEF GetAndResetTraffic, Held
<1> QED
  BY <1>2, <1>3

(* Nothing else touches stats or histories. *)
LEMMA LedgerCases ==
    ASSUME TInv, [Next]_vars
    PROVE  \/ UNCHANGED <<userTraffic, counted, returned, dropped>>
           \/ \E c \in Conns : \E d \in Dirs : Count(c, d)
           \/ GetAndResetTraffic
<1>1. CASE \E c \in Conns : QuietStep(c) \/ Register(c) \/ Finish(c)
  BY <1>1, QuietSteps DEF Register, Finish, history
<1>2. CASE \E new \in UserLists : UpdateUsers(new)
  BY <1>2 DEF UpdateUsers, history
<1>3. CASE \E usage \in UsageLists, p \in EmailUuids : ApplyUsage(usage, p)
  BY <1>3 DEF ApplyUsage
<1>4. CASE UNCHANGED vars
  BY <1>4 DEF vars, serverVars, history
<1> QED
  BY <1>1, <1>2, <1>3, <1>4, StepKinds

LEMMA ConservedStep ==
    TInv /\ TrafficConserved /\ [Next]_vars => TrafficConserved'
<1> SUFFICES ASSUME TInv, TrafficConserved, [Next]_vars,
                    NEW k \in Keys
             PROVE  counted'[k] = returned'[k] + dropped'[k] + Held(k)'
  BY DEF TrafficConserved
<1>0. /\ counted[k] = returned[k] + dropped[k] + Held(k)
      /\ counted[k] \in Nat /\ returned[k] \in Nat /\ dropped[k] \in Nat
      /\ Held(k) \in Nat
  BY HeldType DEF TrafficConserved, TInv, TypeOK
<1>1. CASE UNCHANGED <<userTraffic, counted, returned, dropped>>
  BY <1>0, <1>1 DEF Held
<1>2. CASE \E c \in Conns : \E d \in Dirs : Count(c, d)
  <2>1. PICK key \in Keys, n \in Nat \ {0} :
               /\ UNCHANGED <<returned, dropped>>
               /\ Held(key)' = Held(key) + n
               /\ \A x \in Keys \ {key} : Held(x)' = Held(x)
               /\ counted' = [counted EXCEPT ![key] = @ + n]
    BY <1>2, CountLedger
  <2>2. counted'[k] = IF k = key THEN counted[k] + n ELSE counted[k]
    BY <2>1 DEF TInv, TypeOK
  <2> QED
    BY <1>0, <2>1, <2>2
<1>3. CASE GetAndResetTraffic
  BY <1>0, <1>3, DrainLedger
<1> QED
  BY <1>1, <1>2, <1>3, LedgerCases

-----------------------------------------------------------------------------
(* The theorems *)

(* The inductive invariant: each conjunct but the counters rests on the    *)
(* exactness of the index userConns.                                       *)
IInv ==
    /\ TInv
    /\ IndexExact
    /\ RevocationReachesTracked
    /\ LocalCutDisconnects
    /\ CutIffExhausted
    /\ TrafficConserved

LEMMA InitIInv == Init => IInv
<1> SUFFICES ASSUME Init PROVE IInv
  OBVIOUS
<1>1. IndexExact /\ RevocationReachesTracked /\ LocalCutDisconnects
  BY DEF Init, IndexExact, RevocationReachesTracked, LocalCutDisconnects, Registered
<1>2. CutIffExhausted /\ TrafficConserved
  BY DEF Init, CutIffExhausted, TrafficConserved, Held, Empty
<1> QED
  BY <1>1, <1>2, TypeInit DEF IInv

LEMMA StepIInv == IInv /\ [Next]_vars => IInv'
BY TypeStep, IndexStep, RevocationStep, CutStep, CutExactStep, ConservedStep DEF IInv

LEMMA Invariance == Spec => []IInv
BY InitIInv, StepIInv, PTL DEF Spec

(* userConns lists exactly the connections between addConn and removeConn, *)
(* so UpdateUsers and a quota cut reach every one that is still open.      *)
THEOREM IndexIsExact == Spec => []IndexExact
<1>1. IInv => IndexExact
  BY DEF IInv
<1> QED
  BY <1>1, Invariance, PTL

(* An open connection of a removed user is one that was between the user   *)
(* lookup and addConn when UpdateUsers ran: there is no other way to       *)
(* survive a revocation, for any number of users and connections.          *)
THEOREM RevocationComplete == Spec => []RevocationReachesTracked
<1>1. IInv => RevocationReachesTracked
  BY DEF IInv
<1> QED
  BY <1>1, Invariance, PTL

(* An open connection of a cut user is one that slipped past the gate or   *)
(* belongs to a user whom a snapshot found over the cap.                   *)
THEOREM CutComplete == Spec => []LocalCutDisconnects
<1>1. IInv => LocalCutDisconnects
  BY DEF IInv
<1> QED
  BY <1>1, Invariance, PTL

(* The cut flag is exact for every quota, usage and chunk size. *)
THEOREM CutExact == Spec => []CutIffExhausted
<1>1. IInv => CutIffExhausted
  BY DEF IInv
<1> QED
  BY <1>1, Invariance, PTL

(* GetAndResetTraffic neither loses nor repeats a counted byte of a user   *)
(* with an e-mail, and accounts for the ones it drops.                     *)
THEOREM CountersConserved == Spec => []TrafficConserved
<1>1. IInv => TrafficConserved
  BY DEF IInv
<1> QED
  BY <1>1, Invariance, PTL

(* Every step of the server is a step of the ledger or none: a chunk is    *)
(* recorded for one key, a drain moves bytes on, each of them once, and    *)
(* creating, re-labelling and deleting stats changes no balance.           *)
THEOREM LedgerRefined == Spec => ImplementsLedger
<1>1. Init => Ledger!Init
  BY DEF Init, Ledger!Init, Held, Empty
<1>2. TInv /\ [Next]_vars => [Ledger!Next]_(Ledger!vars)
  <2> SUFFICES ASSUME TInv, [Next]_vars
               PROVE  Ledger!Next \/ UNCHANGED Ledger!vars
    OBVIOUS
  <2>0. /\ \A k \in Keys : Held(k) \in Nat /\ Held(k)' \in Nat
        /\ \A k \in Keys : returned[k] \in Nat /\ dropped[k] \in Nat
    <3>1. TypeOK /\ TypeOK'
      BY TypeStep DEF TInv
    <3>2. \A k \in Keys : Held(k)' \in Nat
      BY <3>1 DEF Held, TypeOK, IsMap, TrafficStat
    <3> QED
      BY <3>1, <3>2, HeldType DEF TypeOK
  <2>1. CASE UNCHANGED <<userTraffic, counted, returned, dropped>>
    BY <2>1 DEF Ledger!vars, Held
  <2>2. CASE \E c \in Conns : \E d \in Dirs : Count(c, d)
    <3>1. PICK key \in Keys, n \in Nat \ {0} :
                 /\ UNCHANGED <<returned, dropped>>
                 /\ Held(key)' = Held(key) + n
                 /\ \A k \in Keys \ {key} : Held(k)' = Held(k)
                 /\ counted' = [counted EXCEPT ![key] = @ + n]
      BY <2>2, CountLedger
    <3>2. /\ Held(key)' > Held(key)
          /\ counted'[key] = counted[key] + n
          /\ counted'[key] + Held(key) = counted[key] + Held(key)'
          /\ \A k \in Keys \ {key} : counted'[k] = counted[k]
      BY <2>0, <3>1 DEF TInv, TypeOK
    <3>3. Ledger!Record(key)
      BY <2>0, <3>1, <3>2 DEF Ledger!Record, Ledger!Balances
    <3> QED
      BY <3>3 DEF Ledger!Next
  <2>3. CASE GetAndResetTraffic
    <3>1. \A k \in Keys :
             /\ returned'[k] >= returned[k] /\ dropped'[k] >= dropped[k]
             /\ Held(k)' + returned'[k] + dropped'[k]
                  = Held(k) + returned[k] + dropped[k]
      BY <2>0, <2>3, DrainLedger
    <3>0. counted' = counted
      BY <2>3 DEF GetAndResetTraffic
    <3>2. Ledger!Move
      BY <2>0, <3>0, <3>1 DEF Ledger!Move, Ledger!Balances
    <3> QED
      BY <3>2 DEF Ledger!Next
  <2> QED
    BY <2>1, <2>2, <2>3, LedgerCases
<1>3. IInv => TInv
  BY DEF IInv
<1> QED
  BY <1>1, <1>2, <1>3, Invariance, PTL DEF Spec, ImplementsLedger, Ledger!Spec

(* Bytes are only ever dropped for users that have left s.users. *)
THEOREM ActiveUsersLoseNothing == Spec => NoLossForActiveUsers
<1> DEFINE A == \A k \in Keys : dropped'[k] > dropped[k] => k[1] \notin DOMAIN users
<1>1. TInv /\ [Next]_vars => [A]_vars
  <2> SUFFICES ASSUME TInv, Next PROVE A
    OBVIOUS
  <2> SUFFICES ASSUME NEW k \in Keys, dropped'[k] > dropped[k]
               PROVE  k[1] \notin DOMAIN users
    OBVIOUS
  <2>1. dropped[k] \in Nat
    BY DEF TInv, TypeOK
  <2>2. dropped'[k] # dropped[k]
    BY <2>1
  <2>3. GetAndResetTraffic
    BY <2>2, StepKinds, QuietSteps
    DEF Register, Finish, Count, UpdateUsers, ApplyUsage, history, vars
  <2>4. k \in DOMAIN userTraffic /\ userTraffic[k].bytes > 0 /\ k \notin Drained
    BY <2>1, <2>2, <2>3 DEF GetAndResetTraffic
  <2>5. EmailOf(k[1]) = NoEmail
    BY <2>4 DEF Drained, EmailAtDrain
  <2> QED
    BY <2>5, IdAssumption DEF EmailOf, TInv, TypeOK, IsMap
<1>2. IInv => TInv
  BY DEF IInv
<1> QED
  BY <1>1, <1>2, Invariance, PTL DEF Spec, NoLossForActiveUsers

(* Only users that are gone or cut are disconnected under their handler. *)
THEOREM InnocentsStayConnected == Spec => OnlyOffendersClosed
<1> DEFINE A == \A c \in Conns :
                   Registered(c) /\ open[c] /\ ~open'[c]
                       => who[c] \notin DOMAIN users' \/ OverQuota(who[c])'
<1>1. IInv /\ [Next]_vars => [A]_vars
  <2> SUFFICES ASSUME IInv, Next,
                      NEW c \in Conns, Registered(c), open[c], ~open'[c]
               PROVE  who[c] \notin DOMAIN users' \/ OverQuota(who[c])'
    OBVIOUS
  <2> USE DEF IInv
  <2>1. CASE \E x \in Conns : QuietStep(x) \/ Register(x) \/ Finish(x)
    BY <2>1, QuietSteps DEF Register, Finish
  <2>2. CASE \E x \in Conns : \E d \in Dirs : Count(x, d)
    <3> PICK x \in Conns, d \in Dirs : Count(x, d)
      BY <2>2
    <3>1. accrueQuota(who[x], buf[x][d])
      BY DEF Count, addTraffic
    <3>2. /\ who[x] \in DOMAIN userQuota
          /\ c \in userConns[who[x]]
          /\ Accrued(userQuota[who[x]], buf[x][d]).cut
          /\ userQuota' = [userQuota EXCEPT
                             ![who[x]] = Accrued(userQuota[who[x]], buf[x][d])]
      BY <3>1 DEF accrueQuota, Closing, CutCloses
    <3>3. who[x] = who[c] /\ who' = who
      BY <3>2, CountFacts DEF IndexExact
    <3> QED
      BY <3>2, <3>3 DEF OverQuota, TInv, TypeOK, IsMap
  <2>3. CASE \E new \in UserLists : UpdateUsers(new)
    BY <2>3 DEF UpdateUsers, Closing, RevokedConns, IndexExact, TInv, TypeOK, IsMap
  <2>4. CASE GetAndResetTraffic \/ \E usage \in UsageLists, p \in EmailUuids : ApplyUsage(usage, p)
    BY <2>4 DEF GetAndResetTraffic, ApplyUsage, connVars
  <2>5. CASE UNCHANGED vars
    BY <2>5 DEF vars, connVars
  <2> QED
    BY <2>1, <2>2, <2>3, <2>4, <2>5, StepKinds
<1> QED
  BY <1>1, Invariance, PTL DEF Spec, OnlyOffendersClosed

-----------------------------------------------------------------------------
(* The overshoot of a cut user *)

(* A locally cut user has no open connection left that may move bytes, but *)
(* for those that slipped past the cut.  A snapshot that finds the user    *)
(* over the cap leaves no headroom, so quota > base tells the two apart.   *)
CutReaches ==
    \A c \in Conns :
        ( /\ pc[c] \in {"added", "relay", "unreg"} /\ open[c]
          /\ who[c] \in DOMAIN userQuota /\ userQuota[who[c]].cut
          /\ userQuota[who[c]].quota > userQuota[who[c]].base )
            => c \in missedCut

(* A connection holds one uncounted chunk per direction, and before its    *)
(* registration only the header.                                           *)
BufBounded ==
    \A c \in Conns :
        /\ \A d \in Dirs : buf[c][d] <= Max(Chunks)
        /\ pc[c] \in {"new", "header", "authed", "gated"} => buf[c]["down"] = 0

OInv == IInv /\ CutReaches /\ BufBounded /\ OvershootBounded

LEMMA MaxChunk ==
    /\ Max(Chunks) \in Nat
    /\ \A n \in Chunks : n \in Nat \ {0} /\ n <= Max(Chunks)
<1>1. PICK m \in Chunks : \A n \in Chunks : n <= m
  BY ChunkAssumption, FiniteMax
<1>2. Max(Chunks) \in Chunks /\ \A n \in Chunks : Max(Chunks) >= n
  BY <1>1, ChunkAssumption DEF Max
<1> QED
  BY <1>2, ChunkAssumption

LEMMA BufStep == TInv /\ BufBounded /\ [Next]_vars => BufBounded'
<1> SUFFICES ASSUME TInv, BufBounded, [Next]_vars PROVE BufBounded'
  OBVIOUS
<1> USE DEF TInv
<1>0. "up" \in Dirs /\ "down" \in Dirs
  BY DEF Dirs
<1>1. ASSUME NEW c \in Conns, Reject(c) PROVE BufBounded'
  BY <1>0, <1>1, MaxChunk DEF Reject, BufBounded, TypeOK
<1>2. ASSUME NEW c \in Conns, NEW to \in {"authed", "gated"},
             pc[c] \in {"header", "authed"}, Advance(c, to)
      PROVE  BufBounded'
  BY <1>2 DEF Advance, BufBounded, TypeOK
<1>3. ASSUME NEW c \in Conns, NEW u \in Uuids, NEW n \in Chunks, ReadHeader(c, u, n)
      PROVE  BufBounded'
  BY <1>0, <1>3, MaxChunk DEF ReadHeader, BufBounded, TypeOK
<1>4. ASSUME NEW c \in Conns, NEW d \in Dirs, NEW n \in Chunks, Transfer(c, d, n)
      PROVE  BufBounded'
  BY <1>4, MaxChunk DEF Transfer, BufBounded, TypeOK
<1>5. ASSUME NEW c \in Conns, NEW d \in Dirs, Count(c, d) PROVE BufBounded'
  <2>1. buf' = [buf EXCEPT ![c][d] = 0]
    BY <1>5 DEF Count
  <2>2. /\ pc[c] \notin {"new", "header", "authed", "gated"}
        /\ pc'[c] \notin {"new", "header", "authed", "gated"}
        /\ \A x \in Conns \ {c} : pc'[x] = pc[x]
    BY <1>5 DEF Count, TypeOK
  <2> QED
    BY <2>1, <2>2, MaxChunk DEF BufBounded, TypeOK
<1>6. ASSUME NEW c \in Conns, Register(c) \/ Finish(c) \/ CloseConn(c) PROVE BufBounded'
  BY <1>6 DEF Register, Finish, CloseConn, BufBounded, TypeOK
<1>7. CASE UNCHANGED <<pc, buf>>
  BY <1>7 DEF BufBounded
<1> QED
  BY <1>1, <1>2, <1>3, <1>4, <1>5, <1>6, <1>7, NextCases
  DEF HandshakeFails, LookupUser, QuotaGate, UpdateUsers, ApplyUsage,
      GetAndResetTraffic, vars, connVars

LEMMA CutReachesStep == IInv /\ CutReaches /\ [Next]_vars => CutReaches'
<1> SUFFICES ASSUME IInv, CutReaches, [Next]_vars PROVE CutReaches'
  OBVIOUS
<1> USE DEF IInv, TInv
<1>1. CASE UNCHANGED vars
  BY <1>1 DEF CutReaches, vars, serverVars, connVars, history
<1>2. ASSUME NEW c \in Conns, QuietStep(c) PROVE CutReaches'
  <2>1. UNCHANGED <<userQuota, missedCut>>
    BY <1>2, QuietSteps
  <2>2. \A x \in Conns : pc'[x] \in {"added", "relay", "unreg"} /\ open'[x]
            => pc[x] = pc'[x] /\ open[x] /\ who'[x] = who[x]
    BY <1>2 DEF QuietStep, HandshakeFails, LookupUser, QuotaGate, CloseConn,
                ReadHeader, Transfer, Advance, Reject, TypeOK
  <2> QED
    BY <2>1, <2>2 DEF CutReaches
<1>3. ASSUME NEW c \in Conns, Register(c) PROVE CutReaches'
  BY <1>3 DEF Register, OverQuota, CutReaches, TypeOK
<1>4. ASSUME NEW c \in Conns, Finish(c) PROVE CutReaches'
  BY <1>4 DEF Finish, CutReaches, TypeOK, history
<1>5. ASSUME NEW c \in Conns, NEW d \in Dirs, Count(c, d) PROVE CutReaches'
  <2> SUFFICES ASSUME NEW x \in Conns,
                      pc'[x] \in {"added", "relay", "unreg"}, open'[x],
                      who'[x] \in DOMAIN userQuota', userQuota'[who'[x]].cut,
                      userQuota'[who'[x]].quota > userQuota'[who'[x]].base,
                      x \notin missedCut'
               PROVE  FALSE
    BY DEF CutReaches
  <2> DEFINE u == who[x]
  <2>1. who'[x] = u /\ open[x] /\ pc[x] \in {"added", "relay", "unreg"}
    BY <1>5, CountFacts DEF Count, TypeOK
  <2>2. accrueQuota(who[c], buf[c][d])
    BY <1>5 DEF Count, addTraffic
  <2>3. missedCut \subseteq missedCut'
    BY <2>2 DEF accrueQuota
  <2>4. u \in Uuids
    BY <2>1 DEF HeaderKnown
  <2>5. /\ u \in DOMAIN userQuota
        /\ userQuota'[u].quota = userQuota[u].quota
        /\ userQuota'[u].base = userQuota[u].base
    <3> DEFINE q == Accrued(userQuota[who[c]], buf[c][d])
    <3>0. q.quota = userQuota[who[c]].quota /\ q.base = userQuota[who[c]].base
      BY DEF Accrued
    <3>1. \/ userQuota' = userQuota
          \/ userQuota' = [userQuota EXCEPT ![who[c]] = q]
      BY <2>2 DEF accrueQuota
    <3> HIDE DEF q
    <3>2. u \in DOMAIN userQuota
      BY <2>1, <3>1
    <3>3. CASE userQuota' = userQuota
      BY <3>2, <3>3
    <3>4. CASE userQuota' = [userQuota EXCEPT ![who[c]] = q]
      BY <3>0, <3>2, <3>4
    <3> QED
      BY <3>1, <3>3, <3>4
  <2>6. ~userQuota[u].cut
    BY <2>1, <2>3, <2>5 DEF CutReaches
  <2>7. u = who[c] /\ \A y \in userConns[u] : ~open'[y]
    BY <1>5, <2>1, <2>4, <2>5, <2>6, CountCuts DEF OverQuota
  <2>8. CASE pc[x] = "unreg"
    <3>1. missedCut' = missedCut \cup Unregistering(u)
      BY <2>1, <2>2, <2>6, <2>7, <2>5 DEF accrueQuota, TypeOK, IsMap
    <3> QED
      BY <2>1, <2>8, <3>1 DEF Unregistering
  <2>9. CASE pc[x] \in {"added", "relay"}
    BY <2>1, <2>7, <2>9 DEF IndexExact, Registered
  <2> QED
    BY <2>1, <2>8, <2>9
<1>6. CASE \E new \in UserLists : UpdateUsers(new)
  BY <1>6 DEF UpdateUsers, Closing, CutReaches, TypeOK, IsMap, history
<1>7. CASE \E usage \in UsageLists, p \in EmailUuids : ApplyUsage(usage, p)
  <2> PICK usage \in UsageLists, p \in EmailUuids : ApplyUsage(usage, p)
    BY <1>7
  <2>1. \A u \in DOMAIN userQuota' :
            /\ users[u] \in DOMAIN usage
            /\ userQuota'[u] = Snapshot(usage[users[u]])
    BY DEF ApplyUsage
  <2>2. \A e \in DOMAIN usage : usage[e] \in [quota : Int, used : Nat]
    BY ListAssumption DEF IsMap
  <2>3. ASSUME NEW r \in [quota : Int, used : Nat], Snapshot(r).cut
        PROVE  ~(Snapshot(r).quota > Snapshot(r).base)
    <3>1. Snapshot(r).cut <=> r.quota >= 0 /\ r.quota - r.used <= 0
      BY Zenon DEF Snapshot
    <3>2. Snapshot(r).quota = r.quota /\ Snapshot(r).base = r.used
      BY DEF Snapshot
    <3> QED
      BY <2>3, <3>1, <3>2
  <2> QED
    BY <2>1, <2>2, <2>3 DEF CutReaches
<1>8. CASE GetAndResetTraffic
  BY <1>8 DEF GetAndResetTraffic, CutReaches, connVars
<1> QED
  BY <1>1, <1>2, <1>3, <1>4, <1>5, <1>6, <1>7, <1>8, StepKinds

(* What is needed to add up loads, in a state and in the next. *)
LEMMA LoadFacts ==
    ASSUME TypeOK, NEW u
    PROVE  /\ IsFiniteSet(Counting(u)) /\ Cardinality(Counting(u)) \in Nat
           /\ AllNat(Load, Counting(u)) /\ InFlight(u) \in Nat
<1>1. IsFiniteSet(Counting(u))
  BY ChunkAssumption, FS_Subset DEF Counting
<1>2. AllNat(Load, Counting(u))
  BY DEF AllNat, Load, Counting, TypeOK, Dirs
<1> QED
  BY <1>1, <1>2, SumNat, FS_CardinalityType DEF InFlight

(* A user who is not cut is within the bound, whatever is in flight. *)
UncutInBound ==
    \A u \in DOMAIN userQuota :
        ~userQuota[u].cut /\ userQuota[u].quota > userQuota[u].base
            => userQuota[u].accrual + InFlight(u)
                 < userQuota[u].quota - userQuota[u].base
                     + 2 * Cardinality(Counting(u)) * Max(Chunks)

LEMMA UncutBounded == TInv /\ BufBounded /\ CutIffExhausted => UncutInBound
<1> SUFFICES ASSUME TInv, BufBounded, CutIffExhausted,
                    NEW u \in DOMAIN userQuota, ~userQuota[u].cut,
                    userQuota[u].quota > userQuota[u].base
             PROVE  userQuota[u].accrual + InFlight(u)
                      < userQuota[u].quota - userQuota[u].base
                          + 2 * Cardinality(Counting(u)) * Max(Chunks)
  BY DEF UncutInBound
<1> DEFINE m == Max(Chunks)
           k == Cardinality(Counting(u))
           q == userQuota[u]
<1>1. q.quota \in Int /\ q.base \in Nat /\ q.accrual \in Nat
  BY DEF TInv, TypeOK, IsMap, QuotaState
<1>2. q.accrual < q.quota - q.base
  BY <1>1 DEF CutIffExhausted
<1>3. \A c \in Counting(u) : Load[c] <= 2 * m
  BY MaxChunk DEF Counting, Load, BufBounded, Dirs, TInv, TypeOK
<1>4. m \in Nat /\ k \in Nat /\ InFlight(u) \in Nat
  BY MaxChunk, LoadFacts DEF TInv
<1>5. InFlight(u) <= k * (2 * m)
  <2>1. 2 * m \in Nat
    BY <1>4
  <2> HIDE DEF m
  <2> QED
    BY <1>3, <2>1, LoadFacts, SumBound DEF InFlight, TInv
<1>6. k * (2 * m) = 2 * k * m
  BY <1>4
<1>7. 2 * k * m \in Nat
  BY <1>4
<1> HIDE DEF k, m, q
<1>8. q.accrual + InFlight(u) < q.quota - q.base + 2 * k * m
  BY <1>1, <1>2, <1>4, <1>5, <1>6, <1>7
<1> QED
  BY <1>8 DEF k, m, q

(* More connections and the same loads: the bound only grows. *)
LEMMA FlightKept ==
    ASSUME TypeOK, TypeOK', NEW u, Counting(u) \subseteq Counting(u)',
           \A c \in Counting(u) : Load'[c] = Load[c],
           \A c \in Counting(u)' \ Counting(u) : Load'[c] = 0
    PROVE  /\ InFlight(u)' = InFlight(u)
           /\ Cardinality(Counting(u)) <= Cardinality(Counting(u)')
           /\ Cardinality(Counting(u)) \in Nat /\ Cardinality(Counting(u)') \in Nat
<1> DEFINE S == Counting(u)'
           T == Counting(u)
           f == Load'
<1>1. /\ IsFiniteSet(T) /\ Cardinality(T) \in Nat /\ AllNat(Load, T)
  BY LoadFacts
<1>2. /\ IsFiniteSet(S) /\ Cardinality(S) \in Nat /\ AllNat(f, S)
  <2>1. IsFiniteSet(S)
    BY ChunkAssumption, FS_Subset DEF Counting
  <2>2. AllNat(f, S)
    BY DEF AllNat, Load, Counting, TypeOK, Dirs
  <2> QED
    BY <2>1, <2>2, FS_CardinalityType
<1>3. InFlight(u) = SumFunctionOnSet(Load, T) /\ InFlight(u)' = SumFunctionOnSet(f, S)
  BY DEF InFlight
<1>4. T \subseteq S /\ (\A c \in T : f[c] = Load[c]) /\ (\A c \in S \ T : f[c] = 0)
  OBVIOUS
<1> HIDE DEF S, T, f
<1>5. SumFunctionOnSet(f, S) = SumFunctionOnSet(f, T)
  BY <1>2, <1>4, SumNonzero
<1>6. SumFunctionOnSet(f, T) = SumFunctionOnSet(Load, T)
  BY <1>1, <1>4, SumEqual
<1>7. Cardinality(T) <= Cardinality(S)
  BY <1>2, <1>4, FS_Subset
<1> QED
  BY <1>1, <1>2, <1>3, <1>5, <1>6, <1>7 DEF S, T

(* Counting a chunk moves it from the load of one connection to the       *)
(* accrual of its user; Counting(u) stays the same for every user.        *)
LEMMA CountMoves ==
    ASSUME TInv, TypeOK', NEW c \in Conns, NEW d \in Dirs, Count(c, d), NEW u
    PROVE  /\ Counting(u)' = Counting(u) /\ InFlight(u)' \in Nat
           /\ u = who[c] => InFlight(u)' + buf[c][d] = InFlight(u)
           /\ u # who[c] => InFlight(u)' = InFlight(u)
<1> DEFINE S == Counting(u)
           f == Load
           g == Load'
           n == buf[c][d]
<1>1. Counting(u)' = S
  BY DEF Count, Counting, TInv, TypeOK
<1>2. IsFiniteSet(S) /\ AllNat(f, S) /\ InFlight(u) \in Nat
  BY LoadFacts DEF TInv
<1>3. InFlight(u)' = SumFunctionOnSet(g, S) /\ InFlight(u) = SumFunctionOnSet(f, S)
  BY <1>1 DEF InFlight
<1>4. n \in Nat /\ buf' = [buf EXCEPT ![c][d] = 0]
  BY DEF Count, TInv, TypeOK
<1>5. \A x \in Conns \ {c} : g[x] = f[x]
  BY <1>4 DEF Load, TInv, TypeOK
<1>6. g[c] + n = f[c] /\ f[c] \in Nat /\ g[c] \in Nat
  <2>1. d \in {"up", "down"} /\ buf[c]["up"] \in Nat /\ buf[c]["down"] \in Nat
    BY DEF Dirs, TInv, TypeOK
  <2>2. f[c] = buf[c]["up"] + buf[c]["down"] /\ g[c] = buf'[c]["up"] + buf'[c]["down"]
    BY DEF Load
  <2>3. CASE d = "up"
    BY <1>4, <2>1, <2>2, <2>3 DEF TInv, TypeOK, Dirs
  <2>4. CASE d = "down"
    BY <1>4, <2>1, <2>2, <2>4 DEF TInv, TypeOK, Dirs
  <2> QED
    BY <2>1, <2>3, <2>4
<1>7. S \subseteq Conns /\ (u = who[c] <=> c \in S)
  BY DEF Counting, Count
<1> HIDE DEF S, f, g, n
<1>8. CASE u = who[c]
  <2>1. SumFunctionOnSet(g, S) + f[c] = SumFunctionOnSet(f, S) + g[c]
    BY <1>2, <1>5, <1>6, <1>7, <1>8, SumUpdate
  <2>2. AllNat(g, S)
    BY <1>2, <1>5, <1>6, <1>7 DEF AllNat
  <2>3. SumFunctionOnSet(g, S) \in Nat /\ SumFunctionOnSet(f, S) \in Nat
    BY <1>2, <2>2, SumNat
  <2> QED
    BY <1>1, <1>3, <1>4, <1>6, <1>8, <2>1, <2>3 DEF S, n
<1>9. CASE u # who[c]
  BY <1>1, <1>2, <1>3, <1>5, <1>7, <1>9, SumEqual DEF S
<1> QED
  BY <1>8, <1>9

(* Steps other than Count, ApplyUsage and UpdateUsers leave the quota      *)
(* states alone; for a user who stays locally cut, they bring no new bytes *)
(* into flight.                                                            *)
LEMMA CutStopsBytes ==
    ASSUME TInv, TypeOK', BufBounded, CutReaches, NEW u \in DOMAIN userQuota,
           userQuota[u].cut, userQuota[u].quota > userQuota[u].base,
           NEW c \in Conns, QuietStep(c) \/ Register(c) \/ Finish(c),
           Counting(u)' \cap missedCut' = {}
    PROVE  /\ Counting(u) \subseteq Counting(u)'
           /\ \A x \in Counting(u) : Load'[x] = Load[x]
           /\ \A x \in Counting(u)' \ Counting(u) : Load'[x] = 0
           /\ missedCut \subseteq missedCut' /\ userQuota' = userQuota
<1> USE DEF TInv
<1>0. u \in Uuids
  BY DEF TypeOK, IsMap
<1>1. missedCut \subseteq missedCut' /\ userQuota' = userQuota
  BY QuietSteps DEF Register, Finish, history
<1> SUFFICES /\ Counting(u) \subseteq Counting(u)'
             /\ \A x \in Counting(u) : Load'[x] = Load[x]
             /\ \A x \in Counting(u)' \ Counting(u) : Load'[x] = 0
  BY <1>1
<1>2. ASSUME Reject(c), pc[c] \in {"new", "header", "authed"}
      PROVE  /\ Counting(u) \subseteq Counting(u)'
             /\ \A x \in Counting(u) : Load'[x] = Load[x]
             /\ \A x \in Counting(u)' \ Counting(u) : Load'[x] = 0
  <2>1. \A x \in Conns \ {c} : Load'[x] = Load[x] /\ pc'[x] = pc[x] /\ who'[x] = who[x]
    BY <1>2 DEF Reject, Load, TypeOK
  <2>2. buf'[c]["up"] = 0 /\ buf'[c]["down"] = 0
    BY <1>2 DEF Reject, BufBounded, TypeOK, Dirs
  <2>3. Load'[c] = 0
    BY <2>2 DEF Load
  <2>4. c \notin Counting(u)
    BY <1>2 DEF Counting
  <2> QED
    BY <2>1, <2>3, <2>4 DEF Counting
<1>3. ASSUME NEW to \in {"authed", "gated"}, Advance(c, to), pc[c] \in {"header", "authed"}
      PROVE  /\ Counting(u)' = Counting(u) /\ Load' = Load
  BY <1>3 DEF Advance, Counting, Load, TypeOK
<1>4. ASSUME NEW v \in Uuids, NEW n \in Chunks, ReadHeader(c, v, n)
      PROVE  /\ Counting(u)' = Counting(u)
             /\ \A x \in Counting(u) : Load'[x] = Load[x]
  BY <1>4 DEF ReadHeader, Counting, Load, TypeOK
<1>5. ASSUME NEW d \in Dirs, NEW n \in Chunks, Transfer(c, d, n)
      PROVE  /\ Counting(u)' = Counting(u)
             /\ \A x \in Counting(u) : Load'[x] = Load[x]
  <2>1. Counting(u)' = Counting(u)
    BY <1>5 DEF Transfer, Counting
  <2>2. who[c] # u
    <3>1. ASSUME who[c] = u PROVE c \in missedCut /\ c \in Counting(u)
      BY <1>5, <3>1 DEF Transfer, CutReaches, Counting
    <3> QED
      BY <1>1, <2>1, <3>1
  <2>3. \A x \in Conns \ {c} : Load'[x] = Load[x]
    BY <1>5 DEF Transfer, Load, TypeOK
  <2> QED
    BY <2>1, <2>2, <2>3 DEF Counting
<1>6. ASSUME Register(c)
      PROVE  Counting(u)' = Counting(u) /\ Load' = Load
  <2>1. who[c] # u
    <3>1. ASSUME who[c] = u PROVE c \in missedCut' /\ c \in Counting(u)'
      BY <1>6, <3>1 DEF Register, OverQuota, Counting, TypeOK
    <3> QED
      BY <3>1
  <2> QED
    BY <1>6, <2>1 DEF Register, Counting, Load, TypeOK
<1>7. ASSUME Finish(c) \/ CloseConn(c)
      PROVE  Counting(u)' = Counting(u) /\ Load' = Load
  BY <1>7 DEF Finish, CloseConn, Counting, Load, TypeOK
<1> QED
  BY <1>2, <1>3, <1>4, <1>5, <1>6, <1>7
  DEF QuietStep, HandshakeFails, LookupUser, QuotaGate

LEMMA OvershootStep == OInv /\ [Next]_vars => OvershootBounded'
<1> SUFFICES ASSUME OInv, [Next]_vars, NEW u \in DOMAIN userQuota',
                    userQuota'[u].quota > userQuota'[u].base,
                    Counting(u)' \cap missedCut' = {}
             PROVE  userQuota'[u].accrual + InFlight(u)'
                      < userQuota'[u].quota - userQuota'[u].base
                          + 2 * Cardinality(Counting(u)') * Max(Chunks)
  BY DEF OvershootBounded
<1>0. IInv' /\ BufBounded' /\ TInv' /\ TypeOK' /\ TInv /\ TypeOK
  BY StepIInv, BufStep DEF OInv, IInv, TInv
<1>1. CASE ~userQuota'[u].cut
  <2>1. (TInv /\ BufBounded /\ CutIffExhausted => UncutInBound)'
    BY UncutBounded, PTL
  <2> QED
    BY <1>0, <1>1, <2>1 DEF IInv, UncutInBound
<1>2. CASE userQuota'[u].cut
  <2>1. ASSUME u \in DOMAIN userQuota, userQuota'[u].quota = userQuota[u].quota,
               userQuota'[u].base = userQuota[u].base,
               Counting(u) \subseteq Counting(u)', missedCut \subseteq missedCut',
               Cardinality(Counting(u)) <= Cardinality(Counting(u)'),
               userQuota'[u].accrual + InFlight(u)' = userQuota[u].accrual + InFlight(u)
        PROVE  userQuota'[u].accrual + InFlight(u)'
                 < userQuota'[u].quota - userQuota'[u].base
                     + 2 * Cardinality(Counting(u)') * Max(Chunks)
    <3> DEFINE k == Cardinality(Counting(u))
               l == Cardinality(Counting(u)')
               m == Max(Chunks)
               a == userQuota[u].accrual + InFlight(u)
               h == userQuota[u].quota - userQuota[u].base
    <3>1. Counting(u) \cap missedCut = {}
      BY <2>1
    <3>2. a < h + 2 * k * m
      BY <2>1, <3>1 DEF OInv, OvershootBounded
    <3>3. userQuota[u].accrual \in Nat /\ userQuota[u].quota \in Int /\ userQuota[u].base \in Nat
      BY <1>0, <2>1 DEF TypeOK, IsMap, QuotaState
    <3>4. InFlight(u) \in Nat /\ k \in Nat
      BY <1>0, LoadFacts
    <3>5. l \in Nat /\ m \in Nat
      <4>1. IsFiniteSet(Counting(u)')
        BY ChunkAssumption, FS_Subset DEF Counting
      <4> QED
        BY <4>1, FS_CardinalityType, MaxChunk
    <3>6. a \in Nat /\ h \in Int
      BY <3>3, <3>4
    <3>7. k * m <= l * m
      <4>1. l - k \in Nat /\ l = k + (l - k)
        BY <2>1, <3>4, <3>5
      <4>2. (l - k) * m \in Nat /\ l * m = k * m + (l - k) * m
        BY <3>4, <3>5, <4>1
      <4> QED
        BY <3>4, <3>5, <4>2
    <3>8. k * m \in Nat /\ l * m \in Nat
      BY <3>4, <3>5
    <3>9. 2 * k * m = 2 * (k * m) /\ 2 * l * m = 2 * (l * m)
      BY <3>4, <3>5
    <3> HIDE DEF a, h, k, l, m
    <3>10. a < h + 2 * l * m
      BY <3>2, <3>6, <3>7, <3>8, <3>9
    <3> QED
      BY <2>1, <3>10 DEF a, h, l, m
  <2>2. CASE UNCHANGED vars
    BY <2>2, <2>1, <1>0, FlightKept
    DEF vars, serverVars, connVars, history, Counting, Load
  <2>3. ASSUME NEW c \in Conns, QuietStep(c) \/ Register(c) \/ Finish(c)
        PROVE  userQuota'[u].accrual + InFlight(u)'
                 < userQuota'[u].quota - userQuota'[u].base
                     + 2 * Cardinality(Counting(u)') * Max(Chunks)
    <3>1. userQuota' = userQuota
      BY <1>0, <2>3, QuietSteps DEF Register, Finish
    <3>2. /\ Counting(u) \subseteq Counting(u)' /\ missedCut \subseteq missedCut'
          /\ \A x \in Counting(u) : Load'[x] = Load[x]
          /\ \A x \in Counting(u)' \ Counting(u) : Load'[x] = 0
      BY <1>0, <1>2, <2>3, <3>1, CutStopsBytes DEF OInv
    <3> QED
      BY <1>0, <2>1, <3>1, <3>2, FlightKept
  <2>4. ASSUME NEW c \in Conns, NEW d \in Dirs, Count(c, d)
        PROVE  userQuota'[u].accrual + InFlight(u)'
                 < userQuota'[u].quota - userQuota'[u].base
                     + 2 * Cardinality(Counting(u)') * Max(Chunks)
    <3>1. accrueQuota(who[c], buf[c][d]) /\ buf[c][d] \in Nat
      BY <1>0, <2>4 DEF Count, addTraffic, TypeOK
    <3>2. missedCut \subseteq missedCut' /\ u \in DOMAIN userQuota
      BY <3>1, <1>0 DEF accrueQuota, TypeOK, IsMap
    <3>3. userQuota[u].quota \in Int /\ userQuota[u].base \in Nat /\ userQuota[u].accrual \in Nat
      BY <1>0, <3>2 DEF TypeOK, IsMap, QuotaState
    <3>4. /\ userQuota'[u].quota = userQuota[u].quota
          /\ userQuota'[u].base = userQuota[u].base
      <4>1. \/ userQuota' = userQuota
            \/ userQuota' = [userQuota EXCEPT
                                ![who[c]] = Accrued(userQuota[who[c]], buf[c][d])]
        BY <3>1 DEF accrueQuota
      <4>2. CASE u = who[c]
        BY <3>2, <4>1, <4>2 DEF Accrued
      <4>3. CASE u # who[c]
        BY <3>2, <4>1, <4>3
      <4> QED
        BY <4>2, <4>3
    <3>5. userQuota[u].quota >= 0
      BY <3>3, <3>4
    <3>6. userQuota'[u].accrual = userQuota[u].accrual
                                    + IF u = who[c] THEN buf[c][d] ELSE 0
      BY <3>1, <3>2, <3>3, <3>5, <1>0 DEF accrueQuota, Accrued, TypeOK, IsMap
    <3>7. /\ Counting(u)' = Counting(u) /\ InFlight(u)' \in Nat
          /\ u = who[c] => InFlight(u)' + buf[c][d] = InFlight(u)
          /\ u # who[c] => InFlight(u)' = InFlight(u)
      BY <1>0, <2>4, CountMoves
    <3>8. InFlight(u) \in Nat /\ Cardinality(Counting(u)) \in Nat
      BY <1>0, LoadFacts
    <3>9. userQuota'[u].accrual + InFlight(u)' = userQuota[u].accrual + InFlight(u)
      BY <3>1, <3>3, <3>6, <3>7, <3>8
    <3> QED
      BY <2>1, <3>2, <3>4, <3>7, <3>8, <3>9
  <2>5. ASSUME NEW new \in UserLists, UpdateUsers(new)
        PROVE  userQuota'[u].accrual + InFlight(u)'
                 < userQuota'[u].quota - userQuota'[u].base
                     + 2 * Cardinality(Counting(u)') * Max(Chunks)
    <3>1. u \in DOMAIN userQuota /\ userQuota'[u] = userQuota[u] /\ missedCut' = missedCut
      BY <2>5 DEF UpdateUsers, history
    <3>2. Counting(u)' = Counting(u) /\ Load' = Load
      BY <2>5 DEF UpdateUsers, Counting, Load
    <3> QED
      BY <1>0, <2>1, <3>1, <3>2, FlightKept
  <2>6. CASE \E usage \in UsageLists, p \in EmailUuids : ApplyUsage(usage, p)
    <3> PICK usage \in UsageLists, p \in EmailUuids : ApplyUsage(usage, p)
      BY <2>6
    <3>1. users[u] \in DOMAIN usage /\ userQuota'[u] = Snapshot(usage[users[u]])
      BY DEF ApplyUsage
    <3>2. usage[users[u]] \in [quota : Int, used : Nat]
      BY <3>1, ListAssumption DEF IsMap
    <3>3. userQuota'[u].accrual = 0
      BY <3>1 DEF Snapshot
    <3>4. userQuota'[u].quota \in Int /\ userQuota'[u].base \in Nat
      BY <3>1, <3>2 DEF Snapshot
    <3>5. userQuota'[u].quota - userQuota'[u].base - userQuota'[u].accrual <= 0
      BY <1>0, <1>2 DEF IInv, CutIffExhausted
    <3> QED
      BY <3>3, <3>4, <3>5
  <2>7. CASE GetAndResetTraffic
    <3>1. userQuota' = userQuota /\ missedCut' = missedCut
      BY <2>7 DEF GetAndResetTraffic
    <3>2. Counting(u)' = Counting(u) /\ Load' = Load
      BY <2>7 DEF GetAndResetTraffic, Counting, Load, connVars
    <3> QED
      BY <1>0, <2>1, <3>1, <3>2, FlightKept
  <2> QED
    BY <2>2, <2>3, <2>4, <2>5, <2>6, <2>7, StepKinds
<1> QED
  BY <1>1, <1>2

LEMMA OInvInit == Init => OInv
<1> SUFFICES ASSUME Init PROVE OInv
  OBVIOUS
<1>1. IInv
  BY InitIInv
<1>2. CutReaches /\ OvershootBounded
  BY DEF Init, CutReaches, OvershootBounded, Empty
<1>3. BufBounded
  BY MaxChunk DEF Init, BufBounded, Dirs
<1> QED
  BY <1>1, <1>2, <1>3 DEF OInv

(* However many connections a user has and whatever the chunk sizes, a     *)
(* local cut stops the user within one chunk per direction and connection  *)
(* of the cap, unless a connection slipped past it.                        *)
THEOREM CutWithinBytesInFlight == Spec => []OvershootBounded
<1>1. OInv /\ [Next]_vars => OInv'
  BY StepIInv, BufStep, CutReachesStep, OvershootStep DEF OInv, IInv
<1>2. OInv => OvershootBounded
  BY DEF OInv
<1> QED
  BY <1>1, <1>2, OInvInit, PTL DEF Spec
=============================================================================
