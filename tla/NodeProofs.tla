----------------------------- MODULE NodeProofs -----------------------------
(***************************************************************************)
(* Proofs, for every set of users, entry points and connections, every     *)
(* retry count and every number of faults, that the path of a byte from    *)
(* addTraffic to the manager's books keeps its invariants.  What a step of *)
(* the server does is taken from VlessServerProofs, instantiated with      *)
(* every list the manager could serve.                                     *)
(***************************************************************************)
EXTENDS Node, SumTheorems, TLAPS

AllUserMaps  == UNION {[D -> Emails] : D \in SUBSET Uuids}
AllUsageMaps == UNION {[D -> [quota : Int, used : Nat]] : D \in SUBSET Emails}

SP == INSTANCE VlessServerProofs WITH
    UserLists <- AllUserMaps, UsageLists <- AllUsageMaps

ServerInv == SP!TInv

(* The steps of module Node that move the server are its own steps. *)
ServerStep ==
    \/ \E c \in Conns : S!ClientStep(c) \/ S!HandlerStep(c)
    \/ \E new \in AllUserMaps : S!UpdateUsers(new)
    \/ \E usage \in AllUsageMaps, p \in S!EmailUuids : S!ApplyUsage(usage, p)
    \/ S!GetAndResetTraffic

(* The assumptions of VlessServer hold for this instance. *)
LEMMA ListsAreMaps ==
    /\ \A l \in AllUserMaps : SP!IsMap(l, Uuids, Emails)
    /\ \A l \in AllUsageMaps : SP!IsMap(l, Emails, [quota : Int, used : Nat])
BY DEF AllUserMaps, AllUsageMaps, SP!IsMap

LEMMA FiniteSetsOfServer == SP!IsFiniteSet(Chunks) /\ SP!IsFiniteSet(Conns)
BY SetsAssumption DEF IsFiniteSet, SP!IsFiniteSet

(* The two instances of VlessServer, S and the one inside SP, are the same  *)
(* server.                                                                  *)
LEMMA ServerTypes == ServerInv => S!TypeOK
BY DEF ServerInv, SP!TInv, SP!TypeOK, S!TypeOK, SP!IsMap, S!IsMap, SP!Keys, S!Keys,
   SP!TrafficStat, S!TrafficStat, SP!QuotaState, S!QuotaState, SP!Pcs, S!Pcs,
   SP!Dirs, S!Dirs

LEMMA ServerTypeInit == S!Init => ServerInv
<1>1. S!Init => SP!Init
  BY DEF S!Init, SP!Init, S!Empty, SP!Empty, S!Dirs, SP!Dirs, S!Keys, SP!Keys
<1>2. SP!Init => SP!TInv
  BY SetsAssumption, ListsAreMaps, FiniteSetsOfServer, SP!TypeInit
<1> QED
  BY <1>1, <1>2 DEF ServerInv

LEMMA SameClientStep ==
    ASSUME NEW c \in Conns
    PROVE  S!ClientStep(c) <=> SP!ClientStep(c)
BY DEF S!ClientStep, SP!ClientStep, S!HandshakeFails, SP!HandshakeFails,
       S!Reject, SP!Reject, S!ReadHeader, SP!ReadHeader, S!Transfer, SP!Transfer,
       S!Dirs, SP!Dirs, S!serverVars, SP!serverVars, S!history, SP!history

LEMMA SameCount ==
    ASSUME NEW c \in Conns, NEW d
    PROVE  S!Count(c, d) <=> SP!Count(c, d)
BY DEF S!Count, SP!Count, S!addTraffic, SP!addTraffic, S!addStat, SP!addStat,
       S!StatAfterAdd, SP!StatAfterAdd, S!EmailOf, SP!EmailOf, S!accrueQuota,
       SP!accrueQuota, S!Accrued, SP!Accrued, S!Exhausted, SP!Exhausted,
       S!CutCloses, SP!CutCloses, S!Closing, SP!Closing, S!Unregistering,
       SP!Unregistering

LEMMA SameHandlerStep ==
    ASSUME NEW c \in Conns
    PROVE  S!HandlerStep(c) <=> SP!HandlerStep(c)
<1>1. S!LookupUser(c) <=> SP!LookupUser(c)
  BY DEF S!LookupUser, SP!LookupUser, S!Reject, SP!Reject, S!Advance, SP!Advance,
     S!serverVars, SP!serverVars, S!history, SP!history
<1>2. S!QuotaGate(c) <=> SP!QuotaGate(c)
  BY DEF S!QuotaGate, SP!QuotaGate, S!Reject, SP!Reject, S!Advance, SP!Advance,
     S!serverVars, SP!serverVars, S!history, SP!history, S!OverQuota, SP!OverQuota
<1>3. S!Register(c) <=> SP!Register(c)
  BY DEF S!Register, SP!Register, S!addConn, SP!addConn, S!OverQuota, SP!OverQuota
<1>4. S!Finish(c) <=> SP!Finish(c)
  BY DEF S!Finish, SP!Finish, S!removeConn, SP!removeConn, S!history, SP!history
<1>5. S!CloseConn(c) <=> SP!CloseConn(c)
  BY DEF S!CloseConn, SP!CloseConn, S!serverVars, SP!serverVars, S!history, SP!history
<1> QED
  BY <1>1, <1>2, <1>3, <1>4, <1>5, SameCount DEF S!HandlerStep, SP!HandlerStep,
     S!Dirs, SP!Dirs

LEMMA SameDrain == S!GetAndResetTraffic <=> SP!GetAndResetTraffic
BY DEF S!GetAndResetTraffic, SP!GetAndResetTraffic, S!Drained, SP!Drained,
       S!EmailAtDrain, SP!EmailAtDrain, S!EmailOf, SP!EmailOf, S!StatAfterDrain,
       SP!StatAfterDrain, S!Keys, SP!Keys, S!connVars, SP!connVars

LEMMA SameUpdateUsers ==
    ASSUME NEW new PROVE S!UpdateUsers(new) <=> SP!UpdateUsers(new)
BY DEF S!UpdateUsers, SP!UpdateUsers, S!Closing, SP!Closing, S!RevokedConns,
       SP!RevokedConns, S!history, SP!history

LEMMA SameApplyUsage ==
    ASSUME NEW usage, NEW p PROVE S!ApplyUsage(usage, p) <=> SP!ApplyUsage(usage, p)
BY DEF S!ApplyUsage, SP!ApplyUsage, S!Snapshot, SP!Snapshot, S!connVars, SP!connVars

LEMMA ServerStepIs == ServerStep <=> SP!Next
BY SameClientStep, SameHandlerStep, SameDrain, SameUpdateUsers, SameApplyUsage
DEF ServerStep, SP!Next, SP!ControlStep, S!EmailUuids, SP!EmailUuids

LEMMA ServerTypeStep ==
    ServerInv /\ (ServerStep \/ UNCHANGED server) => ServerInv'
<1>1. SP!TInv /\ [SP!Next]_(SP!vars) => SP!TInv'
  BY SetsAssumption, ListsAreMaps, FiniteSetsOfServer, SP!TypeStep
<1>2. UNCHANGED server => UNCHANGED SP!vars
  BY DEF server, SP!vars, SP!serverVars, SP!connVars, SP!history
<1> QED
  BY <1>1, <1>2, ServerStepIs DEF ServerInv

-----------------------------------------------------------------------------
(* Types *)

NInv == TypeOK /\ ServerInv

LEMMA FiniteKeys ==
    /\ IsFiniteSet(S!Keys) /\ IsFiniteSet(PendingKeys)
    /\ \A u \in Uuids : {u} \X Nodes \in SUBSET S!Keys /\ IsFiniteSet({u} \X Nodes)
    /\ \A e \in Emails : {e} \X Nodes \in SUBSET PendingKeys /\ IsFiniteSet({e} \X Nodes)
<1>1. IsFiniteSet(Uuids \X Nodes) /\ IsFiniteSet(Emails \X Nodes)
  BY SetsAssumption, FS_Product
<1>2. /\ \A u \in Uuids : {u} \X Nodes \in SUBSET (Uuids \X Nodes)
      /\ \A e \in Emails : {e} \X Nodes \in SUBSET (Emails \X Nodes)
  OBVIOUS
<1> QED
  BY <1>1, <1>2, FS_Subset DEF S!Keys, PendingKeys

HeldBytes == [k \in S!Keys |-> S!Held(k)]

LEMMA HeldNat == S!TypeOK => /\ \A k \in S!Keys : S!Held(k) \in Nat
                             /\ \A k \in S!Keys : HeldBytes[k] = S!Held(k)
                             /\ \A T \in SUBSET S!Keys : AllNat(HeldBytes, T)
BY DEF S!TypeOK, S!Held, S!IsMap, S!TrafficStat, HeldBytes, AllNat

LEMMA WaitingNat == S!TypeOK => \A u \in Uuids : Waiting(u) \in Nat
<1> SUFFICES ASSUME S!TypeOK, NEW u \in Uuids PROVE Waiting(u) \in Nat
  OBVIOUS
<1>1. Waiting(u) = SumFunctionOnSet(HeldBytes, {u} \X Nodes)
  BY DEF Waiting, HeldBytes
<1> QED
  BY <1>1, HeldNat, FiniteKeys, SumNat

LEMMA PendingNat ==
    pending \in [PendingKeys -> Nat]
        => /\ \A e \in Emails : PendingOf(e) \in Nat
           /\ \A T \in SUBSET PendingKeys : AllNat(pending, T)
<1> SUFFICES ASSUME pending \in [PendingKeys -> Nat]
             PROVE  /\ \A e \in Emails : PendingOf(e) \in Nat
                    /\ \A T \in SUBSET PendingKeys : AllNat(pending, T)
  OBVIOUS
<1>1. \A T \in SUBSET PendingKeys : AllNat(pending, T)
  BY DEF AllNat
<1>2. ASSUME NEW e \in Emails PROVE PendingOf(e) \in Nat
  BY <1>1, FiniteKeys, SumNat DEF PendingOf
<1> QED
  BY <1>1, <1>2

(* What GetAndResetTraffic hands to the control loop. *)
LEMMA DeltaFacts ==
    ASSUME S!TypeOK
    PROVE  /\ DOMAIN S!Delta = S!Drained /\ S!Drained \in SUBSET S!Keys
           /\ IsFiniteSet(S!Drained)
           /\ \A k \in S!Drained :
                /\ S!EmailAtDrain(k) \in Emails
                /\ S!Delta[k].email = S!EmailAtDrain(k)
                /\ S!Delta[k].bytes = S!Held(k)
                /\ S!Held(k) \in Nat
                /\ <<S!EmailAtDrain(k), k[2]>> \in PendingKeys
<1>1. DOMAIN S!Delta = S!Drained /\ S!Drained \in SUBSET S!Keys
  BY DEF S!Delta, S!Drained, S!TypeOK, S!IsMap
<1>2. IsFiniteSet(S!Drained)
  BY <1>1, FiniteKeys, FS_Subset
<1>3. ASSUME NEW k \in S!Drained
      PROVE  /\ S!EmailAtDrain(k) \in Emails
             /\ S!Delta[k].email = S!EmailAtDrain(k)
             /\ S!Delta[k].bytes = S!Held(k)
             /\ S!Held(k) \in Nat
             /\ <<S!EmailAtDrain(k), k[2]>> \in PendingKeys
  <2>1. k \in DOMAIN userTraffic /\ k \in S!Keys /\ userTraffic[k] \in S!TrafficStat
    BY <1>1 DEF S!Drained, S!TypeOK, S!IsMap
  <2>2. S!EmailAtDrain(k) \in Emails
    BY <2>1 DEF S!Drained, S!EmailAtDrain, S!EmailOf, S!TypeOK, S!IsMap, S!TrafficStat
  <2> QED
    BY <2>1, <2>2, HeldNat DEF S!Delta, S!Held, S!Keys, PendingKeys
<1> QED
  BY <1>1, <1>2, <1>3

DrainedFor(p) == {k \in S!Drained : <<S!EmailAtDrain(k), k[2]>> = p}

LEMMA NewForIs ==
    ASSUME S!TypeOK, NEW p
    PROVE  /\ NewFor(S!Delta, p) \in Nat
           /\ NewFor(S!Delta, p) = SumFunctionOnSet(HeldBytes, DrainedFor(p))
<1> DEFINE b == [k \in DOMAIN S!Delta |-> S!Delta[k].bytes]
           T == {k \in DOMAIN S!Delta : <<S!Delta[k].email, k[2]>> = p}
<1>1. T = DrainedFor(p)
  BY DeltaFacts DEF DrainedFor
<1>2. T \in SUBSET S!Keys /\ IsFiniteSet(T)
  BY DeltaFacts, FS_Subset
<1>3. \A k \in T : b[k] = HeldBytes[k]
  BY DeltaFacts, <1>2, HeldNat
<1>4. AllNat(HeldBytes, T)
  BY <1>2, HeldNat
<1>5. NewFor(S!Delta, p) = SumFunctionOnSet(b, T)
  BY DEF NewFor
<1> HIDE DEF b, T
<1>6. SumFunctionOnSet(b, T) = SumFunctionOnSet(HeldBytes, T)
  BY <1>2, <1>3, <1>4, SumEqual
<1> QED
  BY <1>1, <1>2, <1>4, <1>5, <1>6, SumNat

(* What the manager serves is a user map and a usage map. *)
LEMMA ServedUsersMap ==
    ASSUME TypeOK
    PROVE  /\ ServedUsers \in AllUserMaps
           /\ \A u \in DOMAIN ServedUsers : Known(u, ServedUsers[u])
<1>1. DOMAIN mList \subseteq Uuids /\ mList \in [DOMAIN mList -> Emails]
  BY SetsAssumption DEF TypeOK
<1>2. PICK D \in SUBSET DOMAIN mList : ServedUsers = [u \in D |-> mList[u]]
  BY DEF ServedUsers, Restrict
<1>3. ServedUsers \in [D -> Emails] /\ D \in SUBSET Uuids
  BY <1>1, <1>2
<1>4. \A u \in DOMAIN ServedUsers : u \in DOMAIN mList /\ ServedUsers[u] = mList[u]
  BY <1>2
<1> QED
  BY <1>3, <1>4 DEF AllUserMaps, Known, TypeOK

LEMMA ServedUsageMap ==
    ASSUME TypeOK
    PROVE  /\ ServedUsage \in AllUsageMaps
           /\ \A e \in DOMAIN ServedUsage :
                e \in Emails /\ ServedUsage[e] = [quota |-> mQuota[e], used |-> mUsed[e]]
<1>1. Range(mList) \in SUBSET Emails
  BY SetsAssumption DEF TypeOK, Range
<1>2. \A e \in Range(mList) : mQuota[e] \in Int /\ mUsed[e] \in Nat
  BY <1>1, NodeAssumption DEF TypeOK
<1>3. ServedUsage \in [Range(mList) -> [quota : Int, used : Nat]]
  BY <1>2 DEF ServedUsage
<1> QED
  BY <1>1, <1>3 DEF AllUsageMaps, ServedUsage

LEMMA ServerMoves == TypeOK /\ [Next]_vars => ServerStep \/ UNCHANGED server
<1> SUFFICES ASSUME TypeOK, [Next]_vars PROVE ServerStep \/ UNCHANGED server
  OBVIOUS
<1>1. CASE SyncUsers
  BY <1>1, ServedUsersMap DEF SyncUsers, ServerStep
<1>2. CASE UsageApplied
  BY <1>2, ServedUsageMap DEF UsageApplied, ServerStep
<1>3. CASE SyncDrain
  BY <1>3 DEF SyncDrain, ServerStep
<1>4. CASE \E c \in Conns : ConnStep(c)
  BY <1>4 DEF ConnStep, ServerStep
<1>5. CASE UNCHANGED vars
  BY <1>5 DEF vars
<1>6. CASE AdminEdits \/ \E e \in Emails : OtherNodeReports(e)
  BY <1>6 DEF AdminEdits, OtherNodeReports
<1>7. CASE StartServer \/ Tick \/ SyncConfig \/ ReportSucceeds \/ RequestLost
           \/ ReplyLost \/ ReportRefused \/ UsageUnavailable
  BY <1>7 DEF StartServer, Tick, SyncConfig, ReportSucceeds, RequestLost, ReplyLost,
     ReportRefused, UsageUnavailable
<1> QED
  BY <1>1, <1>2, <1>3, <1>4, <1>5, <1>6, <1>7 DEF Next, SyncStep

LEMMA NInvInit == Init => NInv
<1> SUFFICES ASSUME Init PROVE NInv
  OBVIOUS
<1>1. ServerInv /\ S!TypeOK
  BY ServerTypeInit, ServerTypes DEF Init
<1>2. attempt \in 0..RetryCount /\ faults \in 0..MaxFaults /\ foreign \in 0..MaxForeign
  BY NodeAssumption DEF Init
<1>3. DOMAIN etag = Resources /\ misled \in SUBSET Resources
  BY DEF Init
<1>4. started \in BOOLEAN
  BY Zenon DEF Init
<1> QED
  BY <1>1, <1>2, <1>3, <1>4 DEF Init, NInv, TypeOK

(* A conditional GET keeps the tags and the fault count in their types. *)
LEMMA PullType ==
    ASSUME TypeOK, NEW r \in Resources, NEW served,
           Pulled(r, served) \/ NotPulled(r, served)
    PROVE  /\ DOMAIN etag' = Resources
           /\ misled' \in SUBSET Resources
           /\ faults' \in 0..MaxFaults
<1>1. DOMAIN etag' = Resources
  BY DEF Pulled, NotPulled, FetchFails, TypeOK
<1>2. misled' \in SUBSET Resources
  BY DEF Pulled, NotPulled, FetchFails, TypeOK
<1>3. faults' \in 0..MaxFaults
  BY NodeAssumption DEF Pulled, NotPulled, FetchFails, Fault, TypeOK
<1> QED
  BY <1>1, <1>2, <1>3

LEMMA NInvStep == NInv /\ [Next]_vars => NInv'
<1> SUFFICES ASSUME NInv, [Next]_vars PROVE NInv'
  OBVIOUS
<1>0. ServerInv'
  BY ServerMoves, ServerTypeStep DEF NInv
<1>1. S!TypeOK'
  <2>1. (ServerInv => S!TypeOK)'
    BY ServerTypes, PTL
  <2> QED BY <1>0, <2>1
<1>2. /\ \A u \in Uuids : Waiting(u) \in Nat
      /\ \A e \in Emails : PendingOf(e) \in Nat
  BY WaitingNat, PendingNat DEF NInv, TypeOK
<1> USE NodeAssumption DEF Resources
<1>3. CASE UNCHANGED vars
  BY <1>0, <1>1, <1>3 DEF NInv, TypeOK, vars, manager
<1>4. CASE AdminEdits
  BY <1>0, <1>1, <1>4 DEF AdminEdits, NInv, TypeOK
<1>5. CASE \E e \in Emails : OtherNodeReports(e)
  BY <1>0, <1>1, <1>5 DEF OtherNodeReports, NInv, TypeOK
<1>6. CASE (\E c \in Conns : ConnStep(c)) \/ StartServer \/ Tick
  BY <1>0, <1>1, <1>6 DEF ConnStep, StartServer, Tick, NInv, TypeOK, manager
<1>7. CASE SyncConfig
  <2>1. "config" \in Resources /\ (Pulled("config", mConfig) \/ NotPulled("config", mConfig))
    BY <1>7 DEF SyncConfig
  <2>2. config' \in NodeConfigs \cup {NoTag}
    BY <1>7 DEF SyncConfig, NInv, TypeOK
  <2> QED
    BY <1>0, <1>1, <1>7, <2>1, <2>2, PullType DEF SyncConfig, NInv, TypeOK, manager
<1>8. CASE SyncUsers
  <2>1. "users" \in Resources /\ (Pulled("users", ServedUsers) \/ NotPulled("users", ServedUsers))
    BY <1>8 DEF SyncUsers
  <2> QED
    BY <1>0, <1>1, <1>8, <2>1, PullType DEF SyncUsers, NInv, TypeOK, manager
<1>9. CASE SyncDrain
  <2>1. pending' \in [PendingKeys -> Nat]
    BY <1>9, NewForIs DEF SyncDrain, Merge, NInv, TypeOK
  <2> QED
    BY <1>0, <1>1, <1>9, <2>1 DEF SyncDrain, NInv, TypeOK, manager
<1>10. CASE ReportSucceeds
  BY <1>0, <1>1, <1>2, <1>10 DEF ReportSucceeds, Credit, ClearPending, NInv, TypeOK
<1>11. CASE RequestLost \/ ReportRefused
  <2>1. /\ attempt' \in 0..RetryCount /\ pending' = pending
        /\ spc' \in {"idle", "report"}
    BY <1>11 DEF RequestLost, ReportRefused, RetryOrGiveUp, GiveUp,
       AfterFailedReport, NInv, TypeOK
  <2>2. /\ UNCHANGED <<started, manager, etag, config, foreign, repeated, overlooked, misled>>
        /\ faults' \in 0..MaxFaults
    BY <1>11 DEF RequestLost, ReportRefused, Fault, NInv, TypeOK
  <2> QED
    BY <1>0, <1>1, <2>1, <2>2 DEF NInv, TypeOK, manager
<1>12. CASE ReplyLost
  BY <1>0, <1>1, <1>2, <1>12 DEF ReplyLost, Credit, RetryOrGiveUp, GiveUp,
     AfterFailedReport, Fault, NInv, TypeOK
<1>13. CASE UsageApplied
  BY <1>0, <1>1, <1>2, <1>13 DEF UsageApplied, NInv, TypeOK, manager
<1>14. CASE UsageUnavailable
  BY <1>0, <1>1, <1>14 DEF UsageUnavailable, Fault, NInv, TypeOK, manager
<1> QED
  BY <1>3, <1>4, <1>5, <1>6, <1>7, <1>8, <1>9, <1>10, <1>11, <1>12, <1>13, <1>14
  DEF Next, SyncStep

(* The control loop's and the manager's variables, and all of the server's, *)
(* keep their types under every fault; in particular no request is retried  *)
(* more than RetryCount times.                                              *)
THEOREM NodeTypeCorrect == Spec => []TypeOK
<1>1. NInv => TypeOK
  BY DEF NInv
<1> QED
  BY <1>1, NInvInit, NInvStep, PTL DEF Spec

-----------------------------------------------------------------------------
(* What a step of the node does to the bytes *)

(* One chunk is counted for one key and charged to the quota of its user. *)
CountsBytes ==
    \E key \in S!Keys, n \in Nat \ {0} :
        /\ UNCHANGED <<users, dropped, manager, spc, pending, foreign, repeated, overlooked>>
        /\ S!Held(key)' = S!Held(key) + n
        /\ \A k \in S!Keys \ {key} : S!Held(k)' = S!Held(k)
        /\ counted' = [counted EXCEPT ![key] = @ + n]
        /\ \A k \in DOMAIN userTraffic' :
             \/ k \in DOMAIN userTraffic /\ userTraffic'[k].email = userTraffic[k].email
             \/ userTraffic'[k].email = S!EmailOf(k[1])
        /\ DOMAIN userQuota' = DOMAIN userQuota
        /\ \A u \in DOMAIN userQuota :
             /\ userQuota'[u].quota = userQuota[u].quota
             /\ userQuota'[u].base = userQuota[u].base
             /\ userQuota'[u].accrual = userQuota[u].accrual
                  + IF u = key[1] /\ userQuota[u].quota >= 0 THEN n ELSE 0

(* The bytes stay where they are, and so do the charges; the manager may    *)
(* learn of bytes it cannot have from us, or cannot be known to have.       *)
MovesNothing ==
    /\ UNCHANGED <<users, userTraffic, userQuota, counted, dropped, pending, overlooked>>
    /\ spc' = "usage" => spc = "usage"
    /\ \/ UNCHANGED <<mUsed, foreign, repeated>>
       \/ \E e \in Emails : /\ foreign' = foreign + 1
                            /\ mUsed' = [mUsed EXCEPT ![e] = @ + 1]
                            /\ UNCHANGED repeated
       \/ /\ Credit
          /\ repeated' = [e \in Emails |-> repeated[e] + PendingOf(e)]
          /\ UNCHANGED foreign

ReplacesUsers ==
    /\ S!UpdateUsers(ServedUsers)
    /\ UNCHANGED <<manager, pending, foreign, repeated, overlooked>>
    /\ spc' = "drain"

(* The steps of a connection and of the control loop, by what they do to    *)
(* the bytes.                                                               *)
LEMMA CountStep ==
    ASSUME NInv, NEW c \in Conns, NEW d \in S!Dirs, S!Count(c, d),
           UNCHANGED <<manager, spc, pending, foreign, repeated, overlooked>>
    PROVE  CountsBytes
<1>1. PICK key \in SP!Keys, n \in Nat \ {0} :
             /\ key = <<who[c], entry[c]>> /\ n = buf[c][d]
             /\ UNCHANGED <<returned, dropped>>
             /\ SP!Held(key)' = SP!Held(key) + n
             /\ \A k \in SP!Keys \ {key} : SP!Held(k)' = SP!Held(k)
             /\ counted' = [counted EXCEPT ![key] = @ + n]
  <2>1. SP!Count(c, d) /\ SP!TInv /\ d \in SP!Dirs
    BY SameCount DEF NInv, ServerInv, S!Dirs, SP!Dirs
  <2> QED
    BY <2>1, SetsAssumption, ListsAreMaps, FiniteSetsOfServer, SP!CountLedger
<1>2. /\ key \in S!Keys /\ SP!Keys = S!Keys
      /\ S!Held(key)' = S!Held(key) + n
      /\ \A k \in S!Keys \ {key} : S!Held(k)' = S!Held(k)
  BY <1>1 DEF SP!Held, S!Held, SP!Keys, S!Keys
<1>3. key[1] = who[c]
  BY <1>1
<1>4. users' = users
  BY DEF S!Count
<1>5. S!addStat(key, n) /\ S!accrueQuota(who[c], n)
  BY <1>1 DEF S!Count, S!addTraffic
<1>6. ASSUME NEW k \in DOMAIN userTraffic'
      PROVE  \/ k \in DOMAIN userTraffic /\ userTraffic'[k].email = userTraffic[k].email
             \/ userTraffic'[k].email = S!EmailOf(k[1])
  <2>1. CASE k = key /\ key \in DOMAIN userTraffic
    <3>1. userTraffic[key] \in S!TrafficStat
      BY <2>1 DEF NInv, TypeOK, S!TypeOK, S!IsMap
    <3>2. userTraffic'[k] = [userTraffic[key] EXCEPT !.bytes = @ + n]
      BY <1>5, <2>1 DEF S!addStat, S!StatAfterAdd
    <3> QED
      BY <2>1, <3>1, <3>2 DEF S!TrafficStat
  <2>2. CASE k = key /\ key \notin DOMAIN userTraffic
    BY <1>5, <2>2 DEF S!addStat, S!StatAfterAdd
  <2>3. CASE k # key
    BY <1>5, <2>3 DEF S!addStat
  <2> QED
    BY <2>1, <2>2, <2>3
<1>7. /\ DOMAIN userQuota' = DOMAIN userQuota
      /\ \A u \in DOMAIN userQuota :
             /\ userQuota'[u].quota = userQuota[u].quota
             /\ userQuota'[u].base = userQuota[u].base
             /\ userQuota'[u].accrual = userQuota[u].accrual
                  + IF u = key[1] /\ userQuota[u].quota >= 0 THEN n ELSE 0
  <2>1. \A u \in DOMAIN userQuota : userQuota[u].accrual \in Nat
    BY DEF NInv, TypeOK, S!TypeOK, S!IsMap, S!QuotaState
  <2>2. CASE who[c] \in DOMAIN userQuota /\ userQuota[who[c]].quota >= 0
    <3>1. userQuota' = [userQuota EXCEPT ![who[c]] = S!Accrued(userQuota[who[c]], n)]
      BY <1>5, <2>2 DEF S!accrueQuota
    <3>2. \A u \in DOMAIN userQuota : userQuota'[u] =
             IF u = who[c] THEN S!Accrued(userQuota[who[c]], n) ELSE userQuota[u]
      BY <3>1 DEF NInv, TypeOK, S!TypeOK, S!IsMap
    <3> QED
      BY <1>3, <2>1, <2>2, <3>1, <3>2 DEF S!Accrued
  <2>3. CASE ~(who[c] \in DOMAIN userQuota /\ userQuota[who[c]].quota >= 0)
    BY <1>3, <1>5, <2>1, <2>3 DEF S!accrueQuota
  <2> QED
    BY <2>2, <2>3
<1> QED
  BY <1>1, <1>2, <1>4, <1>6, <1>7 DEF CountsBytes

LEMMA ConnSteps ==
    ASSUME NInv, NEW c \in Conns, ConnStep(c)
    PROVE  CountsBytes \/ MovesNothing
<1>0. UNCHANGED <<manager, spc, pending, foreign, repeated, overlooked>>
  BY DEF ConnStep
<1>1. CASE \E d \in S!Dirs : S!Count(c, d)
  BY <1>0, <1>1, CountStep
<1>2. CASE S!ClientStep(c)
  <2>1. UNCHANGED <<users, userTraffic, userQuota, counted, dropped>>
    BY <1>2 DEF S!ClientStep, S!HandshakeFails, S!Reject, S!ReadHeader, S!Transfer,
       S!serverVars, S!history
  <2> QED
    BY <1>0, <2>1 DEF MovesNothing, manager
<1>3. CASE S!LookupUser(c) \/ S!QuotaGate(c) \/ S!Register(c) \/ S!Finish(c)
           \/ S!CloseConn(c)
  <2>1. UNCHANGED <<users, userTraffic, userQuota, counted, dropped>>
    BY <1>3 DEF S!LookupUser, S!QuotaGate, S!Register, S!Finish, S!CloseConn, S!Reject,
       S!Advance, S!serverVars, S!history
  <2> QED
    BY <1>0, <2>1 DEF MovesNothing, manager
<1> QED
  BY <1>1, <1>2, <1>3 DEF ConnStep, S!HandlerStep

LEMMA NodeSteps ==
    NInv /\ [Next]_vars
        => CountsBytes \/ MovesNothing \/ ReplacesUsers \/ SyncDrain
           \/ ReportSucceeds \/ UsageApplied
<1> SUFFICES ASSUME NInv, [Next]_vars
             PROVE  CountsBytes \/ MovesNothing \/ ReplacesUsers \/ SyncDrain
                    \/ ReportSucceeds \/ UsageApplied
  OBVIOUS
<1>1. CASE UNCHANGED vars
  BY <1>1 DEF vars, server, manager, MovesNothing
<1>2. CASE AdminEdits \/ StartServer \/ Tick \/ SyncConfig \/ UsageUnavailable
  BY <1>2 DEF AdminEdits, StartServer, Tick, SyncConfig, UsageUnavailable, server, manager,
     MovesNothing
<1>3. CASE \E e \in Emails : OtherNodeReports(e)
  BY <1>3 DEF OtherNodeReports, server, MovesNothing
<1>4. CASE SyncUsers
  BY <1>4 DEF SyncUsers, server, manager, MovesNothing, ReplacesUsers
<1>5. CASE RequestLost \/ ReportRefused
  BY <1>5 DEF RequestLost, ReportRefused, RetryOrGiveUp, GiveUp, AfterFailedReport, server,
     manager, MovesNothing
<1>6. CASE ReplyLost
  BY <1>6 DEF ReplyLost, RetryOrGiveUp, GiveUp, AfterFailedReport, server, MovesNothing
<1> QED
  BY <1>1, <1>2, <1>3, <1>4, <1>5, <1>6, ConnSteps DEF Next, SyncStep

-----------------------------------------------------------------------------
(* What it does to the sums *)

(* Counting a chunk adds it to what waits for its user, and nobody else's. *)
LEMMA CountWaiting ==
    ASSUME NInv, NEW key \in S!Keys, NEW n \in Nat,
           S!Held(key)' = S!Held(key) + n,
           \A k \in S!Keys \ {key} : S!Held(k)' = S!Held(k),
           NEW u \in Uuids
    PROVE  Waiting(u)' = Waiting(u) + IF u = key[1] THEN n ELSE 0
<1> DEFINE T == {u} \X Nodes
           f == HeldBytes
           g == HeldBytes'
<1>1. /\ IsFiniteSet(T) /\ T \in SUBSET S!Keys /\ AllNat(f, T)
      /\ \A k \in S!Keys : f[k] = S!Held(k) /\ S!Held(k) \in Nat
  BY FiniteKeys, HeldNat DEF NInv, TypeOK
<1>2. \A k \in S!Keys : g[k] = S!Held(k)'
  BY DEF HeldBytes
<1>3. Waiting(u) = SumFunctionOnSet(f, T) /\ Waiting(u)' = SumFunctionOnSet(g, T)
  BY DEF Waiting, HeldBytes
<1>4. CASE u = key[1]
  <2>1. key \in T
    BY <1>4 DEF S!Keys
  <2> HIDE DEF T, f, g
  <2>2. g[key] = f[key] + n /\ f[key] \in Nat /\ g[key] \in Nat
    BY <1>1, <1>2
  <2>3. \A k \in T \ {key} : g[k] = f[k]
    BY <1>1, <1>2
  <2>4. SumFunctionOnSet(g, T) + f[key] = SumFunctionOnSet(f, T) + g[key]
    BY <1>1, <2>1, <2>2, <2>3, SumUpdate
  <2>5. AllNat(g, T)
    BY <1>1, <2>2, <2>3 DEF AllNat
  <2>6. SumFunctionOnSet(f, T) \in Nat /\ SumFunctionOnSet(g, T) \in Nat
    BY <1>1, <2>5, SumNat
  <2> QED
    BY <1>3, <1>4, <2>2, <2>4, <2>6
<1>5. CASE u # key[1]
  <2>1. key \notin T
    BY <1>5
  <2> HIDE DEF T, f, g
  <2>2. \A k \in T : g[k] = f[k]
    BY <1>1, <1>2, <2>1
  <2>3. SumFunctionOnSet(g, T) = SumFunctionOnSet(f, T) /\ SumFunctionOnSet(f, T) \in Nat
    BY <1>1, <2>2, SumEqual, SumNat
  <2> QED
    BY <1>3, <1>5, <2>3
<1> QED
  BY <1>4, <1>5

(* After a drain nothing waits. *)
LEMMA DrainEmpties ==
    ASSUME NInv, SyncDrain
    PROVE  /\ \A k \in S!Keys : S!Held(k)' = 0 /\ HeldBytes'[k] = 0
           /\ \A u \in Uuids : Waiting(u)' = 0
<1>1. ASSUME NEW k \in S!Keys PROVE S!Held(k)' = 0
  BY DEF SyncDrain, S!GetAndResetTraffic, S!Held, S!StatAfterDrain
<1>2. \A k \in S!Keys : HeldBytes'[k] = 0
  BY <1>1 DEF HeldBytes
<1>3. ASSUME NEW u \in Uuids PROVE Waiting(u)' = 0
  <2>1. Waiting(u)' = SumFunctionOnSet(HeldBytes', {u} \X Nodes)
    BY DEF Waiting, HeldBytes
  <2>2. \A k \in {u} \X Nodes : HeldBytes'[k] = 0
    BY <1>2 DEF S!Keys
  <2> QED
    BY <2>1, <2>2, FiniteKeys, SumZero
<1> QED
  BY <1>1, <1>2, <1>3

DrainedOf(e) == {k \in S!Drained : S!EmailAtDrain(k) = e}

(* The merge adds, to what is pending for an e-mail, all the bytes that     *)
(* were drained for it, at whichever entry points.                          *)
LEMMA DrainPending ==
    ASSUME NInv, SyncDrain, NEW e \in Emails
    PROVE  /\ IsFiniteSet(DrainedOf(e)) /\ AllNat(HeldBytes, DrainedOf(e))
           /\ SumFunctionOnSet(HeldBytes, DrainedOf(e)) \in Nat
           /\ PendingOf(e)' = PendingOf(e) + SumFunctionOnSet(HeldBytes, DrainedOf(e))
<1> DEFINE C == {e} \X Nodes
           D == DrainedOf(e)
           new == [p \in PendingKeys |-> NewFor(S!Delta, p)]
           class == [k \in S!Keys |-> <<S!EmailAtDrain(k), k[2]>>]
           part == [p \in C |-> DrainedFor(p)]
<1>1. S!TypeOK /\ S!Drained \in SUBSET S!Keys
  BY DeltaFacts DEF NInv, TypeOK
<1>2. IsFiniteSet(C) /\ C \in SUBSET PendingKeys /\ AllNat(pending, C)
  BY FiniteKeys, PendingNat DEF NInv, TypeOK
<1>3. IsFiniteSet(D) /\ AllNat(HeldBytes, D) /\ D \in SUBSET S!Keys
  <2>1. D \in SUBSET S!Drained
    BY DEF DrainedOf
  <2> QED
    BY <1>1, <2>1, DeltaFacts, HeldNat, FS_Subset
<1>4. AllNat(new, C)
  BY <1>1, <1>2, NewForIs DEF AllNat
<1>5. \A p \in C : pending'[p] = pending[p] + new[p]
  BY <1>2 DEF SyncDrain, Merge
<1>6. \A k \in D : class[k] \in C
  BY <1>3 DEF DrainedOf, S!Keys
<1>7. \A p \in C : /\ part[p] \subseteq D
                   /\ \A k \in D : k \in part[p] <=> class[k] = p
                   /\ new[p] = SumFunctionOnSet(HeldBytes, part[p])
  <2> SUFFICES ASSUME NEW p \in C
               PROVE  /\ part[p] \subseteq D
                      /\ \A k \in D : k \in part[p] <=> class[k] = p
                      /\ new[p] = SumFunctionOnSet(HeldBytes, part[p])
    OBVIOUS
  <2>1. part[p] \subseteq D /\ \A k \in D : k \in part[p] <=> class[k] = p
    BY <1>1 DEF DrainedOf, DrainedFor
  <2>2. new[p] = NewFor(S!Delta, p) /\ part[p] = DrainedFor(p)
    BY <1>2
  <2> QED
    BY <1>1, <2>1, <2>2, NewForIs
<1>8. PendingOf(e)' = SumFunctionOnSet(pending', C) /\ PendingOf(e) = SumFunctionOnSet(pending, C)
  BY DEF PendingOf
<1> HIDE DEF C, D, new, class, part
<1>9. SumFunctionOnSet(pending', C) = SumFunctionOnSet(pending, C) + SumFunctionOnSet(new, C)
  BY <1>2, <1>4, <1>5, SumPlus
<1>10. SumFunctionOnSet(HeldBytes, D) = SumFunctionOnSet(new, C)
  BY <1>2, <1>3, <1>6, <1>7, SumByClass
<1>11. SumFunctionOnSet(HeldBytes, D) \in Nat
  BY <1>3, SumNat
<1>12. PendingOf(e)' = PendingOf(e) + SumFunctionOnSet(HeldBytes, D)
  BY <1>8, <1>9, <1>10
<1> QED
  BY <1>3, <1>11, <1>12 DEF D

(* After an acknowledged report nothing is pending. *)
LEMMA ReportClears ==
    ASSUME NInv, ReportSucceeds, NEW e \in Emails
    PROVE  PendingOf(e)' = 0
<1>1. PendingOf(e)' = SumFunctionOnSet(pending', {e} \X Nodes)
  BY DEF PendingOf
<1>2. \A p \in {e} \X Nodes : pending'[p] = 0
  BY DEF ReportSucceeds, ClearPending, PendingKeys
<1> QED
  BY <1>1, <1>2, FiniteKeys, SumZero

-----------------------------------------------------------------------------
(* The e-mails under which bytes travel *)

KnownUsers == \A u \in DOMAIN users : Known(u, users[u])

KnownStats ==
    \A k \in DOMAIN userTraffic :
        userTraffic[k].email # NoEmail => Known(k[1], userTraffic[k].email)

QuotaOfUsers == DOMAIN userQuota \subseteq DOMAIN users

(* The snapshots are only refreshed when nothing is pending. *)
UsageClear == spc = "usage" => \A p \in PendingKeys : pending[p] = 0

EInv == NInv /\ KnownUsers /\ KnownStats /\ QuotaOfUsers /\ UsageClear

LEMMA EInvInit == Init => EInv
BY NInvInit DEF Init, EInv, S!Init, S!Empty, KnownUsers, KnownStats, QuotaOfUsers, UsageClear

(* Every drained byte travels under an e-mail its user has in some list. *)
LEMMA EmailsKnown ==
    ASSUME EInv, NEW k \in S!Drained
    PROVE  /\ k \in S!Keys /\ k[1] \in Uuids /\ S!EmailAtDrain(k) \in Emails
           /\ Known(k[1], S!EmailAtDrain(k))
<1>1. k \in S!Keys /\ S!EmailAtDrain(k) \in Emails
  BY DeltaFacts DEF EInv, NInv, TypeOK
<1>2. k[1] \in Uuids
  BY <1>1 DEF S!Keys
<1>3. Known(k[1], S!EmailAtDrain(k))
  BY <1>2 DEF S!Drained, S!EmailAtDrain, S!EmailOf, EInv, KnownUsers, KnownStats
<1> QED
  BY <1>1, <1>2, <1>3

LEMMA EInvStep == EInv /\ [Next]_vars => EInv'
<1> SUFFICES ASSUME EInv, [Next]_vars PROVE EInv'
  OBVIOUS
<1>0. NInv'
  BY NInvStep DEF EInv
<1>1. CASE CountsBytes
  <2>1. KnownStats'
    BY <1>1 DEF CountsBytes, EInv, KnownStats, KnownUsers, S!EmailOf
  <2> QED
    BY <1>0, <1>1, <2>1 DEF CountsBytes, EInv, KnownUsers, QuotaOfUsers, UsageClear
<1>2. CASE MovesNothing
  BY <1>0, <1>2 DEF MovesNothing, EInv, KnownStats, KnownUsers, QuotaOfUsers, UsageClear
<1>3. CASE ReplacesUsers
  <2>1. KnownUsers'
    BY <1>3, ServedUsersMap DEF ReplacesUsers, S!UpdateUsers, KnownUsers, EInv, NInv
  <2>2. KnownStats'
    BY <1>3 DEF ReplacesUsers, S!UpdateUsers, KnownStats, EInv
  <2>3. QuotaOfUsers'
    BY <1>3 DEF ReplacesUsers, S!UpdateUsers, QuotaOfUsers, EInv
  <2>4. UsageClear'
    BY <1>3 DEF ReplacesUsers, UsageClear
  <2> QED
    BY <1>0, <2>1, <2>2, <2>3, <2>4 DEF EInv
<1>4. CASE SyncDrain
  <2>1. KnownStats'
    <3> SUFFICES ASSUME NEW k \in DOMAIN userTraffic', userTraffic'[k].email # NoEmail
                 PROVE  Known(k[1], userTraffic'[k].email)
      BY DEF KnownStats
    <3>1. k \in DOMAIN userTraffic /\ userTraffic'[k] = S!StatAfterDrain(k)
      BY <1>4 DEF SyncDrain, S!GetAndResetTraffic
    <3> QED
      BY <3>1 DEF S!StatAfterDrain, S!EmailAtDrain, S!EmailOf, EInv, KnownStats, KnownUsers
  <2>2. UsageClear'
    BY <1>0, <1>4 DEF SyncDrain, SomethingPending, UsageClear, NInv, TypeOK
  <2>3. KnownUsers' /\ QuotaOfUsers'
    BY <1>4 DEF SyncDrain, S!GetAndResetTraffic, KnownUsers, QuotaOfUsers, EInv
  <2> QED
    BY <1>0, <2>1, <2>2, <2>3 DEF EInv
<1>5. CASE ReportSucceeds
  BY <1>0, <1>5 DEF ReportSucceeds, ClearPending, server, EInv, KnownStats, KnownUsers,
     QuotaOfUsers, UsageClear
<1>6. CASE UsageApplied
  BY <1>0, <1>6 DEF UsageApplied, S!ApplyUsage, EInv, KnownStats, KnownUsers,
     QuotaOfUsers, UsageClear
<1> QED
  BY <1>1, <1>2, <1>3, <1>4, <1>5, <1>6, NodeSteps DEF EInv

(* The waiting bytes of a known user are drained, all of them, and under    *)
(* her e-mail.                                                              *)
LEMMA DrainOfUser ==
    ASSUME EInv, NEW u \in DOMAIN users
    PROVE  /\ u \in Uuids /\ users[u] \in Emails
           /\ {k \in S!Drained : k[1] = u} \in SUBSET DrainedOf(users[u])
           /\ Waiting(u) = SumFunctionOnSet(HeldBytes, {k \in S!Drained : k[1] = u})
<1> DEFINE T == {u} \X Nodes
           D == {k \in S!Drained : k[1] = u}
<1>1. u \in Uuids /\ users[u] \in Emails /\ S!TypeOK
  BY DEF EInv, NInv, TypeOK, S!TypeOK, S!IsMap
<1>2. D \in SUBSET DrainedOf(users[u])
  <2> SUFFICES ASSUME NEW k \in D PROVE k \in DrainedOf(users[u])
    OBVIOUS
  <2>1. Known(u, S!EmailAtDrain(k)) /\ S!EmailAtDrain(k) \in Emails
    BY EmailsKnown
  <2>2. Known(u, users[u])
    BY DEF EInv, KnownUsers
  <2>3. S!EmailAtDrain(k) = users[u]
    BY <1>1, <2>1, <2>2, NeverRenamed
  <2> QED
    BY <2>3 DEF DrainedOf
<1>3. D \in SUBSET T
  BY DeltaFacts, <1>1 DEF S!Keys
<1>4. ASSUME NEW k \in T \ D PROVE HeldBytes[k] = 0
  <2>1. k \in S!Keys /\ k[1] = u /\ HeldBytes[k] = S!Held(k) /\ S!Held(k) \in Nat
    BY <1>1, HeldNat DEF S!Keys
  <2>2. CASE k \in DOMAIN userTraffic
    <3>1. S!EmailAtDrain(k) # NoEmail
      BY <1>1, <2>1, <2>2, SetsAssumption DEF S!EmailAtDrain, S!EmailOf
    <3>2. ~(userTraffic[k].bytes > 0)
      BY <1>4, <2>1, <2>2, <3>1 DEF S!Drained
    <3> QED
      BY <2>1, <2>2, <3>2 DEF S!Held
  <2>3. CASE k \notin DOMAIN userTraffic
    BY <2>1, <2>3 DEF S!Held
  <2> QED
    BY <2>2, <2>3
<1>5. IsFiniteSet(T) /\ AllNat(HeldBytes, T)
  BY <1>1, FiniteKeys, HeldNat
<1>6. Waiting(u) = SumFunctionOnSet(HeldBytes, T)
  BY DEF Waiting, HeldBytes
<1>7. SumFunctionOnSet(HeldBytes, T) = SumFunctionOnSet(HeldBytes, D)
  <2> HIDE DEF T, D
  <2> QED
    BY <1>3, <1>4, <1>5, SumNonzero
<1> QED
  BY <1>1, <1>2, <1>6, <1>7

-----------------------------------------------------------------------------
(* Charges *)

(* The numbers the charges of a user are made of. *)
ChargesTyped ==
    \A u \in DOMAIN userQuota :
        /\ u \in DOMAIN users /\ u \in Uuids /\ users[u] \in Emails
        /\ userQuota[u].quota \in Int
        /\ userQuota[u].base \in Nat /\ userQuota[u].accrual \in Nat
        /\ mUsed[users[u]] \in Nat /\ overlooked[u] \in Nat
        /\ PendingOf(users[u]) \in Nat /\ Waiting(u) \in Nat

LEMMA ChargeTypes == EInv => ChargesTyped
<1> SUFFICES ASSUME EInv, NEW u \in DOMAIN userQuota
             PROVE  /\ u \in DOMAIN users /\ u \in Uuids /\ users[u] \in Emails
                    /\ userQuota[u].quota \in Int
                    /\ userQuota[u].base \in Nat /\ userQuota[u].accrual \in Nat
                    /\ mUsed[users[u]] \in Nat /\ overlooked[u] \in Nat
                    /\ PendingOf(users[u]) \in Nat /\ Waiting(u) \in Nat
  BY DEF ChargesTyped
<1>1. u \in DOMAIN users /\ u \in Uuids /\ users[u] \in Emails
  BY DEF EInv, QuotaOfUsers, NInv, TypeOK, S!TypeOK, S!IsMap
<1>2. userQuota[u] \in S!QuotaState
  BY DEF EInv, NInv, TypeOK, S!TypeOK, S!IsMap
<1>3. PendingOf(users[u]) \in Nat /\ Waiting(u) \in Nat
  BY <1>1, PendingNat, WaitingNat DEF EInv, NInv, TypeOK
<1>4. mUsed[users[u]] \in Nat /\ overlooked[u] \in Nat
  BY <1>1 DEF EInv, NInv, TypeOK
<1> QED
  BY <1>1, <1>2, <1>3, <1>4 DEF S!QuotaState

(* A user that keeps her quota state keeps her e-mail. *)
LEMMA UserKept ==
    ASSUME EInv, [Next]_vars, ~UsageApplied, NEW u \in DOMAIN userQuota'
    PROVE  u \in DOMAIN userQuota /\ users'[u] = users[u]
<1>0. EInv'
  BY EInvStep
<1>1. CASE ReplacesUsers
  <2>1. /\ u \in DOMAIN userQuota /\ u \in DOMAIN users /\ u \in DOMAIN ServedUsers
        /\ users' = ServedUsers
    BY <1>1 DEF ReplacesUsers, S!UpdateUsers, EInv, QuotaOfUsers
  <2>2. Known(u, users[u]) /\ Known(u, ServedUsers[u])
    BY <2>1, ServedUsersMap DEF EInv, KnownUsers, NInv
  <2>3. u \in Uuids /\ users[u] \in Emails /\ ServedUsers[u] \in Emails
    BY <1>0, <2>1 DEF EInv, NInv, TypeOK, S!TypeOK, S!IsMap
  <2> QED
    BY <2>1, <2>2, <2>3, NeverRenamed
<1>2. CASE SyncDrain
  BY <1>2 DEF SyncDrain, S!GetAndResetTraffic
<1>3. CASE ReportSucceeds
  BY <1>3 DEF ReportSucceeds, server
<1> QED
  BY <1>1, <1>2, <1>3, NodeSteps DEF EInv, CountsBytes, MovesNothing

(* What a step does to the bytes of user u, with e-mail e: n more are       *)
(* counted, or what waits is drained, or what is pending is booked.         *)
Counts(u, e, n) ==
    /\ PendingOf(e)' = PendingOf(e)
    /\ Waiting(u)' = Waiting(u) + n
    /\ mUsed'[e] >= mUsed[e]
Drains(u, e, n) ==
    /\ n = 0
    /\ SyncDrain
    /\ PendingOf(e)' = PendingOf(e) + SumFunctionOnSet(HeldBytes, DrainedOf(e))
    /\ Waiting(u)' = 0
    /\ mUsed'[e] = mUsed[e]
Books(u, e, n) ==
    /\ n = 0
    /\ PendingOf(e)' = 0
    /\ Waiting(u)' = Waiting(u)
    /\ mUsed'[e] = mUsed[e] + PendingOf(e)

LEMMA ChargeSteps ==
    ASSUME EInv, [Next]_vars, ~UsageApplied,
           NEW u \in DOMAIN userQuota', NEW e \in Emails, e = users[u]
    PROVE  \E n \in Nat :
             /\ userQuota'[u].quota = userQuota[u].quota
             /\ userQuota'[u].base = userQuota[u].base
             /\ userQuota'[u].accrual =
                  userQuota[u].accrual + IF userQuota[u].quota >= 0 THEN n ELSE 0
             /\ overlooked' = overlooked
             /\ Counts(u, e, n) \/ Drains(u, e, n) \/ Books(u, e, n)
<1>0. /\ u \in DOMAIN userQuota /\ u \in Uuids /\ NInv
      /\ userQuota[u].accrual \in Nat /\ mUsed[e] \in Nat
      /\ PendingOf(e) \in Nat /\ Waiting(u) \in Nat
  BY UserKept, ChargeTypes DEF ChargesTyped, EInv
<1>1. pending' = pending => PendingOf(e)' = PendingOf(e)
  BY DEF PendingOf
<1>2. userTraffic' = userTraffic => Waiting(u)' = Waiting(u)
  BY DEF Waiting, S!Held
<1>3. CASE CountsBytes
  <2> PICK key \in S!Keys, n \in Nat \ {0} : CountsBytes!(key, n)
    BY <1>3 DEF CountsBytes
  <2>1. Waiting(u)' = Waiting(u) + IF u = key[1] THEN n ELSE 0
    BY <1>0, CountWaiting
  <2>2. Counts(u, e, IF u = key[1] THEN n ELSE 0)
    BY <1>0, <1>1, <2>1 DEF Counts, manager
  <2>3. userQuota'[u].accrual = userQuota[u].accrual
           + IF userQuota[u].quota >= 0 THEN (IF u = key[1] THEN n ELSE 0) ELSE 0
    BY <1>0
  <2> QED
    BY <1>0, <2>2, <2>3
<1>4. CASE MovesNothing
  <2>1. mUsed'[e] >= mUsed[e]
    BY <1>0, <1>4 DEF MovesNothing, Credit, NInv, TypeOK
  <2>2. Counts(u, e, 0)
    BY <1>0, <1>1, <1>2, <1>4, <2>1 DEF Counts, MovesNothing
  <2> QED
    BY <1>0, <1>4, <2>2 DEF MovesNothing
<1>5. CASE ReplacesUsers
  <2>1. /\ UNCHANGED <<userTraffic, pending, mUsed, overlooked>>
        /\ userQuota'[u] = userQuota[u]
    BY <1>5 DEF ReplacesUsers, S!UpdateUsers, manager
  <2>2. Counts(u, e, 0)
    BY <1>0, <1>1, <1>2, <2>1 DEF Counts
  <2> QED
    BY <1>0, <2>1, <2>2
<1>6. CASE SyncDrain
  <2>1. UNCHANGED <<userQuota, mUsed, overlooked>>
    BY <1>6 DEF SyncDrain, S!GetAndResetTraffic, manager
  <2>2. Drains(u, e, 0)
    BY <1>0, <1>6, <2>1, DrainPending, DrainEmpties DEF Drains
  <2> QED
    BY <1>0, <2>1, <2>2
<1>7. CASE ReportSucceeds
  <2>1. UNCHANGED <<userQuota, userTraffic, overlooked>>
    BY <1>7 DEF ReportSucceeds, server
  <2>2. mUsed'[e] = mUsed[e] + PendingOf(e)
    BY <1>7 DEF ReportSucceeds, Credit
  <2>3. Books(u, e, 0)
    BY <1>0, <1>2, <1>7, <2>1, <2>2, ReportClears DEF Books
  <2> QED
    BY <1>0, <2>1, <2>3
<1> QED
  BY <1>3, <1>4, <1>5, <1>6, <1>7, NodeSteps DEF EInv

LEMMA NoDoubleStep == EInv /\ NoDoubleCharge /\ [Next]_vars => NoDoubleCharge'
<1> SUFFICES ASSUME EInv, NoDoubleCharge, [Next]_vars, NEW u \in DOMAIN userQuota'
             PROVE  userQuota'[u].base + userQuota'[u].accrual
                      <= mUsed'[users'[u]] + (PendingOf(users[u])' + Waiting(u)')
  BY DEF NoDoubleCharge, Unreported
<1>0. EInv' /\ NInv
  BY EInvStep DEF EInv
<1>1. /\ users'[u] \in Emails
      /\ mUsed'[users'[u]] \in Nat
      /\ PendingOf(users[u])' \in Nat /\ Waiting(u)' \in Nat
  <2>1. (EInv => ChargesTyped)'
    BY ChargeTypes, PTL
  <2> QED
    BY <1>0, <2>1 DEF ChargesTyped
<1>2. CASE UsageApplied
  <2>1. userQuota'[u].base = mUsed[users[u]] /\ userQuota'[u].accrual = 0
    BY <1>0, <1>2, ServedUsageMap DEF UsageApplied, S!ApplyUsage, S!Snapshot, NInv
  <2>2. mUsed' = mUsed /\ users' = users
    BY <1>2 DEF UsageApplied, S!ApplyUsage, manager
  <2> QED
    BY <1>1, <2>1, <2>2
<1>3. CASE ~UsageApplied
  <2>1. u \in DOMAIN userQuota /\ users'[u] = users[u]
    BY <1>3, UserKept
  <2>2. PICK e \in Emails : e = users[u]
    BY <1>1, <2>1
  <2>3. PendingOf(users[u])' = PendingOf(e)'
    BY <2>1, <2>2 DEF PendingOf
  <2>4. /\ u \in DOMAIN users /\ userQuota[u].base \in Nat /\ userQuota[u].accrual \in Nat
        /\ mUsed[e] \in Nat /\ PendingOf(e) \in Nat /\ Waiting(u) \in Nat
        /\ userQuota[u].base + userQuota[u].accrual <= mUsed[e] + (PendingOf(e) + Waiting(u))
    BY <2>1, <2>2, ChargeTypes DEF ChargesTyped, NoDoubleCharge, Unreported
  <2>5. PICK n \in Nat :
             /\ userQuota'[u].base = userQuota[u].base
             /\ userQuota'[u].accrual =
                  userQuota[u].accrual + IF userQuota[u].quota >= 0 THEN n ELSE 0
             /\ Counts(u, e, n) \/ Drains(u, e, n) \/ Books(u, e, n)
    BY <1>3, <2>2, ChargeSteps
  <2>6. CASE Counts(u, e, n)
    BY <1>1, <2>1, <2>2, <2>3, <2>4, <2>5, <2>6 DEF Counts
  <2>7. CASE Books(u, e, n)
    BY <1>1, <2>1, <2>2, <2>3, <2>4, <2>5, <2>7 DEF Books
  <2>8. CASE Drains(u, e, n)
    <3> DEFINE D == {k \in S!Drained : k[1] = u}
    <3>1. D \in SUBSET DrainedOf(e) /\ Waiting(u) = SumFunctionOnSet(HeldBytes, D)
      BY <2>2, <2>4, DrainOfUser
    <3>2. /\ IsFiniteSet(DrainedOf(e)) /\ AllNat(HeldBytes, DrainedOf(e))
          /\ SumFunctionOnSet(HeldBytes, DrainedOf(e)) \in Nat
      BY <1>0, <2>8, DrainPending DEF Drains
    <3> HIDE DEF D
    <3>3. Waiting(u) <= SumFunctionOnSet(HeldBytes, DrainedOf(e))
      BY <3>1, <3>2, SumSubset
    <3> QED
      BY <1>1, <2>1, <2>2, <2>3, <2>4, <2>5, <2>8, <3>2, <3>3 DEF Drains
  <2> QED
    BY <2>5, <2>6, <2>7, <2>8
<1> QED
  BY <1>2, <1>3

(* A user is never charged twice for a byte, however reports fail, are      *)
(* retried or are booked without our knowing: base and accrual are covered  *)
(* by what the manager has booked or will be told.                          *)
THEOREM NeverChargedTwice == Spec => []NoDoubleCharge
<1>1. Init => EInv /\ NoDoubleCharge
  BY EInvInit DEF Init, S!Init, S!Empty, NoDoubleCharge
<1> QED
  BY <1>1, EInvStep, NoDoubleStep, PTL DEF Spec

(* With no two ids sharing an e-mail, what is drained for it is hers. *)
LEMMA DrainIsOwn ==
    ASSUME EInv, NEW u \in DOMAIN users
    PROVE  Waiting(u) = SumFunctionOnSet(HeldBytes, DrainedOf(users[u]))
<1>1. ASSUME NEW k \in DrainedOf(users[u]) PROVE k[1] = u
  <2>1. k \in S!Drained /\ S!EmailAtDrain(k) = users[u]
    BY DEF DrainedOf
  <2>2. k[1] \in Uuids /\ users[u] \in Emails /\ Known(k[1], users[u])
    BY <2>1, EmailsKnown
  <2>3. u \in Uuids /\ Known(u, users[u])
    BY DrainOfUser DEF EInv, KnownUsers
  <2> QED
    BY <2>2, <2>3, NeverShared
<1>2. {k \in S!Drained : k[1] = u} = DrainedOf(users[u])
  BY <1>1, DrainOfUser DEF DrainedOf
<1> QED
  BY <1>2, DrainOfUser

LEMMA WindowStep == EInv /\ OnlyWindowOverlooked /\ [Next]_vars => OnlyWindowOverlooked'
<1> SUFFICES ASSUME EInv, OnlyWindowOverlooked, [Next]_vars,
                    NEW u \in DOMAIN userQuota', userQuota'[u].quota >= 0
             PROVE  PendingOf(users[u])' + Waiting(u)' <= userQuota'[u].accrual + overlooked'[u]
  BY DEF OnlyWindowOverlooked, Unreported
<1>0. EInv' /\ NInv
  BY EInvStep DEF EInv
<1>1. users'[u] \in Emails /\ u \in Uuids
  <2>1. (EInv => ChargesTyped)'
    BY ChargeTypes, PTL
  <2> QED
    BY <1>0, <2>1 DEF ChargesTyped
<1>2. CASE UsageApplied
  <2>1. userQuota'[u].accrual = 0
    BY <1>2 DEF UsageApplied, S!ApplyUsage, S!Snapshot
  <2>2. overlooked'[u] = Waiting(u) /\ Waiting(u)' = Waiting(u) /\ Waiting(u) \in Nat
    BY <1>0, <1>1, <1>2, WaitingNat
    DEF UsageApplied, S!ApplyUsage, Waiting, S!Held, NInv, TypeOK
  <2>3. PendingOf(users[u])' = 0
    <3> PICK e \in Emails : e = users'[u]
      BY <1>1
    <3>1. PendingOf(users[u])' = SumFunctionOnSet(pending, {e} \X Nodes)
      BY <1>2 DEF UsageApplied, PendingOf
    <3>2. \A p \in {e} \X Nodes : pending[p] = 0
      BY <1>2 DEF UsageApplied, EInv, UsageClear, PendingKeys
    <3> QED
      BY <3>1, <3>2, FiniteKeys, SumZero
  <2> QED
    BY <2>1, <2>2, <2>3
<1>3. CASE ~UsageApplied
  <2>1. u \in DOMAIN userQuota /\ users'[u] = users[u]
    BY <1>3, UserKept
  <2>2. PICK e \in Emails : e = users[u]
    BY <1>1, <2>1
  <2>3. PendingOf(users[u])' = PendingOf(e)'
    BY <2>1, <2>2 DEF PendingOf
  <2>4. /\ u \in DOMAIN users /\ userQuota[u].quota \in Int /\ userQuota[u].accrual \in Nat
        /\ overlooked[u] \in Nat /\ PendingOf(e) \in Nat /\ Waiting(u) \in Nat
        /\ userQuota[u].quota >= 0
             => PendingOf(e) + Waiting(u) <= userQuota[u].accrual + overlooked[u]
    BY <2>1, <2>2, ChargeTypes DEF ChargesTyped, OnlyWindowOverlooked, Unreported
  <2>5. PICK n \in Nat :
             /\ userQuota'[u].quota = userQuota[u].quota
             /\ userQuota'[u].accrual =
                  userQuota[u].accrual + IF userQuota[u].quota >= 0 THEN n ELSE 0
             /\ overlooked' = overlooked
             /\ Counts(u, e, n) \/ Drains(u, e, n) \/ Books(u, e, n)
    BY <1>3, <2>2, ChargeSteps
  <2>6. CASE Counts(u, e, n)
    BY <2>3, <2>4, <2>5, <2>6 DEF Counts
  <2>7. CASE Books(u, e, n)
    BY <2>3, <2>4, <2>5, <2>7 DEF Books
  <2>8. CASE Drains(u, e, n)
    <3>1. Waiting(u) = SumFunctionOnSet(HeldBytes, DrainedOf(e))
      BY <2>2, <2>4, DrainIsOwn
    <3> QED
      BY <2>3, <2>4, <2>5, <2>8, <3>1 DEF Drains
  <2> QED
    BY <2>5, <2>6, <2>7, <2>8
<1> QED
  BY <1>2, <1>3

(* Enforcement overlooks nothing but the bytes counted between a drain and  *)
(* the snapshot that follows it.                                            *)
THEOREM OnlyTheWindowIsOverlooked == Spec => []OnlyWindowOverlooked
<1>1. Init => EInv /\ OnlyWindowOverlooked
  BY EInvInit DEF Init, S!Init, S!Empty, OnlyWindowOverlooked
<1> QED
  BY <1>1, EInvStep, WindowStep, PTL DEF Spec

-----------------------------------------------------------------------------
(* The ledger *)

HeldTotal    == SumFunctionOnSet(HeldBytes, S!Keys)
PendingTotal == SumFunctionOnSet(pending, PendingKeys)
CountedTotal == SumFunctionOnSet(counted, S!Keys)
DroppedTotal == SumFunctionOnSet(dropped, S!Keys)
UsedTotal    == SumFunctionOnSet(mUsed, Emails)
RepeatTotal  == SumFunctionOnSet(repeated, Emails)

TotalsTyped ==
    /\ HeldTotal \in Nat /\ PendingTotal \in Nat /\ CountedTotal \in Nat
    /\ DroppedTotal \in Nat /\ UsedTotal \in Nat /\ RepeatTotal \in Nat
    /\ foreign \in Nat

BalancesTyped ==
    /\ AllNat(HeldBytes, S!Keys) /\ AllNat(pending, PendingKeys)
    /\ AllNat(counted, S!Keys) /\ AllNat(dropped, S!Keys)
    /\ AllNat(mUsed, Emails) /\ AllNat(repeated, Emails)

(* The totals are naturals, being sums of naturals over finite sets. *)
LEMMA TotalsNat == NInv => TotalsTyped /\ BalancesTyped
<1> SUFFICES ASSUME NInv PROVE TotalsTyped /\ BalancesTyped
  OBVIOUS
<1>1. AllNat(HeldBytes, S!Keys) /\ AllNat(pending, PendingKeys)
  BY HeldNat, PendingNat DEF NInv, TypeOK
<1>2. /\ AllNat(counted, S!Keys) /\ AllNat(dropped, S!Keys)
      /\ AllNat(mUsed, Emails) /\ AllNat(repeated, Emails)
  BY DEF NInv, TypeOK, S!TypeOK, AllNat
<1>3. foreign \in Nat
  BY NodeAssumption DEF NInv, TypeOK
<1>4. HeldTotal \in Nat /\ PendingTotal \in Nat
  BY <1>1, FiniteKeys, SumNat DEF HeldTotal, PendingTotal
<1>5. CountedTotal \in Nat /\ DroppedTotal \in Nat
  BY <1>2, FiniteKeys, SumNat DEF CountedTotal, DroppedTotal
<1>6. UsedTotal \in Nat /\ RepeatTotal \in Nat
  BY <1>2, SetsAssumption, SumNat DEF UsedTotal, RepeatTotal
<1> QED
  BY <1>1, <1>2, <1>3, <1>4, <1>5, <1>6 DEF TotalsTyped, BalancesTyped

(* The bytes pending for all e-mails are all the pending bytes. *)
LEMMA PendingByEmail ==
    ASSUME NInv
    PROVE  /\ AllNat([e \in Emails |-> PendingOf(e)], Emails)
           /\ PendingTotal = SumFunctionOnSet([e \in Emails |-> PendingOf(e)], Emails)
<1> DEFINE class == [p \in PendingKeys |-> p[1]]
           part == [e \in Emails |-> {e} \X Nodes]
           g == [e \in Emails |-> PendingOf(e)]
<1>1. IsFiniteSet(PendingKeys) /\ IsFiniteSet(Emails) /\ AllNat(pending, PendingKeys)
  BY FiniteKeys, SetsAssumption, TotalsNat DEF BalancesTyped
<1>2. \A p \in PendingKeys : class[p] \in Emails
  BY DEF PendingKeys
<1>3. \A e \in Emails : /\ part[e] \subseteq PendingKeys
                        /\ \A p \in PendingKeys : p \in part[e] <=> class[p] = e
  BY DEF PendingKeys
<1>4. \A e \in Emails : g[e] = SumFunctionOnSet(pending, part[e])
  BY DEF PendingOf
<1> HIDE DEF class, part, g
<1>5. AllNat(g, Emails) /\ SumFunctionOnSet(pending, PendingKeys) = SumFunctionOnSet(g, Emails)
  BY <1>1, <1>2, <1>3, <1>4, SumByClass
<1> QED
  BY <1>5 DEF g, PendingTotal

(* Crediting the pending deltas adds all pending bytes to the books. *)
LEMMA CreditTotal ==
    ASSUME NInv, NEW f, AllNat(f, Emails), NEW h,
           \A e \in Emails : h[e] = f[e] + PendingOf(e)
    PROVE  SumFunctionOnSet(h, Emails) = SumFunctionOnSet(f, Emails) + PendingTotal
<1> DEFINE g == [e \in Emails |-> PendingOf(e)]
<1>1. AllNat(g, Emails) /\ PendingTotal = SumFunctionOnSet(g, Emails)
  BY PendingByEmail
<1>2. \A e \in Emails : h[e] = f[e] + g[e]
  OBVIOUS
<1> HIDE DEF g
<1> QED
  BY <1>1, <1>2, SetsAssumption, SumPlus

(* A drain takes every held byte, and either merges it or drops it. *)
LEMMA DrainTotal ==
    ASSUME NInv, SyncDrain
    PROVE  /\ HeldTotal' = 0
           /\ PendingTotal' + DroppedTotal' = PendingTotal + DroppedTotal + HeldTotal
           /\ DroppedTotal' >= DroppedTotal
           /\ PendingTotal' \in Nat /\ DroppedTotal' \in Nat
<1> DEFINE K == S!Keys
           D == S!Drained
           out == [k \in K |-> IF k \in D THEN S!Held(k) ELSE 0]
           off == [k \in K |-> IF k \in D THEN 0 ELSE S!Held(k)]
           new == [p \in PendingKeys |-> NewFor(S!Delta, p)]
           class == [k \in K |-> <<S!EmailAtDrain(k), k[2]>>]
           part == [p \in PendingKeys |-> DrainedFor(p)]
<1>0. TotalsTyped /\ BalancesTyped /\ S!TypeOK
  BY TotalsNat DEF NInv, TypeOK
<1>1. /\ IsFiniteSet(K) /\ IsFiniteSet(PendingKeys) /\ D \in SUBSET K
      /\ \A k \in K : S!Held(k) \in Nat /\ HeldBytes[k] = S!Held(k)
  BY <1>0, FiniteKeys, HeldNat, DeltaFacts
<1>2. /\ AllNat(out, K) /\ AllNat(off, K)
      /\ \A k \in K : HeldBytes[k] = out[k] + off[k]
      /\ \A k \in K \ D : out[k] = 0
      /\ \A k \in D : HeldBytes[k] = out[k]
  BY <1>1 DEF AllNat
<1>3. \A k \in K : dropped'[k] = dropped[k] + off[k]
  <2> SUFFICES ASSUME NEW k \in K PROVE dropped'[k] = dropped[k] + off[k]
    OBVIOUS
  <2>1. dropped[k] \in Nat
    BY <1>0 DEF S!TypeOK
  <2>2. CASE k \in D
    BY <2>1, <2>2 DEF SyncDrain, S!GetAndResetTraffic
  <2>3. CASE k \notin D
    <3>1. k \in DOMAIN userTraffic => userTraffic[k].bytes \in Nat
      BY <1>0 DEF S!TypeOK, S!IsMap, S!TrafficStat
    <3> QED
    BY <2>1, <2>3, <3>1 DEF SyncDrain, S!GetAndResetTraffic, S!Held
  <2> QED
    BY <2>2, <2>3
<1>4. \A k \in D : class[k] \in PendingKeys
  BY <1>0, <1>1, DeltaFacts
<1>5. \A p \in PendingKeys : /\ part[p] \subseteq D
                             /\ \A k \in D : k \in part[p] <=> class[k] = p
  BY <1>1 DEF DrainedFor
<1>6. \A p \in PendingKeys : new[p] = SumFunctionOnSet(HeldBytes, part[p])
  BY <1>0, NewForIs
<1>7. AllNat(new, PendingKeys)
  BY <1>0, NewForIs DEF AllNat
<1>8. \A p \in PendingKeys : pending'[p] = pending[p] + new[p]
  BY DEF SyncDrain, Merge
<1>9. \A k \in K : HeldBytes'[k] = 0
  BY DrainEmpties
<1>10. K' = K /\ PendingKeys' = PendingKeys
  BY DEF S!Keys, PendingKeys
<1> HIDE DEF K, D, out, off, new, class, part
<1>11. SumFunctionOnSet(HeldBytes, K) = SumFunctionOnSet(out, K) + SumFunctionOnSet(off, K)
  BY <1>1, <1>2, SumPlus
<1>12. /\ IsFiniteSet(D) /\ AllNat(out, D)
       /\ SumFunctionOnSet(out, K) = SumFunctionOnSet(out, D)
  BY <1>1, <1>2, SumNonzero
<1>13. AllNat(HeldBytes, D) /\ SumFunctionOnSet(HeldBytes, D) = SumFunctionOnSet(out, D)
  BY <1>2, <1>12, SumEqual DEF AllNat
<1>14. SumFunctionOnSet(HeldBytes, D) = SumFunctionOnSet(new, PendingKeys)
  BY <1>1, <1>4, <1>5, <1>6, <1>12, <1>13, SumByClass
<1>15. SumFunctionOnSet(pending', PendingKeys) = PendingTotal + SumFunctionOnSet(new, PendingKeys)
  BY <1>0, <1>1, <1>7, <1>8, SumPlus DEF PendingTotal, BalancesTyped
<1>16. SumFunctionOnSet(dropped', K) = SumFunctionOnSet(dropped, K) + SumFunctionOnSet(off, K)
  BY <1>0, <1>1, <1>2, <1>3, SumPlus DEF K, BalancesTyped
<1>17. SumFunctionOnSet(HeldBytes', K) = 0
  BY <1>1, <1>9, SumZero
<1>18. /\ SumFunctionOnSet(off, K) \in Nat /\ SumFunctionOnSet(new, PendingKeys) \in Nat
  BY <1>1, <1>2, <1>7, SumNat
<1>19. /\ HeldTotal = SumFunctionOnSet(HeldBytes, K) /\ HeldTotal' = SumFunctionOnSet(HeldBytes', K)
       /\ DroppedTotal = SumFunctionOnSet(dropped, K) /\ DroppedTotal' = SumFunctionOnSet(dropped', K)
       /\ PendingTotal' = SumFunctionOnSet(pending', PendingKeys)
  BY <1>10 DEF HeldTotal, DroppedTotal, PendingTotal, K
<1>20. HeldTotal \in Nat /\ PendingTotal \in Nat /\ DroppedTotal \in Nat
  BY <1>0 DEF TotalsTyped
<1> QED
  BY <1>11, <1>12, <1>13, <1>14, <1>15, <1>16, <1>17, <1>18, <1>19, <1>20

NodeHolds  == HeldTotal + PendingTotal
NodeSettled == UsedTotal - RepeatTotal - foreign

(* Steps of the ledger, in terms of the totals. *)
LEMMA LedgerMove ==
    ASSUME TotalsTyped, TotalsTyped', CountedTotal' = CountedTotal,
           NodeSettled' >= NodeSettled, DroppedTotal' >= DroppedTotal,
           NodeHolds' + NodeSettled' + DroppedTotal' = NodeHolds + NodeSettled + DroppedTotal
    PROVE  Ledger!Next
<1>1. NodeHolds' \in Nat
  BY DEF TotalsTyped, NodeHolds, HeldTotal, PendingTotal
<1>2. Ledger!Move
  BY <1>1 DEF Ledger!Move, Ledger!Balances, NodeHolds, NodeSettled, HeldTotal, PendingTotal,
     CountedTotal, DroppedTotal, UsedTotal, RepeatTotal, HeldBytes
<1> QED
  BY <1>2 DEF Ledger!Next

LEMMA LedgerRecord ==
    ASSUME TotalsTyped, TotalsTyped', NEW n \in Nat \ {0},
           CountedTotal' = CountedTotal + n, NodeHolds' = NodeHolds + n,
           NodeSettled' = NodeSettled, DroppedTotal' = DroppedTotal
    PROVE  Ledger!Next
<1>1. /\ NodeHolds' \in Nat /\ NodeHolds' > NodeHolds
      /\ CountedTotal' + NodeHolds = CountedTotal + NodeHolds'
  BY DEF TotalsTyped, NodeHolds, HeldTotal, PendingTotal, CountedTotal
<1>2. Ledger!Record("node")
  BY <1>1 DEF Ledger!Record, Ledger!Balances, NodeHolds, NodeSettled, HeldTotal, PendingTotal,
     CountedTotal, DroppedTotal, UsedTotal, RepeatTotal, HeldBytes
<1> QED
  BY <1>2 DEF Ledger!Next

(* A chunk is recorded once and held once. *)
LEMMA CountTotal ==
    ASSUME NInv, NInv', CountsBytes
    PROVE  \E n \in Nat \ {0} : HeldTotal' = HeldTotal + n /\ CountedTotal' = CountedTotal + n
<1>p. PICK key \in S!Keys, n \in Nat \ {0} : CountsBytes!(key, n)
  BY DEF CountsBytes
<1>0. TotalsTyped /\ BalancesTyped /\ S!TypeOK /\ IsFiniteSet(S!Keys)
  BY TotalsNat, FiniteKeys DEF NInv, TypeOK
<1>1. /\ \A k \in S!Keys : HeldBytes[k] = S!Held(k) /\ S!Held(k) \in Nat
      /\ \A k \in S!Keys : HeldBytes'[k] = S!Held(k)'
  BY <1>0, HeldNat DEF HeldBytes
<1>2. SumFunctionOnSet(HeldBytes', S!Keys) + HeldBytes[key]
        = SumFunctionOnSet(HeldBytes, S!Keys) + HeldBytes'[key]
  <2>1. HeldBytes'[key] \in Nat /\ \A k \in S!Keys \ {key} : HeldBytes'[k] = HeldBytes[k]
    BY <1>p, <1>1
  <2> QED
    BY <1>0, <2>1, SumUpdate DEF BalancesTyped
<1>3. /\ counted[key] \in Nat /\ counted'[key] = counted[key] + n /\ counted'[key] \in Nat
      /\ \A k \in S!Keys \ {key} : counted'[k] = counted[k]
  BY <1>p, <1>0 DEF S!TypeOK
<1>4. SumFunctionOnSet(counted', S!Keys) + counted[key]
        = SumFunctionOnSet(counted, S!Keys) + counted'[key]
  BY <1>0, <1>3, SumUpdate DEF BalancesTyped
<1>5. HeldTotal \in Nat /\ CountedTotal \in Nat /\ HeldTotal' \in Nat /\ CountedTotal' \in Nat
  <2>1. (NInv => TotalsTyped /\ BalancesTyped)'
    BY TotalsNat, PTL
  <2> QED BY <1>0, <2>1 DEF TotalsTyped
<1>6. S!Keys' = S!Keys
  BY DEF S!Keys
<1>7. /\ HeldTotal' = SumFunctionOnSet(HeldBytes', S!Keys)
      /\ CountedTotal' = SumFunctionOnSet(counted', S!Keys)
      /\ HeldTotal = SumFunctionOnSet(HeldBytes, S!Keys)
      /\ CountedTotal = SumFunctionOnSet(counted, S!Keys)
  BY <1>6 DEF HeldTotal, CountedTotal
<1>8. HeldTotal' = HeldTotal + n
  <2>1. /\ S!Held(key) \in Nat /\ HeldBytes[key] = S!Held(key)
        /\ HeldBytes'[key] = S!Held(key) + n
    BY <1>p, <1>1
  <2>2. SumFunctionOnSet(HeldBytes', S!Keys) = SumFunctionOnSet(HeldBytes, S!Keys) + n
    <3>1. /\ SumFunctionOnSet(HeldBytes', S!Keys) \in Nat
          /\ SumFunctionOnSet(HeldBytes, S!Keys) \in Nat
      BY <1>5, <1>7
    <3> QED BY <1>2, <2>1, <3>1
  <2> QED BY <1>7, <2>2
<1>9. CountedTotal' = CountedTotal + n
  BY <1>3, <1>4, <1>5, <1>7 DEF CountedTotal
<1> QED
  BY <1>8, <1>9

(* A total changes only with the variables it is made of. *)
LEMMA TotalsKept ==
    /\ userTraffic' = userTraffic => HeldTotal' = HeldTotal
    /\ pending' = pending => PendingTotal' = PendingTotal
    /\ counted' = counted => CountedTotal' = CountedTotal
    /\ dropped' = dropped => DroppedTotal' = DroppedTotal
    /\ UNCHANGED <<mUsed, repeated, foreign>> => NodeSettled' = NodeSettled
BY DEF HeldTotal, HeldBytes, S!Held, S!Keys, PendingTotal, PendingKeys, CountedTotal,
   DroppedTotal, NodeSettled, UsedTotal, RepeatTotal

LEMMA LedgerStep == NInv /\ [Next]_vars => Ledger!Next
<1> SUFFICES ASSUME NInv, [Next]_vars PROVE Ledger!Next
  OBVIOUS
<1>0. NInv' /\ TotalsTyped /\ TotalsTyped' /\ BalancesTyped
  <2>1. (NInv => TotalsTyped /\ BalancesTyped)'
    BY TotalsNat, PTL
  <2> QED BY <2>1, TotalsNat, NInvStep
<1>1. /\ HeldTotal \in Nat /\ PendingTotal \in Nat /\ DroppedTotal \in Nat
      /\ NodeSettled \in Int
      /\ NodeHolds = HeldTotal + PendingTotal /\ NodeHolds' = HeldTotal' + PendingTotal'
  BY <1>0 DEF TotalsTyped, NodeSettled, NodeHolds
<1>2. CASE CountsBytes
  <2>1. PICK n \in Nat \ {0} : HeldTotal' = HeldTotal + n /\ CountedTotal' = CountedTotal + n
    BY <1>0, <1>2, CountTotal
  <2>2. PendingTotal' = PendingTotal /\ DroppedTotal' = DroppedTotal /\ NodeSettled' = NodeSettled
    BY <1>2, TotalsKept DEF CountsBytes, manager
  <2> QED
    BY <1>0, <1>1, <2>1, <2>2, LedgerRecord
<1>3. CASE MovesNothing
  <2>1. /\ HeldTotal' = HeldTotal /\ PendingTotal' = PendingTotal
        /\ CountedTotal' = CountedTotal /\ DroppedTotal' = DroppedTotal
    BY <1>3, TotalsKept DEF MovesNothing
  <2>2. NodeSettled' = NodeSettled
    <3>0. AllNat(mUsed, Emails) /\ AllNat(repeated, Emails) /\ mUsed \in [Emails -> Nat]
          /\ UsedTotal \in Nat /\ RepeatTotal \in Nat /\ foreign \in Nat
      BY <1>0 DEF TotalsTyped, BalancesTyped, NInv, TypeOK
    <3>1. CASE UNCHANGED <<mUsed, foreign, repeated>>
      BY <3>1, TotalsKept
    <3>2. ASSUME NEW e \in Emails, foreign' = foreign + 1,
                 mUsed' = [mUsed EXCEPT ![e] = @ + 1], UNCHANGED repeated
          PROVE  NodeSettled' = NodeSettled
      <4>1. /\ mUsed[e] \in Nat /\ mUsed'[e] = mUsed[e] + 1
            /\ \A x \in Emails \ {e} : mUsed'[x] = mUsed[x]
        BY <3>0, <3>2
      <4>2. SumFunctionOnSet(mUsed', Emails) + mUsed[e] = SumFunctionOnSet(mUsed, Emails) + mUsed'[e]
        BY <3>0, <4>1, SetsAssumption, SumUpdate
      <4>3. UsedTotal' \in Nat
        BY <1>0 DEF TotalsTyped
      <4>4. UsedTotal' = UsedTotal + 1
        BY <3>0, <4>1, <4>2, <4>3 DEF UsedTotal
      <4>5. RepeatTotal' = RepeatTotal
        BY <3>2 DEF RepeatTotal
      <4> QED
        BY <3>0, <3>2, <4>4, <4>5 DEF NodeSettled
    <3>3. CASE /\ Credit
               /\ repeated' = [e \in Emails |-> repeated[e] + PendingOf(e)]
               /\ UNCHANGED foreign
      <4>1. /\ \A e \in Emails : mUsed'[e] = mUsed[e] + PendingOf(e)
            /\ \A e \in Emails : repeated'[e] = repeated[e] + PendingOf(e)
        BY <3>3 DEF Credit
      <4>2. UsedTotal' = UsedTotal + PendingTotal
        BY <3>0, <4>1, CreditTotal DEF UsedTotal
      <4>3. RepeatTotal' = RepeatTotal + PendingTotal
        BY <3>0, <4>1, CreditTotal DEF RepeatTotal
      <4> QED
        BY <1>1, <3>0, <3>3, <4>2, <4>3 DEF NodeSettled
    <3> QED
      BY <1>3, <3>1, <3>2, <3>3 DEF MovesNothing
  <2> QED
    BY <1>0, <1>1, <2>1, <2>2, LedgerMove
<1>4. CASE ReplacesUsers
  <2>1. UNCHANGED <<userTraffic, pending, counted, dropped, mUsed, repeated, foreign>>
    BY <1>4 DEF ReplacesUsers, S!UpdateUsers, S!history, manager
  <2> QED
    BY <1>0, <1>1, <2>1, TotalsKept, LedgerMove
<1>5. CASE SyncDrain
  <2>1. UNCHANGED <<counted, mUsed, repeated, foreign>>
    BY <1>5 DEF SyncDrain, S!GetAndResetTraffic, manager
  <2>2. CountedTotal' = CountedTotal /\ NodeSettled' = NodeSettled
    BY <2>1, TotalsKept
  <2>3. /\ DroppedTotal' >= DroppedTotal
        /\ NodeHolds' + NodeSettled' + DroppedTotal' = NodeHolds + NodeSettled + DroppedTotal
    <3>1. /\ HeldTotal' = 0
          /\ PendingTotal' + DroppedTotal' = PendingTotal + DroppedTotal + HeldTotal
          /\ DroppedTotal' >= DroppedTotal
          /\ PendingTotal' \in Nat /\ DroppedTotal' \in Nat
      BY <1>5, DrainTotal
    <3> QED
      BY <1>1, <2>2, <3>1
      DEF HeldTotal, PendingTotal, DroppedTotal, NodeHolds, NodeSettled, UsedTotal, RepeatTotal
  <2>4. NodeSettled' >= NodeSettled
    BY <1>1, <2>2
  <2> QED
    BY <1>0, <2>2, <2>3, <2>4, LedgerMove
<1>6. CASE ReportSucceeds
  <2>1. /\ UNCHANGED <<userTraffic, counted, dropped, repeated, foreign>>
        /\ \A e \in Emails : mUsed'[e] = mUsed[e] + PendingOf(e)
        /\ \A p \in PendingKeys : pending'[p] = 0
    BY <1>6 DEF ReportSucceeds, server, Credit, ClearPending
  <2>2. UsedTotal' = UsedTotal + PendingTotal
    BY <1>0, <2>1, CreditTotal DEF UsedTotal, BalancesTyped
  <2>3. PendingTotal' = 0
    <3>1. SumFunctionOnSet(pending', PendingKeys) = 0
      BY <2>1, FiniteKeys, SumZero
    <3>2. PendingKeys' = PendingKeys
      BY DEF PendingKeys
    <3> QED BY <3>1, <3>2 DEF PendingTotal
  <2>4. RepeatTotal' = RepeatTotal /\ foreign' = foreign
    BY <2>1 DEF RepeatTotal
  <2>5. NodeSettled' = NodeSettled + PendingTotal
    BY <1>0, <2>2, <2>4 DEF NodeSettled, TotalsTyped
  <2>6. HeldTotal' = HeldTotal /\ CountedTotal' = CountedTotal /\ DroppedTotal' = DroppedTotal
    BY <2>1, TotalsKept
  <2>7. /\ NodeSettled' >= NodeSettled
        /\ DroppedTotal' >= DroppedTotal
        /\ NodeHolds' + NodeSettled' + DroppedTotal' = NodeHolds + NodeSettled + DroppedTotal
    BY <1>1, <2>3, <2>5, <2>6
  <2> QED
    BY <1>0, <2>6, <2>7, LedgerMove
<1>7. CASE UsageApplied
  <2>1. UNCHANGED <<userTraffic, pending, counted, dropped, mUsed, repeated, foreign>>
    BY <1>7 DEF UsageApplied, S!ApplyUsage, manager
  <2> QED
    BY <1>0, <1>1, <2>1, TotalsKept, LedgerMove
<1> QED
  BY <1>2, <1>3, <1>4, <1>5, <1>6, <1>7, NodeSteps

LEMMA LedgerInit == Init => Ledger!Init
<1> SUFFICES ASSUME Init PROVE Ledger!Init
  OBVIOUS
<1>1. /\ \A k \in S!Keys : counted[k] = 0 /\ dropped[k] = 0 /\ HeldBytes[k] = 0
      /\ \A p \in PendingKeys : pending[p] = 0
      /\ \A e \in Emails : mUsed[e] = 0 /\ repeated[e] = 0
      /\ foreign = 0
  BY DEF Init, S!Init, S!Empty, HeldBytes, S!Held
<1>2. HeldTotal = 0 /\ CountedTotal = 0 /\ DroppedTotal = 0
  BY <1>1, FiniteKeys, SumZero DEF HeldTotal, CountedTotal, DroppedTotal
<1>3. PendingTotal = 0 /\ UsedTotal = 0 /\ RepeatTotal = 0
  BY <1>1, FiniteKeys, SetsAssumption, SumZero DEF PendingTotal, UsedTotal, RepeatTotal
<1>4. HeldTotal + PendingTotal = 0 /\ UsedTotal - RepeatTotal - foreign = 0
  BY <1>1, <1>2, <1>3
<1> QED
  BY <1>2, <1>4 DEF Ledger!Init, HeldTotal, PendingTotal, CountedTotal, DroppedTotal,
     UsedTotal, RepeatTotal, HeldBytes

(* From addTraffic to the manager's books no byte is lost or invented:      *)
(* every step of the node, whatever fails, is a step of the ledger.         *)
THEOREM NodeLedgerRefined == Spec => ImplementsLedger
<1>1. NInv /\ [Next]_vars => [Ledger!Next]_(Ledger!vars)
  BY LedgerStep
<1> QED
  BY <1>1, NInvInit, NInvStep, LedgerInit, PTL DEF Spec, ImplementsLedger, Ledger!Spec

-----------------------------------------------------------------------------
(* The server inside the node *)

ServerInvariants ==
    /\ S!IndexExact
    /\ S!RevocationReachesTracked
    /\ S!LocalCutDisconnects
    /\ S!CutIffExhausted
    /\ S!TrafficConserved

LEMMA ServerInvariantsAre == SP!IInv => ServerInvariants
<1> SUFFICES ASSUME SP!IInv PROVE ServerInvariants
  OBVIOUS
<1>1. S!IndexExact
  BY DEF SP!IInv, SP!IndexExact, S!IndexExact, SP!Registered, S!Registered
<1>2. S!RevocationReachesTracked
  BY DEF SP!IInv, SP!RevocationReachesTracked, S!RevocationReachesTracked, SP!Registered,
     S!Registered
<1>3. S!LocalCutDisconnects
  BY DEF SP!IInv, SP!LocalCutDisconnects, S!LocalCutDisconnects, SP!Registered,
     S!Registered, SP!OverQuota, S!OverQuota
<1>4. S!CutIffExhausted
  BY DEF SP!IInv, SP!CutIffExhausted, S!CutIffExhausted
<1>5. S!TrafficConserved
  BY DEF SP!IInv, SP!TrafficConserved, S!TrafficConserved, SP!Held, S!Held, SP!Keys, S!Keys
<1> QED
  BY <1>1, <1>2, <1>3, <1>4, <1>5 DEF ServerInvariants

(* Driven by the control loop, with the lists and caps a manager really     *)
(* serves, the server keeps all the invariants it keeps on its own.         *)
THEOREM ServerKeepsInvariants == Spec => []ServerInvariants
<1>1. Init => SP!IInv
  <2>1. S!Init => SP!Init
    BY DEF S!Init, SP!Init, S!Empty, SP!Empty, S!Dirs, SP!Dirs, S!Keys, SP!Keys
  <2>2. SP!Init => SP!IInv
    BY SetsAssumption, ListsAreMaps, FiniteSetsOfServer, SP!InitIInv
  <2> QED
    BY <2>1, <2>2 DEF Init
<1>2. NInv /\ SP!IInv /\ [Next]_vars => SP!IInv'
  <2>1. SP!IInv /\ [SP!Next]_(SP!vars) => SP!IInv'
    BY SetsAssumption, ListsAreMaps, FiniteSetsOfServer, SP!StepIInv
  <2>2. UNCHANGED server => UNCHANGED SP!vars
    BY DEF server, SP!vars, SP!serverVars, SP!connVars, SP!history
  <2> QED
    BY <2>1, <2>2, ServerMoves, ServerStepIs DEF NInv
<1> QED
  BY <1>1, <1>2, NInvInit, NInvStep, ServerInvariantsAre, PTL DEF Spec
=============================================================================
