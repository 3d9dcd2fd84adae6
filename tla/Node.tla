-------------------------------- MODULE Node --------------------------------
(***************************************************************************)
(* A node: the control loop (src/cmd/root.go: run, sync, applyUsage), its  *)
(* HTTP client (src/api/client.go) and the VLESS server of VlessServer,    *)
(* against a manager that is modelled from how the client uses it: it      *)
(* serves a configuration, the users with quota left, and usage rows, adds *)
(* up what is reported, and its ETags identify the content.                *)
(*                                                                         *)
(* A request and the use of its answer are one step: what the manager does *)
(* between the two commutes with the use, and what the server does between *)
(* the two is not seen by the manager.  What Server.UpdateConfig does with *)
(* a configuration is the subject of module Listener; here it is a value.  *)
(***************************************************************************)
EXTENDS Integers, FiniteSets, FiniteSetsExt, Functions

CONSTANTS
    Uuids, Emails, Nodes, Conns, Chunks, NoUuid, NoEmail, UserLists, UsageLists,
    MaxMoved,
    NodeConfigs, \* configurations the manager may serve
    Quotas,      \* caps the administrator may set, -1 = unlimited
    NoTag,       \* no ETag stored yet
    RetryCount,  \* retries of a request after the first attempt
    MaxFaults,   \* bound on failed or refused requests and lost answers
    MaxForeign,  \* bound on the bytes other nodes report
    BadBodies    \* may a 200 answer fail to decode?

ASSUME NodeAssumption ==
    /\ RetryCount \in Nat /\ MaxFaults \in Nat /\ MaxForeign \in Nat
    /\ Quotas \subseteq Int
    /\ BadBodies \in BOOLEAN
ASSUME SetsAssumption ==
    /\ NoUuid \notin Uuids /\ NoEmail \notin Emails
    /\ Chunks \subseteq Nat \ {0} /\ Chunks # {} /\ IsFiniteSet(Chunks)
    /\ IsFiniteSet(Conns) /\ IsFiniteSet(Uuids) /\ IsFiniteSet(Emails)
    /\ IsFiniteSet(Nodes)
    /\ \A l \in UserLists : DOMAIN l \subseteq Uuids /\ l \in [DOMAIN l -> Emails]

\* The manager has some list in which the user u has the e-mail e.
Known(u, e) == \E l \in UserLists : u \in DOMAIN l /\ l[u] = e

\* The e-mail, by which traffic is reported and usage looked up, identifies a
\* user: an id is never renamed, and an e-mail never moves to another id.
ASSUME NeverRenamed ==
    \A u \in Uuids, e, f \in Emails : Known(u, e) /\ Known(u, f) => e = f
ASSUME NeverShared ==
    \A u, v \in Uuids, e \in Emails : Known(u, e) /\ Known(v, e) => u = v

VARIABLES
    users, userConns, userTraffic, userQuota, pc, who, entry, open, buf, moved,
    counted, returned, dropped, missedRevoke, missedCut, \* see VlessServer
    spc,      \* where the control loop is
    started,  \* has run launched server.Start?
    attempt,  \* retries of ReportTraffic made so far
    etag,     \* configETag and usersETag
    config,   \* the configuration handed to UpdateConfig last
    pending,  \* pendingTraffic: bytes per e-mail and entry node, 0 = no entry
    mConfig, mList, mQuota, mUsed, \* the manager's configuration, enabled
                                   \* users, caps and used bytes
    faults,   \* faults so far
    foreign,  \* bytes other nodes have reported
    repeated, \* history: bytes of ours the manager credited without our
              \* seeing the acknowledgement
    overlooked, \* history: bytes waiting in the user's stats when the current
                \* snapshot was applied
    misled    \* history: resources whose stored ETag belongs to a body that
              \* did not decode

server == <<users, userConns, userTraffic, userQuota, pc, who, entry, open, buf,
            moved, counted, returned, dropped, missedRevoke, missedCut>>
manager == <<mConfig, mList, mQuota, mUsed>>
vars == <<server, manager, spc, started, attempt, etag, config, pending, faults,
          foreign, repeated, overlooked, misled>>

S == INSTANCE VlessServer

Resources == {"config", "users"}
PendingKeys == Emails \X Nodes

\* The control loop's and the manager's variables have their types.
TypeOK ==
    /\ S!TypeOK
    /\ spc \in {"idle", "config", "users", "drain", "report", "usage"}
    /\ attempt \in 0..RetryCount
    /\ DOMAIN etag = Resources
    /\ config \in NodeConfigs \cup {NoTag}
    /\ pending \in [PendingKeys -> Nat]
    /\ mConfig \in NodeConfigs
    /\ mList \in UserLists
    /\ mQuota \in [Emails -> Quotas]
    /\ mUsed \in [Emails -> Nat]
    /\ faults \in 0..MaxFaults
    /\ foreign \in 0..MaxForeign
    /\ repeated \in [Emails -> Nat]
    /\ overlooked \in [Uuids -> Nat]
    /\ started \in BOOLEAN
    /\ misled \in SUBSET Resources

\* run: a fresh client and server, before the initial sync.
Init ==
    /\ S!Init
    /\ spc = "config"
    /\ attempt = 0
    /\ etag = [r \in Resources |-> NoTag]
    /\ config = NoTag
    /\ pending = [k \in PendingKeys |-> 0]
    /\ mConfig \in NodeConfigs
    /\ mList \in UserLists
    /\ mQuota \in [Emails -> Quotas]
    /\ mUsed = [e \in Emails |-> 0]
    /\ faults = 0
    /\ foreign = 0
    /\ repeated = [e \in Emails |-> 0]
    /\ overlooked = [u \in Uuids |-> 0]
    /\ started = FALSE
    /\ misled = {}

-----------------------------------------------------------------------------
(* The manager (external)                                                  *)

\* /users leaves out the users that have used up their cap.
ServedUsers ==
    Restrict(mList, {u \in DOMAIN mList :
        mQuota[mList[u]] < 0 \/ mUsed[mList[u]] < mQuota[mList[u]]})

ServedUsage ==
    [e \in Range(mList) |-> [quota |-> mQuota[e], used |-> mUsed[e]]]

\* The administrator edits the configuration, the users or a cap.
AdminEdits ==
    /\ \/ mConfig' \in NodeConfigs /\ UNCHANGED <<mList, mQuota>>
       \/ mList' \in UserLists /\ UNCHANGED <<mConfig, mQuota>>
       \/ \E e \in Emails, q \in Quotas : mQuota' = [mQuota EXCEPT ![e] = q]
          /\ UNCHANGED <<mConfig, mList>>
    /\ UNCHANGED <<server, started, mUsed, spc, attempt, etag, config, pending,
                   faults, foreign, repeated, overlooked, misled>>

\* Another node reports traffic of the user.
OtherNodeReports(e) ==
    /\ foreign < MaxForeign
    /\ foreign' = foreign + 1
    /\ mUsed' = [mUsed EXCEPT ![e] = @ + 1]
    /\ UNCHANGED <<server, started, mConfig, mList, mQuota, spc, attempt, etag,
                   config, pending, faults, repeated, overlooked, misled>>

-----------------------------------------------------------------------------
(* The server, driven by its clients                                       *)

\* Bytes of user u waiting in the stats for the next drain.
Waiting(u) == SumFunctionOnSet([k \in S!Keys |-> S!Held(k)], {u} \X Nodes)

ConnStep(c) ==
    /\ started
    /\ S!ClientStep(c) \/ S!HandlerStep(c)
    /\ UNCHANGED <<manager, spc, started, attempt, etag, config, pending,
                   faults, foreign, repeated, overlooked, misled>>

-----------------------------------------------------------------------------
(* The control loop                                                        *)

\* After the initial sync run launches Start; only then are there clients.
StartServer ==
    /\ spc = "idle"
    /\ ~started
    /\ started' = TRUE
    /\ UNCHANGED <<server, manager, spc, attempt, etag, config, pending, faults,
                   foreign, repeated, overlooked, misled>>

\* The ticker of run fires.
Tick ==
    /\ spc = "idle"
    /\ started
    /\ spc' = "config"
    /\ UNCHANGED <<server, started, manager, attempt, etag, config, pending,
                   faults, foreign, repeated, overlooked, misled>>

Fault == faults < MaxFaults /\ faults' = faults + 1

\* Mutated form: the tag of a failed answer is stored.
FetchFailsTagged(r, served) == Fault /\ etag' = [etag EXCEPT ![r] = served]

FetchFails(r, served) == Fault /\ UNCHANGED etag

\* A conditional GET of resource r, whose content at the manager is served,
\* brings nothing to apply: it fails after its retries, or is answered 304, or
\* 200 with a body that does not decode.  The ETag is stored before the body
\* is decoded, so the last case leaves the new tag with the old content.
NotPulled(r, served) ==
    \/ FetchFails(r, served) /\ UNCHANGED misled
    \/ etag[r] = served /\ UNCHANGED <<etag, faults, misled>>
    \/ /\ etag[r] # served
       /\ BadBodies
       /\ Fault
       /\ etag' = [etag EXCEPT ![r] = served]
       /\ misled' = misled \cup {r}

\* It is answered 200 with a body the caller will apply.
Pulled(r, served) ==
    /\ etag[r] # served
    /\ etag' = [etag EXCEPT ![r] = served]
    /\ misled' = misled \ {r}
    /\ UNCHANGED faults

\* client.FetchConfig, then server.UpdateConfig
SyncConfig ==
    /\ spc = "config"
    /\ \/ Pulled("config", mConfig) /\ config' = mConfig
       \/ NotPulled("config", mConfig) /\ UNCHANGED config
    /\ spc' = "users"
    /\ UNCHANGED <<server, started, manager, attempt, pending, foreign,
                   repeated, overlooked>>

\* client.FetchUsers, then server.UpdateUsers
SyncUsers ==
    /\ spc = "users"
    /\ \/ Pulled("users", ServedUsers) /\ S!UpdateUsers(ServedUsers)
       \/ NotPulled("users", ServedUsers) /\ UNCHANGED server
    /\ spc' = "drain"
    /\ UNCHANGED <<manager, started, attempt, config, pending, foreign,
                   repeated, overlooked>>

\* The bytes of the deltas for the entry p of pendingTraffic.
NewFor(delta, p) ==
    SumFunctionOnSet([k \in DOMAIN delta |-> delta[k].bytes],
                     {k \in DOMAIN delta : <<delta[k].email, k[2]>> = p})

\* Mutated form: a delta replaces what is pending for its entry.
MergeReplaces(delta) ==
    [p \in PendingKeys |->
        IF NewFor(delta, p) = 0 THEN pending[p] ELSE NewFor(delta, p)]

Merge(delta) == [p \in PendingKeys |-> pending[p] + NewFor(delta, p)]

\* Mutated form: only new deltas are worth a report.
NewDeltas == DOMAIN S!Delta # {}

\* len(pendingTraffic) > 0, after the merge
SomethingPending == \E p \in PendingKeys : pending'[p] > 0

\* GetAndResetTraffic, merged into pendingTraffic.  With nothing to report
\* the quota snapshots are refreshed at once.
SyncDrain ==
    /\ spc = "drain"
    /\ S!GetAndResetTraffic
    /\ pending' = Merge(S!Delta)
    /\ spc' = IF SomethingPending THEN "report" ELSE "usage"
    /\ attempt' = 0
    /\ UNCHANGED <<manager, started, etag, config, faults, foreign, repeated,
                   overlooked, misled>>

PendingOf(e) == SumFunctionOnSet(pending, {e} \X Nodes)

\* The manager adds the reported deltas to the users' totals.
Credit == mUsed' = [e \in Emails |-> mUsed[e] + PendingOf(e)]

ClearPending == pending' = [p \in PendingKeys |-> 0]

ReportSucceeds ==
    /\ spc = "report"
    /\ Credit
    /\ ClearPending
    /\ spc' = "usage"
    /\ UNCHANGED <<server, started, mConfig, mList, mQuota, attempt, etag,
                   config, faults, foreign, repeated, overlooked, misled>>

\* Mutated form: applyUsage is called after a failed report as well.
UsageAnyway == "usage"

\* Where the cycle goes after a failed report: it ends, without applyUsage.
AfterFailedReport == "idle"

\* The attempt counts as failed: retry, or keep the deltas for the next cycle.
GiveUp ==
    /\ attempt = RetryCount
    /\ spc' = AfterFailedReport
    /\ attempt' = 0
    /\ UNCHANGED pending

RetryOrGiveUp ==
    \/ attempt < RetryCount /\ attempt' = attempt + 1 /\ UNCHANGED <<spc, pending>>
    \/ GiveUp

\* The request does not reach the manager, or is answered 429 or 5xx.
RequestLost ==
    /\ spc = "report"
    /\ Fault
    /\ RetryOrGiveUp
    /\ UNCHANGED <<server, started, manager, etag, config, foreign, repeated,
                   overlooked, misled>>

\* The manager has credited the deltas and the answer is lost.
ReplyLost ==
    /\ spc = "report"
    /\ Fault
    /\ Credit
    /\ repeated' = [e \in Emails |-> repeated[e] + PendingOf(e)]
    /\ RetryOrGiveUp
    /\ UNCHANGED <<server, started, mConfig, mList, mQuota, etag, config,
                   foreign, overlooked, misled>>

\* A status that is not retried: the deltas stay for the next cycle.
ReportRefused ==
    /\ spc = "report"
    /\ Fault
    /\ spc' = AfterFailedReport
    /\ attempt' = 0
    /\ UNCHANGED <<server, started, manager, etag, config, pending, foreign,
                   repeated, overlooked, misled>>

\* applyUsage: FetchUsage, then ApplyUsage.
UsageApplied ==
    /\ spc = "usage"
    /\ \E p \in S!EmailUuids : S!ApplyUsage(ServedUsage, p)
    /\ overlooked' = [u \in Uuids |-> Waiting(u)]
    /\ spc' = "idle"
    /\ UNCHANGED <<manager, started, attempt, etag, config, pending, faults,
                   foreign, repeated, misled>>

\* The request fails, or the manager has no /usage: the snapshots stay.
UsageUnavailable ==
    /\ spc = "usage"
    /\ Fault
    /\ spc' = "idle"
    /\ UNCHANGED <<server, started, manager, attempt, etag, config, pending,
                   foreign, repeated, overlooked, misled>>

SyncStep ==
    \/ StartServer \/ Tick \/ SyncConfig \/ SyncUsers \/ SyncDrain
    \/ ReportSucceeds \/ RequestLost \/ ReplyLost \/ ReportRefused
    \/ UsageApplied \/ UsageUnavailable

Next ==
    \/ AdminEdits
    \/ \E e \in Emails : OtherNodeReports(e)
    \/ \E c \in Conns : ConnStep(c)
    \/ SyncStep

Spec == Init /\ [][Next]_vars

GoesOn(c) == S!GoesOn(c) /\ ConnStep(c)

\* The ticker keeps firing and every request ends, and the scheduler runs
\* every handler that can go on.
FairSpec ==
    /\ Spec
    /\ WF_vars(SyncStep)
    /\ \A c \in Conns : WF_vars(GoesOn(c))

-----------------------------------------------------------------------------
(* Properties                                                              *)

Ledger == INSTANCE TrafficLedger WITH
    Accounts <- {"node"},
    recorded <- [a \in {"node"} |-> SumFunctionOnSet(counted, S!Keys)],
    held     <- [a \in {"node"} |->
                    SumFunctionOnSet([k \in S!Keys |-> S!Held(k)], S!Keys)
                    + SumFunctionOnSet(pending, PendingKeys)],
    settled  <- [a \in {"node"} |-> SumFunctionOnSet(mUsed, Emails)
                    - SumFunctionOnSet(repeated, Emails) - foreign],
    lost     <- [a \in {"node"} |-> SumFunctionOnSet(dropped, S!Keys)]

\* End to end and step by step, from addTraffic to the manager's books, no byte
\* is lost or invented: draining, merging, reporting, retrying and giving up
\* only ever move bytes on, and what is settled stays settled; the books exceed
\* that only by what the manager credited without our seeing the answer and by
\* other nodes' bytes.
ImplementsLedger == Ledger!Spec

\* Bytes of u this node has counted and the manager has not acknowledged.
Unreported(u) == PendingOf(users[u]) + Waiting(u)

\* Local enforcement never charges a byte twice: what a snapshot and the
\* accrual on top of it hold against a user is covered by bytes the manager
\* has booked, is about to be told, or that wait in the user's stats.
NoDoubleCharge ==
    \A u \in DOMAIN userQuota :
        userQuota[u].base + userQuota[u].accrual
            <= mUsed[users[u]] + Unreported(u)

\* Enforcement overlooks only the bytes counted between a drain and the
\* snapshot that follows it: every other unreported byte of a capped user is
\* in the accrual, because applyUsage only runs when nothing is pending.
OnlyWindowOverlooked ==
    \A u \in DOMAIN userQuota :
        userQuota[u].quota >= 0
            => Unreported(u) <= userQuota[u].accrual + overlooked[u]

\* The administrator stops editing.
Quiet == <>[][~AdminEdits]_vars

\* Once the administrator stops editing, the node ends up with the manager's
\* configuration and user set, and every connection that survives belongs to
\* a user the manager still serves, or had slipped past a revocation.  The
\* exception is a resource whose last body did not decode.
NodeFollowsManager ==
    Quiet => <>[](/\ config = mConfig \/ "config" \in misled
                  /\ \/ "users" \in misled
                     \/ /\ users = ServedUsers
                        /\ \A c \in Conns :
                             S!Registered(c) /\ open[c]
                                 => \/ who[c] \in DOMAIN ServedUsers
                                    \/ c \in missedRevoke)

\* All counted traffic is eventually drained and reported: failed reports are
\* retried until the manager has the deltas.
TrafficEventuallyReported ==
    <>[](/\ \A p \in PendingKeys : pending[p] = 0
         /\ \A k \in DOMAIN userTraffic : userTraffic[k].bytes = 0)
=============================================================================
