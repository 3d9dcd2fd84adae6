----------------------------- MODULE RateLimit ------------------------------
(***************************************************************************)
(* Speed limits (src/proxy/vless/ratelimit.go and the bucket handling of   *)
(* UpdateConfig in server.go and UpdateUsers in user.go).                  *)
(*                                                                         *)
(* Upload and download have buckets of their own that never meet, and one  *)
(* call of applyLimits is about one of them, so one direction is modelled. *)
(* A scope is what a bucket limits: the whole node or one user.  A bucket  *)
(* is an object that a reload may replace while a chunk still waits on it, *)
(* so a pointer is a generation of its scope.  Time is a Tick in which a   *)
(* bucket gains its rate in tokens.                                        *)
(***************************************************************************)
EXTENDS Integers, FiniteSets, FiniteSetsExt

CONSTANTS
    Users,      \* users a limit may be set for
    Conns,      \* running connections
    Node,       \* the scope of the global limiter
    Rates,      \* speed limits the manager may send; 0 or less = unlimited
    Chunks,     \* sizes of one read or write
    MinBurst, MaxBurst,  \* the clamp of newBucket
    Nil,        \* no bucket
    MaxReloads  \* bound on configurations and user lists applied

Scopes == Users \cup {Node}
Gens   == 1..(Cardinality(Conns) + 2)   \* one per holder, and a fresh one

ASSUME RateAssumption ==
    /\ Node \notin Users /\ Nil \notin Nat
    /\ IsFiniteSet(Conns)
    /\ 0 \in Rates /\ Rates \subseteq Int
    /\ MinBurst \in Nat /\ MaxBurst \in Nat /\ MinBurst <= MaxBurst
    /\ MaxReloads \in Nat

\* "Reads/writes are <= ~32KiB, well under the 1MiB burst floor"
ASSUME ChunkAssumption == Chunks # {} /\ Chunks \subseteq 1..MinBurst

VARIABLES
    owner,   \* the user of a connection
    limit,   \* the speed limit the last configuration or user list gives
    cur,     \* globalULimiter and userULimiters: generation, or Nil
    bucket,  \* the bucket a generation of a scope points to
    stage,   \* where a connection is in applyLimits
    n,       \* the size of its chunk
    snap,    \* the bucket pointers it copied under the read lock
    debt,    \* tokens its reservation still lacks: WaitN sleeps while > 0
    room,    \* history: what a scope may still pass under its limit
    reloads  \* reloads so far (only to bound the model)

limits == <<owner, limit, cur>>
rateVars   == <<limits, bucket, stage, n, snap, debt, room, reloads>>

Stages == {"io", "askNode", "sleepNode", "askUser", "sleepUser"}
Bucket == [rate : Int, burst : 0..MaxBurst, tokens : Int]
NoBucket == [rate |-> 0, burst |-> 0, tokens |-> 0]

\* Pointers, buckets and histories have their types.
RateTypeOK ==
    /\ owner \in [Conns -> Users]
    /\ limit \in [Scopes -> Rates]
    /\ cur \in [Scopes -> Gens \cup {Nil}]
    /\ bucket \in [Scopes -> [Gens -> Bucket]]
    /\ stage \in [Conns -> Stages]
    /\ n \in [Conns -> Chunks \cup {0}]
    /\ snap \in [Conns -> [Scopes -> Gens \cup {Nil}]]
    /\ debt \in [Conns -> Nat]
    /\ room \in [Scopes -> Int]
    /\ reloads \in 0..MaxReloads

-----------------------------------------------------------------------------
(* Buckets                                                                 *)

\* Mutated form: the burst has no cap.
BurstUncapped(rate) == Max({rate, MinBurst})

Burst(rate) == Min({Max({rate, MinBurst}), MaxBurst})

\* rate.NewLimiter starts full.
newBucket(rate) == [rate |-> rate, burst |-> Burst(rate), tokens |-> Burst(rate)]

\* Mutated form: a rate of 0 builds a bucket that never refills.
BucketForAnyRate(rate) == TRUE

\* newRateBucket: is there a bucket for this rate at all?
Limited(rate) == rate > 0

\* What may pass a scope at once: its burst, and a chunk of every connection
\* that was let through earlier and moves only now.
FullRoom(rate) ==
    IF rate > 0
    THEN Burst(rate) + Cardinality(Conns) * Max(Chunks) ELSE 0

\* Buckets that nothing points to any more are garbage.
Collect(b) ==
    bucket' = [s \in Scopes |-> [g \in Gens |->
        IF g = cur'[s] \/ \E c \in Conns : snap'[c][s] = g
        THEN b[s][g] ELSE NoBucket]]

\* A generation of s that nothing points to.
Unused(s) ==
    CHOOSE g \in Gens : g # cur[s] /\ \A c \in Conns : snap[c][s] # g

RateInit ==
    /\ owner \in [Conns -> Users]
    /\ limit = [s \in Scopes |-> 0]
    /\ cur = [s \in Scopes |-> Nil]
    /\ bucket = [s \in Scopes |-> [g \in Gens |-> NoBucket]]
    /\ stage = [c \in Conns |-> "io"]
    /\ n = [c \in Conns |-> 0]
    /\ snap = [c \in Conns |-> [s \in Scopes |-> Nil]]
    /\ debt = [c \in Conns |-> 0]
    /\ room = [s \in Scopes |-> 0]
    /\ reloads = 0

-----------------------------------------------------------------------------
(* Reloads                                                                 *)

\* The scopes in fresh get new buckets for the limits in want, those in gone
\* lose theirs.
Replace(fresh, gone, want) ==
    /\ reloads < MaxReloads
    /\ reloads' = reloads + 1
    /\ cur' = [s \in Scopes |->
                 IF s \in fresh /\ Limited(want[s]) THEN Unused(s)
                 ELSE IF s \in fresh \cup gone THEN Nil ELSE cur[s]]
    /\ limit' = want
    /\ UNCHANGED <<owner, stage, n, snap, debt>>
    /\ Collect([s \in Scopes |-> [g \in Gens |->
                  IF s \in fresh /\ Limited(want[s]) /\ g = Unused(s)
                  THEN newBucket(want[s]) ELSE bucket[s][g]]])

\* The global buckets are always rebuilt.
UpdateConfig(rate) ==
    /\ Replace({Node}, {}, [limit EXCEPT ![Node] = rate])
    /\ room' = [room EXCEPT ![Node] = FullRoom(rate)]

\* Mutated form: every list builds fresh buckets.
ReusesNone(u, rate) == FALSE

\* b != nil && b.rate == u.SpeedLimitUpBps
Reuses(u, rate) == cur[u] # Nil /\ bucket[u][cur[u]].rate = rate

\* list gives the limits of the users in it; the others are removed.
UpdateUsers(list) ==
    LET want == [s \in Scopes |-> IF s \in DOMAIN list THEN list[s]
                                  ELSE IF s = Node THEN limit[Node] ELSE 0]
    IN  /\ Replace({u \in DOMAIN list : ~Reuses(u, list[u])},
                   Users \ DOMAIN list, want)
        /\ room' = [s \in Scopes |-> IF want[s] = limit[s] THEN room[s]
                                     ELSE FullRoom(want[s])]

-----------------------------------------------------------------------------
(* applyLimits, called after a read or write of the connection             *)

\* The pointers are looked up for every chunk.
Snapshot(c) == [s \in Scopes |-> IF s \in {Node, owner[c]} THEN cur[s] ELSE Nil]

Transferred(c, k) ==
    /\ stage[c] = "io"
    /\ n' = [n EXCEPT ![c] = k]
    /\ snap' = [snap EXCEPT ![c] = Snapshot(c)]
    /\ stage' = [stage EXCEPT ![c] = "askNode"]
    /\ UNCHANGED <<limits, bucket, debt, room, reloads>>

Scope(c) == IF stage[c] \in {"askNode", "sleepNode"} THEN Node ELSE owner[c]

\* WaitN reserves the clamped number of tokens at once and sleeps until the
\* bucket would have had them.
Reserve(c) ==
    LET s == Scope(c)  g == snap[c][s] IN
    /\ stage[c] \in {"askNode", "askUser"}
    /\ stage' = [stage EXCEPT ![c] =
                    IF @ = "askNode" THEN "sleepNode" ELSE "sleepUser"]
    /\ IF g = Nil
       THEN UNCHANGED <<bucket, debt>>
       ELSE LET left == bucket[s][g].tokens - Min({n[c], bucket[s][g].burst})
            IN  /\ bucket' = [bucket EXCEPT ![s][g].tokens = left]
                /\ debt' = [debt EXCEPT ![c] = Max({0, -left})]
    /\ UNCHANGED <<limits, n, snap, room, reloads>>

\* WaitN returns: the next wait, or the end of applyLimits.
Pass(c) ==
    LET s == Scope(c) IN
    /\ stage[c] \in {"sleepNode", "sleepUser"}
    /\ debt[c] = 0
    /\ stage' = [stage EXCEPT ![c] = IF @ = "sleepNode" THEN "askUser" ELSE "io"]
    /\ snap' = [snap EXCEPT ![c][s] = Nil]
    /\ n' = IF s = Node THEN n ELSE [n EXCEPT ![c] = 0]
    /\ room' = IF limit[s] > 0 THEN [room EXCEPT ![s] = @ - n[c]] ELSE room
    /\ UNCHANGED <<limits, debt, reloads>>
    /\ Collect(bucket)

\* Time passes: buckets refill up to their burst, sleepers come closer.
Tick ==
    /\ bucket' = [s \in Scopes |-> [g \in Gens |->
         [bucket[s][g] EXCEPT !.tokens =
            Min({bucket[s][g].burst, @ + bucket[s][g].rate})]]]
    /\ debt' = [c \in Conns |->
         IF debt[c] = 0 THEN 0
         ELSE Max({0, debt[c] - bucket[Scope(c)][snap[c][Scope(c)]].rate})]
    /\ room' = [s \in Scopes |-> IF limit[s] > 0
         THEN Min({FullRoom(limit[s]), room[s] + limit[s]}) ELSE room[s]]
    /\ UNCHANGED <<limits, stage, n, snap, reloads>>

-----------------------------------------------------------------------------
UserLists == UNION {[D -> Rates] : D \in SUBSET Users}

Shape(c) == Reserve(c) \/ Pass(c)

RateNext ==
    \/ \E rate \in Rates : UpdateConfig(rate)
    \/ \E list \in UserLists : UpdateUsers(list)
    \/ \E c \in Conns, k \in Chunks : Transferred(c, k)
    \/ \E c \in Conns : Shape(c)
    \/ Tick

RateSpec == RateInit /\ [][RateNext]_rateVars

\* Time passes and the scheduler runs goroutines whose timer has fired.
FairRateSpec == RateSpec /\ WF_rateVars(Tick) /\ \A c \in Conns : WF_rateVars(Shape(c))

-----------------------------------------------------------------------------
(* Properties                                                              *)

\* Over any stretch of time in which its limit stays the same, a scope passes
\* no more than its rate, one burst, and one chunk per connection, however
\* many connections share it, however often the same users are sent again,
\* and although a chunk may still be waiting on a bucket that a reload has
\* replaced: a new limit reaches every running connection with its next chunk.
LimitRespected == \A s \in Scopes : room[s] >= 0

\* Shaping never stops a connection: a chunk that waits gets through, whatever
\* is reloaded meanwhile and however many tokens others have reserved.
ChunkGetsThrough == \A c \in Conns : stage[c] # "io" ~> stage[c] = "io"
=============================================================================
