--------------------------- MODULE DataPathProofs ---------------------------
(***************************************************************************)
(* Proofs about what happens to the bytes of a connection.  Relay: for any *)
(* number of chunks and every order in which the peers, the handler, the   *)
(* two copies and the control loop take their steps, a relay counts what   *)
(* it carries once and the direction which ends an undisturbed relay is    *)
(* complete.  RateLimit: for every set of users, connections, rates and    *)
(* chunk sizes, and however often limits are reloaded, a scope passes no   *)
(* more than its limit allows; RateWindow, that this is so in any stretch  *)
(* of time.                                                                *)
(***************************************************************************)
EXTENDS Relay, RateWindow, SumTheorems

-----------------------------------------------------------------------------
(* Relays                                                                  *)

Early   == {"dial", "initial"}
Closing == {"closeDest", "closeClient", "done"}
Over    == {"half", "send", "gone"}

(* Before the copies start nothing has been read.                          *)
NotStarted ==
    hpc \in Early =>
        /\ errs = 0
        /\ \A d \in Dirs : cpc[d] = "off" /\ got[d] = 0 /\ delivered[d] = 0
        /\ hpc = "initial" => kind = "tcp" /\ left > 0

(* A copy that has not started never will once the handler is closing, so  *)
(* a direction that is "off" during the relay does not exist.              *)
Started ==
    /\ hpc = "relay" => \A d \in Dirs : cpc[d] # "off"
    /\ hpc \in Closing => (cpc["up"] = "off" <=> cpc["down"] = "off")
    /\ \A d \in Dirs : cpc[d] # "off" => d # "up" \/ left = 0 \/ kind # "tcp"

(* Where the chunks are: at most one is in the hands of a copy.            *)
ChunksPlaced ==
    /\ got["up"] + left <= sent["up"]
    /\ got["down"] <= sent["down"]
    /\ \A d \in Dirs :
        /\ delivered[d] <= got[d]
        /\ cpc[d] \in {"off", "read"} => delivered[d] = got[d]
        /\ cpc[d] = "write" => delivered[d] + 1 = got[d]

(* What has been passed to addTraffic, by relay and direction.             *)
ChunksCounted ==
    /\ kind # "vision" => counted["up"] = got["up"] + left
    /\ kind = "vision" =>
        /\ counted["up"] >= got["up"] + left
        /\ counted["up"] <= got["up"] + left + 1
        /\ left > 0 => counted["up"] = got["up"] + left
    /\ counted["down"] = IF kind = "vision" THEN got["down"] ELSE delivered["down"]

(* Every value in errChan was put there by a copy that is gone.            *)
ErrsExplained ==
    errs <= (IF cpc["up"] = "gone" THEN 1 ELSE 0)
            + (IF cpc["down"] = "gone" THEN 1 ELSE 0)

(* While the handler waits, only a fault closes a socket.                  *)
SocketsOpen ==
    /\ hpc \in {"initial", "relay"} => sock["dest"]
    /\ hpc \in {"dial", "initial", "relay"} /\ ~cut => sock["client"]

Complete(d) == fin[Source(d)] /\ delivered[d] = sent[d]

(* While the handler waits, a copy that is over has carried everything;    *)
(* the handler goes on only when one is.                                   *)
OverComplete ==
    ~Disturbed =>
        /\ hpc = "relay" => \A d \in Dirs : cpc[d] \in Over => Complete(d)
        /\ hpc \in Closing /\ cpc["up"] # "off" =>
              \E d \in Dirs : cpc[d] \in Over /\ Complete(d)

IInv ==
    /\ TypeOK /\ NotStarted /\ Started /\ ChunksPlaced /\ ChunksCounted
    /\ ErrsExplained /\ SocketsOpen /\ OverComplete

LEMMA InitIInv == Init => IInv
<1> SUFFICES ASSUME Init PROVE IInv
  OBVIOUS
<1>1. TypeOK
  <2>1. left \in 0..1 /\ left \in 0..MaxSend /\ left \in 0..(MaxSend + 1)
    BY RelayAssumption DEF Init
  <2>2. sent \in [Dirs -> 0..MaxSend] /\ counted \in [Dirs -> 0..(MaxSend + 1)]
    BY <2>1, RelayAssumption DEF Init
  <2>3. got \in [Dirs -> 0..MaxSend] /\ delivered \in [Dirs -> 0..MaxSend]
    BY RelayAssumption DEF Init
  <2>4. /\ fin \in [Peers -> BOOLEAN] /\ reset \in [Peers -> BOOLEAN]
        /\ sock \in [Peers -> BOOLEAN] /\ halfClosed \in [Peers -> BOOLEAN]
    BY DEF Init
  <2>5. cpc \in [Dirs -> {"off", "read", "write", "half", "send", "gone"}]
    BY DEF Init
  <2>6. kind \in Kinds /\ hpc = "dial" /\ errs = 0 /\ cut = FALSE
    BY DEF Init
  <2>7. cut \in BOOLEAN
    BY <2>6, Zenon
  <2> QED
    BY <2>1, <2>2, <2>3, <2>4, <2>5, <2>6, <2>7 DEF TypeOK
<1>2. NotStarted /\ ErrsExplained
  BY DEF Init, NotStarted, ErrsExplained, Dirs, Early
<1>3. Started /\ SocketsOpen /\ OverComplete
  BY DEF Init, Started, SocketsOpen, OverComplete, Dirs, Peers, Closing
<1>4. ChunksPlaced /\ ChunksCounted
  BY DEF Init, ChunksPlaced, ChunksCounted, Dirs
<1> QED
  BY <1>1, <1>2, <1>3, <1>4 DEF IInv

LEMMA EnvironmentStep == IInv /\ Environment => IInv'
<1> SUFFICES ASSUME IInv, Environment PROVE IInv'
  OBVIOUS
<1> USE RelayAssumption DEF IInv, Dirs, Peers, Early, Closing, Over, peerVars
<1>1. ASSUME NEW d \in Dirs, Sends(d) PROVE IInv'
  <2>1. TypeOK'
    BY <1>1 DEF Sends, TypeOK
  <2>2. ChunksPlaced' /\ OverComplete'
    BY <1>1 DEF Sends, TypeOK, ChunksPlaced, OverComplete, Disturbed, Complete, Source
  <2> QED
    BY <1>1, <2>1, <2>2
    DEF Sends, NotStarted, Started, ChunksCounted, ErrsExplained, SocketsOpen
<1>2. ASSUME NEW p \in Peers, Finishes(p) PROVE IInv'
  BY <1>2
  DEF Finishes, TypeOK, NotStarted, Started, ChunksPlaced, ChunksCounted,
      ErrsExplained, SocketsOpen, OverComplete, Disturbed, Complete, Source
<1>3. ASSUME NEW p \in Peers, Fails(p) PROVE IInv'
  BY <1>3
  DEF Fails, TypeOK, NotStarted, Started, ChunksPlaced, ChunksCounted,
      ErrsExplained, SocketsOpen, OverComplete, Disturbed
<1>4. CASE ServerCloses
  BY <1>4
  DEF ServerCloses, TypeOK, NotStarted, Started, ChunksPlaced, ChunksCounted,
      ErrsExplained, SocketsOpen, OverComplete, Disturbed
<1> QED
  BY <1>1, <1>2, <1>3, <1>4 DEF Environment

LEMMA HandlerStep == IInv /\ Handler => IInv'
<1> SUFFICES ASSUME IInv, Handler PROVE IInv'
  OBVIOUS
<1> USE RelayAssumption DEF IInv, Dirs, Peers, Early, Closing, Over, peerVars
<1>1. CASE DialFails
  BY <1>1
  DEF DialFails, TypeOK, NotStarted, Started, ChunksPlaced, ChunksCounted,
      ErrsExplained, SocketsOpen, OverComplete, Disturbed, Complete
<1>2. CASE DialSucceeds
  <2>1. TypeOK'
    BY <1>2 DEF DialSucceeds, TypeOK
  <2>2. (NotStarted /\ Started /\ ErrsExplained /\ SocketsOpen)'
    BY <1>2 DEF DialSucceeds, TypeOK, NotStarted, Started, ErrsExplained, SocketsOpen
  <2>3. (ChunksPlaced /\ ChunksCounted)'
    BY <1>2 DEF DialSucceeds, TypeOK, NotStarted, ChunksPlaced, ChunksCounted
  <2>4. OverComplete'
    BY <1>2 DEF DialSucceeds, TypeOK, OverComplete, Disturbed, Complete
  <2> QED
    BY <2>1, <2>2, <2>3, <2>4
<1>3. CASE WriteInitial
  <2>1. /\ kind = "tcp" /\ left = 1 /\ errs = 0 /\ hpc = "initial"
        /\ \A d \in Dirs : cpc[d] = "off" /\ got[d] = 0 /\ delivered[d] = 0
    BY <1>3 DEF WriteInitial, NotStarted, TypeOK
  <2>2. TypeOK'
    BY <1>3, <2>1 DEF WriteInitial, ForwardInitial, TypeOK
  <2>3. (NotStarted /\ Started /\ ErrsExplained /\ SocketsOpen)'
    BY <1>3, <2>1
    DEF WriteInitial, TypeOK, NotStarted, Started, ErrsExplained, SocketsOpen
  <2>4. (ChunksPlaced /\ ChunksCounted)'
    BY <1>3, <2>1 DEF WriteInitial, ForwardInitial, TypeOK, ChunksPlaced, ChunksCounted
  <2>5. OverComplete'
    BY <1>3, <2>1 DEF WriteInitial, TypeOK, OverComplete
  <2> QED
    BY <2>2, <2>3, <2>4, <2>5
<1>4. CASE Wait
  <2>1. \E d \in Dirs : cpc[d] = "gone"
    BY <1>4 DEF Wait, ErrsExplained, TypeOK
  <2>2. OverComplete'
    BY <1>4, <2>1 DEF Wait, OverComplete, Disturbed, Complete
  <2>3. (TypeOK /\ ErrsExplained)'
    BY <1>4 DEF Wait, TypeOK, ErrsExplained
  <2> QED
    BY <1>4, <2>2, <2>3
    DEF Wait, NotStarted, Started, ChunksPlaced, ChunksCounted, SocketsOpen
<1>5. CASE CloseDest
  BY <1>5
  DEF CloseDest, TypeOK, NotStarted, Started, ChunksPlaced, ChunksCounted,
      ErrsExplained, SocketsOpen, OverComplete, Disturbed, Complete
<1>6. CASE CloseClient
  BY <1>6
  DEF CloseClient, TypeOK, NotStarted, Started, ChunksPlaced, ChunksCounted,
      ErrsExplained, SocketsOpen, OverComplete, Disturbed, Complete
<1> QED
  BY <1>1, <1>2, <1>3, <1>4, <1>5, <1>6 DEF Handler

LEMMA CopyStep == ASSUME IInv, NEW d \in Dirs, Copy(d) PROVE IInv'
<1> USE RelayAssumption DEF IInv, Dirs, Peers, Early, Closing, Over, peerVars
<1>0. hpc \notin Early /\ cpc[d] # "off"
  BY DEF Copy, ReadInitial, ReadChunk, ReadEnds, Write, closeWrite, SendErr,
         NotStarted
<1>1. CASE d = "up" /\ ReadInitial
  <2>1. /\ TypeOK' /\ left = 1
    BY <1>1 DEF ReadInitial, Count, SeedCounted, TypeOK, ChunksPlaced, ChunksCounted
  <2>2. (ChunksPlaced /\ ChunksCounted)'
    BY <1>1, <2>1 DEF ReadInitial, Count, SeedCounted, TypeOK, ChunksPlaced, ChunksCounted
  <2>3. (NotStarted /\ Started /\ ErrsExplained /\ SocketsOpen)'
    BY <1>0, <1>1 DEF ReadInitial, TypeOK, NotStarted, Started, ErrsExplained, SocketsOpen
  <2>4. OverComplete'
    BY <1>0, <1>1 DEF ReadInitial, TypeOK, OverComplete, Disturbed, Complete
  <2> QED
    BY <2>1, <2>2, <2>3, <2>4
<1>2. CASE ReadChunk(d)
  <2>1. TypeOK'
    BY <1>2 DEF ReadChunk, Count, CountsAtRead, TypeOK, ChunksPlaced, ChunksCounted
  <2>2. (ChunksPlaced /\ ChunksCounted)'
    BY <1>2 DEF ReadChunk, Drained, Count, CountsAtRead, TypeOK, ChunksPlaced, ChunksCounted
  <2>3. (NotStarted /\ Started /\ ErrsExplained /\ SocketsOpen)'
    BY <1>0, <1>2 DEF ReadChunk, TypeOK, NotStarted, Started, ErrsExplained, SocketsOpen
  <2>4. OverComplete'
    BY <1>0, <1>2 DEF ReadChunk, TypeOK, OverComplete, Disturbed, Complete
  <2> QED
    BY <2>1, <2>2, <2>3, <2>4
<1>3. CASE ReadEnds(d)
  <2>1. ~Disturbed /\ hpc = "relay" => Complete(d)
    BY <1>3
    DEF ReadEnds, AtEnd, Usable, Disturbed, Complete, Source, SocketsOpen,
        ChunksPlaced
  <2>2. TypeOK'
    BY <1>3 DEF ReadEnds, CopyReturns, TypeOK
  <2>3. (NotStarted /\ Started /\ ErrsExplained /\ SocketsOpen)'
    BY <1>0, <1>3
    DEF ReadEnds, CopyReturns, TypeOK, NotStarted, Started, ErrsExplained, SocketsOpen
  <2>4. (ChunksPlaced /\ ChunksCounted)'
    BY <1>3 DEF ReadEnds, CopyReturns, TypeOK, ChunksPlaced, ChunksCounted
  <2>5. OverComplete'
    BY <1>0, <1>3, <2>1
    DEF ReadEnds, CopyReturns, TypeOK, OverComplete, Disturbed, Complete
  <2> QED
    BY <2>2, <2>3, <2>4, <2>5
<1>4. CASE Write(d)
  <2>1. hpc = "relay" /\ ~Disturbed => Usable(Sink(d))
    BY DEF Usable, Sink, Disturbed, SocketsOpen
  <2>2. TypeOK'
    BY <1>4
    DEF Write, CopyReturns, Count, CountsAtRead, TypeOK, ChunksPlaced, ChunksCounted
  <2>3. (NotStarted /\ Started /\ ErrsExplained /\ SocketsOpen)'
    BY <1>0, <1>4
    DEF Write, CopyReturns, TypeOK, NotStarted, Started, ErrsExplained, SocketsOpen
  <2>4. (ChunksPlaced /\ ChunksCounted)'
    BY <1>4
    DEF Write, CopyReturns, Count, CountsAtRead, TypeOK, ChunksPlaced, ChunksCounted
  <2>5. OverComplete'
    BY <1>0, <1>4, <2>1
    DEF Write, CopyReturns, TypeOK, OverComplete, Disturbed, Complete
  <2> QED
    BY <2>2, <2>3, <2>4, <2>5
<1>5. CASE closeWrite(d)
  <2>1. TypeOK'
    BY <1>5 DEF closeWrite, TypeOK, Sink
  <2>2. (NotStarted /\ Started /\ ErrsExplained /\ SocketsOpen)'
    BY <1>0, <1>5
    DEF closeWrite, TypeOK, NotStarted, Started, ErrsExplained, SocketsOpen
  <2>3. (ChunksPlaced /\ ChunksCounted /\ OverComplete)'
    BY <1>0, <1>5
    DEF closeWrite, TypeOK, ChunksPlaced, ChunksCounted, OverComplete, Disturbed, Complete
  <2> QED
    BY <2>1, <2>2, <2>3
<1>6. CASE SendErr(d)
  <2>1. (TypeOK /\ ErrsExplained)'
    BY <1>6 DEF SendErr, ErrChanCap, TypeOK, ErrsExplained
  <2>2. (NotStarted /\ Started /\ SocketsOpen)'
    BY <1>0, <1>6 DEF SendErr, TypeOK, NotStarted, Started, SocketsOpen
  <2>3. (ChunksPlaced /\ ChunksCounted /\ OverComplete)'
    BY <1>0, <1>6
    DEF SendErr, TypeOK, ChunksPlaced, ChunksCounted, OverComplete, Disturbed, Complete
  <2> QED
    BY <2>1, <2>2, <2>3
<1> QED
  BY <1>1, <1>2, <1>3, <1>4, <1>5, <1>6 DEF Copy

LEMMA Invariance == Spec => []IInv
<1>1. IInv /\ [Next]_vars => IInv'
  <2>1. ASSUME IInv, UNCHANGED vars PROVE IInv'
    BY <2>1
    DEF vars, peerVars, IInv, TypeOK, NotStarted, Started, ChunksPlaced,
        ChunksCounted, ErrsExplained, SocketsOpen, OverComplete, Disturbed, Complete
  <2> QED
    BY <2>1, EnvironmentStep, HandlerStep, CopyStep DEF Next
<1> QED
  BY <1>1, InitIInv, PTL DEF Spec

(* Counters stay within what the peers sent, and errChan never holds more  *)
(* than the two values it was made for.                                    *)
THEOREM TypeCorrect == Spec => []TypeOK
<1>1. IInv => TypeOK
  BY DEF IInv
<1> QED
  BY <1>1, Invariance, PTL

(* Every chunk that handleTCP, handleUDP or handleTCPVision carries is     *)
(* passed to addTraffic, and only the seed of a Vision connection twice.   *)
THEOREM CountingExact == Spec => []CarriedIsCountedOnce
<1>1. IInv => CarriedIsCountedOnce
  BY DEF IInv, TypeOK, ChunksPlaced, ChunksCounted, CarriedIsCountedOnce, Dirs
<1> QED
  BY <1>1, Invariance, PTL

(* The direction whose end makes the handler close both connections has    *)
(* delivered everything, unless something failed or the user was cut.      *)
THEOREM EndingDirectionDelivers == Spec => []EndedDirectionComplete
<1>1. IInv => EndedDirectionComplete
  BY DEF IInv, TypeOK, Started, OverComplete, Complete, Closing, Dirs,
         EndedDirectionComplete
<1> QED
  BY <1>1, Invariance, PTL

-----------------------------------------------------------------------------
(***************************************************************************)
(* Speed limits                                                            *)
(*                                                                         *)
(* room is the history of what a scope may still pass.  A chunk leaves it  *)
(* only when WaitN returns, long after the tokens were reserved, so the    *)
(* invariant has to account for every chunk on its way: the tokens left in *)
(* the bucket and the chunks that are already let through, on this bucket  *)
(* or on one that a reload has replaced, fit in the room together.  Tokens *)
(* may be negative; then sleepers owe what is missing, and whoever sleeps  *)
(* longest owes it last.                                                   *)
(***************************************************************************)

LEMMA MaxOfTwo ==
    ASSUME NEW a \in Int, NEW b \in Int
    PROVE  Max({a, b}) = IF a >= b THEN a ELSE b
<1>1. \A x \in {a, b} : (\A y \in {a, b} : x >= y) <=> x = IF a >= b THEN a ELSE b
  OBVIOUS
<1> QED
  BY <1>1 DEF Max

LEMMA MinOfTwo ==
    ASSUME NEW a \in Int, NEW b \in Int
    PROVE  Min({a, b}) = IF a <= b THEN a ELSE b
<1>1. \A x \in {a, b} : (\A y \in {a, b} : x =< y) <=> x = IF a <= b THEN a ELSE b
  OBVIOUS
<1> QED
  BY <1>1 DEF Min

\* newBucket keeps the burst within its clamp.
LEMMA BurstClamped ==
    ASSUME NEW r \in Int PROVE Burst(r) \in MinBurst..MaxBurst
<1>1. Max({r, MinBurst}) \in Int /\ Max({r, MinBurst}) >= MinBurst
  BY RateAssumption, MaxOfTwo
<1> QED
  BY <1>1, RateAssumption, MinOfTwo DEF Burst

LEMMA MaxOfChunks ==
    /\ Max(Chunks) \in Nat
    /\ \A k \in Chunks : k \in Nat /\ k >= 1 /\ k <= MinBurst /\ k <= Max(Chunks)
<1>0. MinBurst \in Nat /\ Chunks \in SUBSET (1..MinBurst) /\ Chunks # {}
  BY ChunkAssumption, RateAssumption
<1>1. Chunks \in SUBSET Int /\ IsFiniteSet(Chunks)
  <2>1. IsFiniteSet(1..MinBurst)
    BY <1>0, FS_Interval
  <2>2. IsFiniteSet(Chunks)
    BY <1>0, <2>1, FS_Subset
  <2> QED
    BY <1>0, <2>2
<1>2. PICK m \in Chunks : \A k \in Chunks : k <= m
  BY <1>0, <1>1, FiniteMax
<1>3. Max(Chunks) \in Chunks /\ \A k \in Chunks : Max(Chunks) >= k
  BY <1>1, <1>2 DEF Max
<1>4. \A k \in Chunks : k \in Nat /\ k >= 1 /\ k <= MinBurst
  BY <1>0
<1> QED
  BY <1>3, <1>4

LEMMA ScopeFacts ==
    /\ Node \in Scopes /\ Users \subseteq Scopes /\ Node \notin Users
    /\ \A s \in Scopes : s = Node \/ s \in Users
BY RateAssumption DEF Scopes

\* There are more generations than pointers: a reload finds a fresh one.
LEMMA UnusedExists ==
    ASSUME RateTypeOK, NEW s \in Scopes
    PROVE  /\ Unused(s) \in Gens /\ Unused(s) # Nil
           /\ \A c \in Conns : snap[c][s] # Unused(s)
<1> DEFINE held == [c \in Conns |-> snap[c][s]]
           H == {snap[c][s] : c \in Conns}
           P == H \cup {cur[s]}
<1>1. Cardinality(Conns) \in Nat
  BY RateAssumption, FS_CardinalityType
<1>2. held \in Surjection(Conns, H)
  BY DEF Surjection
<1>3. IsFiniteSet(H) /\ Cardinality(H) <= Cardinality(Conns)
  <2> HIDE DEF held, H
  <2> QED BY <1>2, RateAssumption, FS_Surjection
<1>4. IsFiniteSet(P) /\ Cardinality(P) \in Nat /\ Cardinality(P) <= Cardinality(Conns) + 1
  <2> HIDE DEF held, H
  <2>1. Cardinality(H) \in Nat
    BY <1>3, FS_CardinalityType
  <2> QED BY <1>1, <1>3, <2>1, FS_AddElement
<1>5. Cardinality(Gens) = Cardinality(Conns) + 2
  BY <1>1, FS_Interval DEF Gens
<1>6. ~(Gens \subseteq P)
  <2> HIDE DEF P
  <2> SUFFICES ASSUME Gens \in SUBSET P PROVE FALSE
    OBVIOUS
  <2>1. Cardinality(Gens) <= Cardinality(P)
    BY <1>4, FS_Subset
  <2> QED BY <1>1, <1>4, <1>5, <2>1
<1>7. PICK g \in Gens : g # cur[s] /\ \A c \in Conns : snap[c][s] # g
  BY <1>6
<1>8. /\ Unused(s) \in Gens /\ Unused(s) # cur[s]
      /\ \A c \in Conns : snap[c][s] # Unused(s)
  BY <1>7, Zenon DEF Unused
<1>9. Gens \subseteq Nat
  BY <1>1 DEF Gens
<1> QED
  BY <1>8, <1>9, RateAssumption

-----------------------------------------------------------------------------
(* The inductive invariant                                                 *)

\* c's chunk has yet to get past the limiter of s.
WillPass(c, s) ==
    \/ s = Node /\ stage[c] \in {"askNode", "sleepNode"}
    \/ s = owner[c] /\ stage[c] # "io"

\* c has its reservation on a bucket of s and sleeps.
Asleep(c, s) ==
    \/ s = Node /\ stage[c] = "sleepNode"
    \/ s = owner[c] /\ stage[c] = "sleepUser"

Tokens(s) == bucket[s][cur[s]].tokens

\* Chunks that pass s without taking any more tokens from its bucket.
Load(s) ==
    [c \in Conns |-> IF WillPass(c, s) /\ (Asleep(c, s) \/ snap[c][s] # cur[s])
                     THEN n[c] ELSE 0]

\* Chunks that sleep on the bucket of s and lack more than x tokens.
Owing(s, x) ==
    [c \in Conns |-> IF Asleep(c, s) /\ snap[c][s] = cur[s] /\ debt[c] > x
                     THEN n[c] ELSE 0]

Sum(f) == SumFunctionOnSet(f, Conns)

\* The pointer of a scope is that of a bucket for its limit.
BucketFollows(s) ==
    IF limit[s] > 0
    THEN /\ cur[s] # Nil
         /\ bucket[s][cur[s]].rate = limit[s]
         /\ bucket[s][cur[s]].burst = Burst(limit[s])
         /\ Tokens(s) <= Burst(limit[s])
    ELSE cur[s] = Nil /\ room[s] = 0

RoomLeft(s) == limit[s] > 0 => room[s] >= Tokens(s) + Sum(Load(s))

DebtsCover(s) ==
    limit[s] > 0 => \A x \in Nat : -Tokens(s) - x <= Sum(Owing(s, x))

ScopeInv(s) == BucketFollows(s) /\ RoomLeft(s) /\ DebtsCover(s)

\* Only a sleeper after tokens, and those of a bucket.
DebtsAsleep ==
    \A c \in Conns : debt[c] # 0 =>
        /\ stage[c] \in {"sleepNode", "sleepUser"}
        /\ snap[c][Scope(c)] # Nil

RateInv == RateTypeOK /\ DebtsAsleep /\ \A s \in Scopes : ScopeInv(s)

-----------------------------------------------------------------------------
\* Sums over the connections are sums of naturals within one chunk each.
LEMMA LoadSums ==
    ASSUME RateTypeOK, NEW s \in Scopes
    PROVE  /\ AllNat(Load(s), Conns) /\ Sum(Load(s)) \in Nat
           /\ Cardinality(Conns) * Max(Chunks) \in Nat
           /\ Sum(Load(s)) <= Cardinality(Conns) * Max(Chunks)
<1>1. \A c \in Conns : n[c] \in Nat /\ n[c] <= Max(Chunks)
  BY MaxOfChunks DEF RateTypeOK
<1>2. \A c \in Conns : Load(s)[c] \in Nat /\ Load(s)[c] <= Max(Chunks)
  BY <1>1, MaxOfChunks DEF Load
<1> HIDE DEF Load
<1>3. AllNat(Load(s), Conns)
  BY <1>2 DEF AllNat
<1>4. Cardinality(Conns) \in Nat /\ Sum(Load(s)) <= Cardinality(Conns) * Max(Chunks)
  BY <1>2, <1>3, MaxOfChunks, RateAssumption, SumBound DEF Sum
<1> QED
  BY <1>3, <1>4, MaxOfChunks, RateAssumption, SumNat DEF Sum

LEMMA OwingSums ==
    ASSUME RateTypeOK, NEW s \in Scopes, NEW x \in Nat
    PROVE  AllNat(Owing(s, x), Conns) /\ Sum(Owing(s, x)) \in Nat
<1>1. \A c \in Conns : n[c] \in Nat
  BY MaxOfChunks DEF RateTypeOK
<1>2. AllNat(Owing(s, x), Conns)
  BY <1>1 DEF Owing, AllNat
<1> QED
  BY <1>2, RateAssumption, SumNat DEF Sum

LEMMA SumsNext ==
    ASSUME RateTypeOK', NEW s \in Scopes
    PROVE  /\ Sum(Load(s))' \in Nat
           /\ Cardinality(Conns) * Max(Chunks) \in Nat
           /\ Sum(Load(s))' <= Cardinality(Conns) * Max(Chunks)
           /\ \A x \in Nat : Sum(Owing(s, x))' \in Nat
<1>1. (RateTypeOK => /\ Sum(Load(s)) \in Nat
                 /\ Cardinality(Conns) * Max(Chunks) \in Nat
                 /\ Sum(Load(s)) <= Cardinality(Conns) * Max(Chunks))'
  BY LoadSums, PTL
<1>2. ASSUME NEW x \in Nat PROVE (RateTypeOK => Sum(Owing(s, x)) \in Nat)'
  BY OwingSums, PTL
<1> QED
  BY <1>1, <1>2

\* With the room for the tokens and for the chunks on their way, and the
\* sleepers owing what is missing, the room is never overdrawn.
LEMMA Respected == RateInv => LimitRespected
<1> SUFFICES ASSUME RateInv, NEW s \in Scopes PROVE room[s] >= 0
  BY DEF LimitRespected
<1>0. RateTypeOK /\ ScopeInv(s) /\ room[s] \in Int /\ limit[s] \in Int
  BY RateAssumption DEF RateInv, RateTypeOK
<1>1. CASE ~(limit[s] > 0)
  BY <1>0, <1>1 DEF ScopeInv, BucketFollows
<1>2. CASE limit[s] > 0
  <2>1. \A c \in Conns : Owing(s, 0)[c] <= Load(s)[c]
    <3>1. \A c \in Conns : n[c] \in Nat
      BY <1>0, MaxOfChunks DEF RateTypeOK
    <3>2. \A c \in Conns : Asleep(c, s) => WillPass(c, s)
      BY DEF Asleep, WillPass
    <3> QED
      BY <3>1, <3>2 DEF Owing, Load
  <2>2. Sum(Owing(s, 0)) <= Sum(Load(s))
    BY <1>0, <2>1, LoadSums, OwingSums, RateAssumption, SumLeq DEF Sum
  <2>3. Sum(Owing(s, 0)) \in Nat /\ Sum(Load(s)) \in Nat
    BY <1>0, LoadSums, OwingSums
  <2>4. Tokens(s) \in Int
    BY <1>0, <1>2 DEF ScopeInv, BucketFollows, Tokens, RateTypeOK, Bucket
  <2>5. -Tokens(s) - 0 <= Sum(Owing(s, 0)) /\ room[s] >= Tokens(s) + Sum(Load(s))
    BY <1>0, <1>2 DEF ScopeInv, RoomLeft, DebtsCover
  <2> HIDE DEF Tokens, Sum, Owing, Load
  <2> QED
    BY <1>0, <2>2, <2>3, <2>4, <2>5
<1> QED
  BY <1>1, <1>2

-----------------------------------------------------------------------------
(* Scopes that a step leaves alone, renews or frees of a limit             *)

LEMMA ScopeKept ==
    ASSUME RateTypeOK, NEW s \in Scopes, ScopeInv(s),
           limit'[s] = limit[s], cur'[s] = cur[s], room'[s] = room[s],
           limit[s] > 0 => bucket'[s][cur[s]] = bucket[s][cur[s]],
           \A c \in Conns : Load(s)'[c] = Load(s)[c],
           \A x \in Nat : \A c \in Conns : Owing(s, x)'[c] = Owing(s, x)[c]
    PROVE  ScopeInv(s)'
<1>1. Sum(Load(s))' = Sum(Load(s))
  BY LoadSums, RateAssumption, SumEqual DEF Sum
<1>2. ASSUME NEW x \in Nat PROVE Sum(Owing(s, x))' = Sum(Owing(s, x))
  BY OwingSums, RateAssumption, SumEqual DEF Sum
<1>3. limit[s] > 0 => Tokens(s)' = Tokens(s)
  BY DEF Tokens
<1>4. BucketFollows(s)'
  BY <1>3 DEF ScopeInv, BucketFollows, Burst
<1>5. RoomLeft(s)'
  BY <1>1, <1>3 DEF ScopeInv, RoomLeft
<1>6. DebtsCover(s)'
  BY <1>2, <1>3 DEF ScopeInv, DebtsCover
<1> QED
  BY <1>4, <1>5, <1>6 DEF ScopeInv

\* A fresh, full bucket: the room is for a chunk of every connection as well.
LEMMA ScopeRenewed ==
    ASSUME RateTypeOK', NEW s \in Scopes,
           limit'[s] > 0, cur'[s] # Nil,
           bucket'[s][cur'[s]] = newBucket(limit'[s]), room'[s] = FullRoom(limit'[s])
    PROVE  ScopeInv(s)'
<1>0. limit'[s] \in Int
  BY RateAssumption DEF RateTypeOK
<1>1. PICK b : b = Burst(limit'[s]) /\ b \in Nat
  BY <1>0, BurstClamped, RateAssumption
<1>2. Tokens(s)' = b
  BY <1>1 DEF Tokens, newBucket
<1>3. BucketFollows(s)'
  BY <1>0, <1>1, <1>2 DEF BucketFollows, newBucket, Burst
<1>4. RoomLeft(s)'
  <2>1. room'[s] = b + Cardinality(Conns) * Max(Chunks)
    BY <1>0, <1>1 DEF FullRoom
  <2> QED
    BY <1>1, <1>2, <2>1, SumsNext DEF RoomLeft
<1>5. DebtsCover(s)'
  BY <1>1, <1>2, SumsNext DEF DebtsCover
<1> QED
  BY <1>3, <1>4, <1>5 DEF ScopeInv

LEMMA ScopeFreed ==
    ASSUME NEW s \in Scopes, ~(limit'[s] > 0), cur'[s] = Nil, room'[s] = 0
    PROVE  ScopeInv(s)'
BY DEF ScopeInv, BucketFollows, RoomLeft, DebtsCover

-----------------------------------------------------------------------------
(* Types                                                                   *)

LEMMA BucketTypes ==
    /\ NoBucket \in Bucket
    /\ \A r \in Int : newBucket(r) \in Bucket
<1>1. \A r \in Int : Burst(r) \in Int /\ Burst(r) \in 0..MaxBurst
  BY BurstClamped, RateAssumption
<1> QED
  BY <1>1, RateAssumption DEF NoBucket, newBucket, Bucket

LEMMA FullRoomType == \A r \in Int : FullRoom(r) \in Int
<1>1. Cardinality(Conns) \in Nat
  BY RateAssumption, FS_CardinalityType
<1>2. Cardinality(Conns) * Max(Chunks) \in Int
  BY <1>1, MaxOfChunks
<1>3. \A r \in Int : Burst(r) \in Int
  BY BurstClamped, RateAssumption
<1> QED
  BY <1>2, <1>3 DEF FullRoom

LEMMA CollectType ==
    ASSUME NEW b \in [Scopes -> [Gens -> Bucket]], Collect(b)
    PROVE  bucket' \in [Scopes -> [Gens -> Bucket]]
BY BucketTypes DEF Collect

LEMMA ReplaceType ==
    ASSUME RateTypeOK, NEW fresh, NEW gone, NEW want \in [Scopes -> Rates],
           Replace(fresh, gone, want), room' \in [Scopes -> Int]
    PROVE  RateTypeOK'
<1>1. cur' \in [Scopes -> Gens \cup {Nil}]
  BY UnusedExists DEF Replace, RateTypeOK
<1>2. bucket' \in [Scopes -> [Gens -> Bucket]]
  <2> DEFINE b == [s \in Scopes |-> [g \in Gens |->
                     IF s \in fresh /\ Limited(want[s]) /\ g = Unused(s)
                     THEN newBucket(want[s]) ELSE bucket[s][g]]]
  <2>1. b \in [Scopes -> [Gens -> Bucket]]
    BY BucketTypes, RateAssumption DEF RateTypeOK
  <2>2. Collect(b)
    BY DEF Replace
  <2> HIDE DEF b
  <2> QED
    BY <2>1, <2>2, CollectType
<1>3. reloads' \in 0..MaxReloads
  BY RateAssumption DEF Replace, RateTypeOK
<1> QED
  BY <1>1, <1>2, <1>3 DEF Replace, RateTypeOK

LEMMA UpdateConfigType ==
    ASSUME RateTypeOK, NEW rate \in Rates, UpdateConfig(rate) PROVE RateTypeOK'
<1>1. [limit EXCEPT ![Node] = rate] \in [Scopes -> Rates]
  BY DEF RateTypeOK
<1>2. room' \in [Scopes -> Int]
  BY FullRoomType, RateAssumption DEF UpdateConfig, RateTypeOK
<1> QED
  BY <1>1, <1>2, ReplaceType DEF UpdateConfig

\* The limits that a user list asks for.
Wanted(list) ==
    [s \in Scopes |-> IF s \in DOMAIN list THEN list[s]
                      ELSE IF s = Node THEN limit[Node] ELSE 0]

LEMMA WantedType ==
    ASSUME RateTypeOK, NEW list \in UserLists
    PROVE  /\ DOMAIN list \subseteq Users /\ \A u \in DOMAIN list : list[u] \in Rates
           /\ Wanted(list) \in [Scopes -> Rates]
<1>1. PICK D \in SUBSET Users : list \in [D -> Rates]
  BY DEF UserLists
<1> QED
  BY <1>1, ScopeFacts, RateAssumption DEF Wanted, RateTypeOK

LEMMA UpdateUsersType ==
    ASSUME RateTypeOK, NEW list \in UserLists, UpdateUsers(list) PROVE RateTypeOK'
<1>1. /\ Replace({u \in DOMAIN list : ~Reuses(u, list[u])}, Users \ DOMAIN list, Wanted(list))
      /\ room' = [s \in Scopes |-> IF Wanted(list)[s] = limit[s] THEN room[s]
                                   ELSE FullRoom(Wanted(list)[s])]
  BY DEF UpdateUsers, Wanted
<1>2. Wanted(list) \in [Scopes -> Rates]
  BY WantedType
<1>3. room' \in [Scopes -> Int]
  BY <1>1, <1>2, FullRoomType, RateAssumption DEF RateTypeOK
<1> QED
  BY <1>1, <1>2, <1>3, ReplaceType

LEMMA ScopeType ==
    ASSUME RateTypeOK, NEW c \in Conns
    PROVE  Scope(c) \in Scopes /\ (Scope(c) = Node \/ Scope(c) = owner[c])
BY ScopeFacts DEF Scope, RateTypeOK

LEMMA TransferredType ==
    ASSUME RateTypeOK, NEW c \in Conns, NEW k \in Chunks, Transferred(c, k) PROVE RateTypeOK'
<1>1. Snapshot(c) \in [Scopes -> Gens \cup {Nil}]
  BY DEF Snapshot, RateTypeOK
<1> QED
  BY <1>1 DEF Transferred, RateTypeOK, limits, Stages

LEMMA ReserveType ==
    ASSUME RateTypeOK, NEW c \in Conns, Reserve(c) PROVE RateTypeOK'
<1> DEFINE s == Scope(c)
           g == snap[c][s]
           after == bucket[s][g].tokens - Min({n[c], bucket[s][g].burst})
<1>1. s \in Scopes
  BY ScopeType
<1>2. bucket' \in [Scopes -> [Gens -> Bucket]] /\ debt' \in [Conns -> Nat]
  <2>1. CASE g = Nil
    BY <2>1 DEF Reserve, RateTypeOK
  <2>2. CASE g # Nil
    <3>1. g \in Gens /\ bucket[s][g] \in Bucket
      BY <1>1, <2>2 DEF RateTypeOK
    <3>2. n[c] \in Int /\ bucket[s][g].burst \in Int /\ bucket[s][g].tokens \in Int
      BY <3>1, MaxOfChunks, RateAssumption DEF RateTypeOK, Bucket
    <3>3. after \in Int
      BY <3>2, MinOfTwo
    <3>4. bucket' = [bucket EXCEPT ![s][g].tokens = after] /\ debt' = [debt EXCEPT ![c] = Max({0, -after})]
      BY <2>2 DEF Reserve
    <3> HIDE DEF after, g, s
    <3>5. Max({0, -after}) \in Nat
      BY <3>3, MaxOfTwo
    <3> QED
      BY <1>1, <3>1, <3>3, <3>4, <3>5 DEF RateTypeOK, Bucket
  <2> QED
    BY <2>1, <2>2
<1> QED
  BY <1>2 DEF Reserve, RateTypeOK, limits, Stages

LEMMA PassType ==
    ASSUME RateTypeOK, NEW c \in Conns, Pass(c) PROVE RateTypeOK'
<1>1. Scope(c) \in Scopes /\ n[c] \in Int
  BY ScopeType, MaxOfChunks DEF RateTypeOK
<1>2. bucket' \in [Scopes -> [Gens -> Bucket]]
  BY CollectType DEF Pass, RateTypeOK
<1>3. /\ stage' \in [Conns -> Stages] /\ n' \in [Conns -> Chunks \cup {0}]
      /\ snap' \in [Conns -> [Scopes -> Gens \cup {Nil}]]
  BY <1>1 DEF Pass, RateTypeOK, Stages
<1>4. room' \in [Scopes -> Int]
  BY <1>1 DEF Pass, RateTypeOK
<1> QED
  BY <1>2, <1>3, <1>4 DEF Pass, RateTypeOK, limits

LEMMA TickType ==
    ASSUME RateTypeOK, DebtsAsleep, Tick PROVE RateTypeOK'
<1>1. bucket' \in [Scopes -> [Gens -> Bucket]]
  <2> SUFFICES ASSUME NEW s \in Scopes, NEW g \in Gens
               PROVE  [bucket[s][g] EXCEPT !.tokens =
                         Min({bucket[s][g].burst, @ + bucket[s][g].rate})] \in Bucket
    BY DEF Tick
  <2>1. bucket[s][g] \in Bucket /\ bucket[s][g].burst \in Int
        /\ bucket[s][g].tokens + bucket[s][g].rate \in Int
    BY RateAssumption DEF RateTypeOK, Bucket
  <2>2. Min({bucket[s][g].burst, bucket[s][g].tokens + bucket[s][g].rate}) \in Int
    BY <2>1, MinOfTwo
  <2> QED
    BY <2>1, <2>2 DEF Bucket
<1>2. debt' \in [Conns -> Nat]
  <2> SUFFICES ASSUME NEW c \in Conns, debt[c] # 0
               PROVE  Max({0, debt[c] - bucket[Scope(c)][snap[c][Scope(c)]].rate}) \in Nat
    BY DEF Tick
  <2>1. Scope(c) \in Scopes /\ snap[c][Scope(c)] \in Gens
    BY ScopeType DEF DebtsAsleep, RateTypeOK
  <2>2. debt[c] - bucket[Scope(c)][snap[c][Scope(c)]].rate \in Int
    BY <2>1 DEF RateTypeOK, Bucket
  <2> QED
    BY <2>2, MaxOfTwo
<1>3. room' \in [Scopes -> Int]
  <2>1. \A s \in Scopes : limit[s] \in Int /\ FullRoom(limit[s]) \in Int /\ room[s] \in Int
    BY FullRoomType, RateAssumption DEF RateTypeOK
  <2>2. ASSUME NEW s \in Scopes
        PROVE  Min({FullRoom(limit[s]), room[s] + limit[s]}) \in Int
    <3>1. FullRoom(limit[s]) \in Int /\ room[s] + limit[s] \in Int
      BY <2>1
    <3> QED
      BY <3>1, MinOfTwo
  <2> QED
    BY <2>1, <2>2 DEF Tick
<1> QED
  BY <1>1, <1>2, <1>3 DEF Tick, RateTypeOK, limits

-----------------------------------------------------------------------------
(* Debts                                                                   *)

LEMMA DebtsStep ==
    ASSUME RateTypeOK, DebtsAsleep, RateNext PROVE DebtsAsleep'
<1> SUFFICES ASSUME NEW d \in Conns, debt'[d] # 0
             PROVE  /\ stage'[d] \in {"sleepNode", "sleepUser"}
                    /\ snap'[d][Scope(d)'] # Nil
  BY DEF DebtsAsleep
<1>0. debt[d] # 0 => stage[d] \in {"sleepNode", "sleepUser"} /\ snap[d][Scope(d)] # Nil
  BY DEF DebtsAsleep
<1>1. ASSUME NEW c \in Conns, Reserve(c)
      PROVE  stage'[d] \in {"sleepNode", "sleepUser"} /\ snap'[d][Scope(d)'] # Nil
  <2>1. CASE d = c
    <3>1. debt[d] = 0 /\ stage[d] \in {"askNode", "askUser"}
      BY <1>0, <1>1, <2>1 DEF Reserve
    <3>2. snap[d][Scope(d)] # Nil /\ snap' = snap
      BY <1>1, <2>1, <3>1 DEF Reserve
    <3>3. Scope(d)' = Scope(d) /\ stage'[d] \in {"sleepNode", "sleepUser"}
      <4>1. /\ stage \in [Conns -> Stages] /\ owner' = owner
            /\ stage' = [stage EXCEPT ![d] =
                             IF @ = "askNode" THEN "sleepNode" ELSE "sleepUser"]
        BY <1>1, <2>1 DEF Reserve, RateTypeOK, limits
      <4>2. stage'[d] = IF stage[d] = "askNode" THEN "sleepNode" ELSE "sleepUser"
        BY <4>1
      <4> QED
        BY <3>1, <4>1, <4>2 DEF Scope
    <3> QED
      BY <3>2, <3>3
  <2>2. CASE d # c
    BY <1>0, <1>1, <2>2 DEF Reserve, Scope, RateTypeOK, limits
  <2> QED
    BY <2>1, <2>2
<1>2. ASSUME NEW c \in Conns, Pass(c)
      PROVE  stage'[d] \in {"sleepNode", "sleepUser"} /\ snap'[d][Scope(d)'] # Nil
  <2>1. /\ debt' = debt /\ owner' = owner /\ debt[c] = 0
        /\ stage' = [stage EXCEPT ![c] = IF @ = "sleepNode" THEN "askUser" ELSE "io"]
        /\ snap' = [snap EXCEPT ![c][Scope(c)] = Nil]
    BY <1>2 DEF Pass, limits
  <2>2. d # c
    BY <2>1
  <2>3. stage'[d] = stage[d] /\ snap'[d] = snap[d]
    BY <2>1, <2>2 DEF RateTypeOK
  <2> QED
    BY <1>0, <2>1, <2>3 DEF Scope
<1>3. ASSUME NEW c \in Conns, NEW k \in Chunks, Transferred(c, k)
      PROVE  stage'[d] \in {"sleepNode", "sleepUser"} /\ snap'[d][Scope(d)'] # Nil
  <2>1. /\ debt' = debt /\ owner' = owner /\ stage[c] = "io"
        /\ stage' = [stage EXCEPT ![c] = "askNode"]
        /\ snap' = [snap EXCEPT ![c] = Snapshot(c)]
    BY <1>3 DEF Transferred, limits
  <2>2. d # c
    BY <1>0, <2>1
  <2>3. stage'[d] = stage[d] /\ snap'[d] = snap[d]
    BY <2>1, <2>2 DEF RateTypeOK
  <2> QED
    BY <1>0, <2>1, <2>3 DEF Scope
<1>4. CASE Tick
  BY <1>0, <1>4 DEF Tick, Scope, limits
<1>5. ASSUME NEW fresh, NEW gone, NEW want, Replace(fresh, gone, want)
      PROVE  stage'[d] \in {"sleepNode", "sleepUser"} /\ snap'[d][Scope(d)'] # Nil
  BY <1>0, <1>5 DEF Replace, Scope
<1> QED
  BY <1>1, <1>2, <1>3, <1>4, <1>5 DEF RateNext, Shape, UpdateConfig, UpdateUsers

-----------------------------------------------------------------------------
(* Reloads                                                                 *)

\* Collect leaves the buckets that the scopes point to.
LEMMA CollectKeeps ==
    ASSUME NEW b, Collect(b), NEW s \in Scopes, cur'[s] \in Gens
    PROVE  bucket'[s][cur'[s]] = b[s][cur'[s]]
BY DEF Collect

\* A reload changes no chunk, so a scope that keeps its pointer keeps its sums.
LEMMA ReplaceKeeps ==
    ASSUME RateTypeOK, NEW s \in Scopes, ScopeInv(s), NEW fresh, NEW gone, NEW want,
           Replace(fresh, gone, want), s \notin fresh, s \notin gone,
           want[s] = limit[s], room'[s] = room[s]
    PROVE  ScopeInv(s)'
<1>1. cur'[s] = cur[s] /\ limit'[s] = limit[s]
  BY DEF Replace
<1>2. /\ \A c \in Conns : Load(s)'[c] = Load(s)[c]
      /\ \A x \in Nat : \A c \in Conns : Owing(s, x)'[c] = Owing(s, x)[c]
  BY <1>1 DEF Replace, Load, Owing, WillPass, Asleep
<1>3. ASSUME limit[s] > 0 PROVE bucket'[s][cur[s]] = bucket[s][cur[s]]
  <2>1. cur[s] \in Gens
    BY <1>3 DEF ScopeInv, BucketFollows, RateTypeOK
  <2> QED
    BY <1>1, <2>1 DEF Replace, Collect
<1> QED
  BY <1>1, <1>2, <1>3, ScopeKept

LEMMA ReplaceRenews ==
    ASSUME RateTypeOK, RateTypeOK', NEW s \in Scopes, NEW fresh, NEW gone, NEW want,
           Replace(fresh, gone, want), s \in fresh, want[s] > 0,
           room'[s] = FullRoom(want[s])
    PROVE  ScopeInv(s)'
<1>1. limit'[s] = want[s] /\ cur'[s] = Unused(s)
  BY DEF Replace, Limited
<1>2. Unused(s) \in Gens /\ Unused(s) # Nil
  BY UnusedExists
<1>3. bucket'[s][cur'[s]] = newBucket(want[s])
  BY <1>1, <1>2 DEF Replace, Collect, Limited
<1> QED
  BY <1>1, <1>2, <1>3, ScopeRenewed

LEMMA UpdateConfigStep ==
    ASSUME RateInv, RateTypeOK', NEW rate \in Rates, UpdateConfig(rate), NEW s \in Scopes
    PROVE  ScopeInv(s)'
<1>0. RateTypeOK /\ ScopeInv(s) /\ rate \in Int
  BY RateAssumption DEF RateInv
<1> DEFINE want == [limit EXCEPT ![Node] = rate]
<1>1. Replace({Node}, {}, want) /\ room' = [room EXCEPT ![Node] = FullRoom(rate)]
  BY DEF UpdateConfig
<1>2. CASE s # Node
  <2>1. want[s] = limit[s] /\ room'[s] = room[s] /\ s \notin {Node} /\ s \notin {}
    BY <1>0, <1>1, <1>2 DEF RateTypeOK
  <2> HIDE DEF want
  <2> QED
    BY <1>0, <1>1, <2>1, ReplaceKeeps
<1>3. CASE s = Node
  <2>1. want[s] = rate /\ room'[s] = FullRoom(rate) /\ s \in {Node}
    BY <1>0, <1>1, <1>3 DEF RateTypeOK
  <2> HIDE DEF want
  <2>2. CASE rate > 0
    BY <1>0, <1>1, <2>1, <2>2, ReplaceRenews
  <2>3. CASE ~(rate > 0)
    BY <1>1, <2>1, <2>3, ScopeFreed DEF Replace, Limited, FullRoom
  <2> QED
    BY <2>2, <2>3
<1> QED
  BY <1>2, <1>3

LEMMA UpdateUsersStep ==
    ASSUME RateInv, RateTypeOK', NEW list \in UserLists, UpdateUsers(list), NEW s \in Scopes
    PROVE  ScopeInv(s)'
<1>0. RateTypeOK /\ ScopeInv(s) /\ limit[s] \in Int
  BY RateAssumption DEF RateInv, RateTypeOK
<1> DEFINE want  == Wanted(list)
           fresh == {u \in DOMAIN list : ~Reuses(u, list[u])}
           gone  == Users \ DOMAIN list
<1>1. /\ Replace(fresh, gone, want)
      /\ room'[s] = IF want[s] = limit[s] THEN room[s] ELSE FullRoom(want[s])
  BY DEF UpdateUsers, Wanted
<1>2. /\ DOMAIN list \subseteq Users /\ want[s] \in Int
      /\ s \in DOMAIN list => want[s] = list[s]
      /\ s = Node => want[s] = limit[s]
      /\ s \in gone => want[s] = 0
  BY <1>0, WantedType, ScopeFacts, RateAssumption DEF Wanted
<1>3. CASE s \notin fresh /\ s \notin gone
  <2>1. want[s] = limit[s]
    <3>1. CASE s = Node
      BY <1>2, <3>1
    <3>2. CASE s # Node
      <4>1. s \in DOMAIN list /\ Reuses(s, list[s])
        BY <1>3, <3>2, ScopeFacts
      <4> QED
        BY <1>0, <1>2, <4>1 DEF Reuses, ScopeInv, BucketFollows
    <3> QED
      BY <3>1, <3>2
  <2>2. room'[s] = room[s]
    BY <1>1, <2>1
  <2> HIDE DEF want, fresh, gone
  <2> QED
    BY <1>0, <1>1, <1>3, <2>1, <2>2, ReplaceKeeps
<1>4. CASE want[s] > 0 /\ (s \in fresh \/ s \in gone)
  <2>1. s \in fresh /\ s \in DOMAIN list /\ want[s] = list[s]
    BY <1>2, <1>4
  <2>2. want[s] # limit[s]
    BY <1>0, <1>4, <2>1 DEF Reuses, ScopeInv, BucketFollows
  <2>3. room'[s] = FullRoom(want[s])
    BY <1>1, <2>2
  <2> HIDE DEF want, fresh, gone
  <2> QED
    BY <1>0, <1>1, <1>4, <2>1, <2>3, ReplaceRenews
<1>5. CASE ~(want[s] > 0) /\ (s \in fresh \/ s \in gone)
  <2>1. room'[s] = 0
    BY <1>0, <1>1, <1>5 DEF FullRoom, ScopeInv, BucketFollows
  <2> HIDE DEF want, fresh, gone
  <2>2. limit'[s] = want[s] /\ cur'[s] = Nil
    BY <1>1, <1>5 DEF Replace, Limited
  <2> QED
    BY <1>5, <2>1, <2>2, ScopeFreed
<1> QED
  BY <1>3, <1>4, <1>5

-----------------------------------------------------------------------------
(* Chunks                                                                  *)

\* A connection that does not move keeps its place in every sum.
LEMMA ConnKept ==
    ASSUME NEW d \in Conns, NEW s \in Scopes, owner' = owner, cur' = cur,
           stage'[d] = stage[d], snap'[d] = snap[d], n'[d] = n[d], debt'[d] = debt[d]
    PROVE  /\ Load(s)'[d] = Load(s)[d]
           /\ \A x \in Nat : Owing(s, x)'[d] = Owing(s, x)[d]
BY DEF Load, Owing, WillPass, Asleep

LEMMA TransferredStep ==
    ASSUME RateInv, NEW c \in Conns, NEW k \in Chunks, Transferred(c, k), NEW s \in Scopes
    PROVE  ScopeInv(s)'
<1>0. RateTypeOK /\ ScopeInv(s) /\ owner[c] \in Users
  BY DEF RateInv, RateTypeOK
<1>1. limit'[s] = limit[s] /\ cur' = cur /\ owner' = owner /\ room'[s] = room[s] /\ bucket' = bucket
  BY DEF Transferred, limits
<1>2. ASSUME NEW d \in Conns \ {c}
      PROVE  /\ Load(s)'[d] = Load(s)[d]
             /\ \A x \in Nat : Owing(s, x)'[d] = Owing(s, x)[d]
  BY <1>0, <1>1, ConnKept DEF Transferred, RateTypeOK
<1>3. stage[c] = "io" /\ stage'[c] = "askNode"
  BY <1>0 DEF Transferred, RateTypeOK
<1>4. s \in {Node, owner[c]} => snap'[c][s] = cur[s]
  BY <1>0 DEF Transferred, Snapshot, RateTypeOK
<1>5. Load(s)'[c] = 0 /\ Load(s)[c] = 0
  BY <1>1, <1>3, <1>4 DEF Load, WillPass, Asleep
<1>6. \A x \in Nat : Owing(s, x)'[c] = 0 /\ Owing(s, x)[c] = 0
  BY <1>1, <1>3 DEF Owing, Asleep
<1> QED
  BY <1>0, <1>1, <1>2, <1>5, <1>6, ScopeKept

\* A reservation moves tokens of the bucket it asks to the load of its scope.
LEMMA ReserveElsewhere ==
    ASSUME RateTypeOK, NEW c \in Conns, Reserve(c), NEW s \in Scopes, ScopeInv(s),
           s # Scope(c) \/ snap[c][s] # cur[s]
    PROVE  ScopeInv(s)'
<1>0. owner[c] \in Users /\ Scope(c) \in Scopes /\ Node \notin Users
  BY ScopeType, ScopeFacts DEF RateTypeOK
<1>1. limit'[s] = limit[s] /\ cur' = cur /\ owner' = owner /\ room'[s] = room[s]
      /\ snap' = snap /\ n' = n
  BY DEF Reserve, limits
<1>2. ASSUME NEW d \in Conns \ {c}
      PROVE  /\ Load(s)'[d] = Load(s)[d]
             /\ \A x \in Nat : Owing(s, x)'[d] = Owing(s, x)[d]
  <2>1. stage'[d] = stage[d] /\ debt'[d] = debt[d]
    <3>1. stage \in [Conns -> Stages] /\ debt \in [Conns -> Nat]
      BY DEF RateTypeOK
    <3>2. stage' = [stage EXCEPT ![c] = IF @ = "askNode" THEN "sleepNode" ELSE "sleepUser"]
      BY DEF Reserve
    <3>3. debt' = debt \/ \E v : debt' = [debt EXCEPT ![c] = v]
      BY Zenon DEF Reserve
    <3> QED
      BY <3>1, <3>2, <3>3
  <2> QED
    BY <1>1, <2>1, ConnKept
<1>3. /\ stage[c] = "askNode" => stage'[c] = "sleepNode" /\ Scope(c) = Node
      /\ stage[c] = "askUser" => stage'[c] = "sleepUser" /\ Scope(c) = owner[c]
      /\ stage[c] \in {"askNode", "askUser"}
  BY DEF Reserve, RateTypeOK, Scope
<1>4. Load(s)'[c] = Load(s)[c]
  BY <1>0, <1>1, <1>3 DEF Load, WillPass, Asleep
<1>5. \A x \in Nat : Owing(s, x)'[c] = 0 /\ Owing(s, x)[c] = 0
  BY <1>0, <1>1, <1>3 DEF Owing, Asleep
<1>6. ASSUME limit[s] > 0 PROVE bucket'[s][cur[s]] = bucket[s][cur[s]]
  <2> DEFINE r == Scope(c)
             g == snap[c][r]
             after == bucket[r][g].tokens - Min({n[c], bucket[r][g].burst})
  <2>1. cur[s] \in Gens
    BY <1>6 DEF ScopeInv, BucketFollows, RateTypeOK
  <2>2. bucket' = bucket \/ bucket' = [bucket EXCEPT ![r][g].tokens = after]
    BY DEF Reserve
  <2>3. s # r \/ cur[s] # g
    OBVIOUS
  <2> HIDE DEF r, g, after
  <2> QED
    BY <2>1, <2>2, <2>3 DEF RateTypeOK
<1> QED
  BY <1>1, <1>2, <1>4, <1>5, <1>6, ScopeKept

LEMMA ReserveHere ==
    ASSUME RateTypeOK, DebtsAsleep, NEW c \in Conns, Reserve(c), NEW s \in Scopes,
           ScopeInv(s), s = Scope(c), snap[c][s] = cur[s], RateTypeOK'
    PROVE  ScopeInv(s)'
<1>0. owner[c] \in Users /\ Node \notin Users
  BY ScopeFacts DEF RateTypeOK
<1>1. limit' = limit /\ cur' = cur /\ owner' = owner /\ room' = room /\ snap' = snap /\ n' = n
  BY DEF Reserve, limits
<1>2. CASE ~(limit[s] > 0)
  BY <1>1, <1>2, ScopeFreed DEF ScopeInv, BucketFollows
<1>3. CASE limit[s] > 0
  <2> DEFINE g == cur[s]
  <2>1. g \in Gens /\ g # Nil /\ bucket[s][g] \in Bucket /\ limit[s] \in Int
    BY <1>3, RateAssumption DEF ScopeInv, BucketFollows, RateTypeOK
  <2>2. PICK b : b = Burst(limit[s]) /\ b \in Int /\ b >= MinBurst
    BY <2>1, BurstClamped, RateAssumption
  <2>3. n[c] \in Nat /\ n[c] <= b
    <3>1. n[c] \in Chunks \cup {0} /\ MinBurst \in Nat
      BY RateAssumption DEF RateTypeOK
    <3>2. n[c] \in Nat /\ n[c] <= MinBurst
      BY <3>1, MaxOfChunks
    <3> QED
      BY <2>2, <3>1, <3>2
  <2>4. PICK t : t = Tokens(s) /\ t \in Int /\ t <= b
    BY <1>3, <2>1, <2>2 DEF ScopeInv, BucketFollows, Tokens, Bucket
  <2>5. bucket[s][g].burst = b /\ bucket[s][g].tokens = t /\ bucket[s][g].rate = limit[s]
    BY <1>3, <2>2, <2>4 DEF ScopeInv, BucketFollows, Tokens
  <2>6. Min({n[c], bucket[s][g].burst}) = n[c]
    BY <2>2, <2>3, <2>5, MinOfTwo
  <2>7. /\ bucket' = [bucket EXCEPT ![s][g].tokens = t - n[c]]
        /\ debt' = [debt EXCEPT ![c] = Max({0, -(t - n[c])})]
    BY <2>1, <2>5, <2>6 DEF Reserve
  <2>8. Tokens(s)' = t - n[c] /\ bucket'[s][g].burst = b /\ bucket'[s][g].rate = limit[s]
    BY <1>1, <2>1, <2>5, <2>7 DEF Tokens, RateTypeOK, Bucket
  <2>9. debt'[c] = IF t - n[c] < 0 THEN n[c] - t ELSE 0
    <3>1. -(t - n[c]) \in Int
      BY <2>3, <2>4
    <3>2. Max({0, -(t - n[c])}) = IF 0 >= -(t - n[c]) THEN 0 ELSE -(t - n[c])
      BY <3>1, MaxOfTwo
    <3> QED
      BY <2>3, <2>4, <2>7, <3>2 DEF RateTypeOK
  <2>10. /\ Asleep(c, s)' /\ WillPass(c, s)' /\ WillPass(c, s) /\ ~Asleep(c, s)
    BY <1>0, <1>1 DEF Reserve, RateTypeOK, Scope, Asleep, WillPass
  <2>11. ASSUME NEW d \in Conns \ {c}
        PROVE  /\ Load(s)'[d] = Load(s)[d]
               /\ \A x \in Nat : Owing(s, x)'[d] = Owing(s, x)[d]
    BY <1>1, ConnKept DEF Reserve, RateTypeOK
  <2>12. BucketFollows(s)'
    BY <1>1, <1>3, <2>1, <2>2, <2>3, <2>4, <2>8 DEF BucketFollows, Burst
  <2>13. RoomLeft(s)'
    <3>1. Load(s)'[c] = n[c] /\ Load(s)[c] = 0
      BY <1>1, <2>10 DEF Load
    <3>2. Sum(Load(s))' + 0 = Sum(Load(s)) + n[c]
      BY <2>3, <2>11, <3>1, LoadSums, RateAssumption, SumUpdate DEF Sum
    <3>3. Sum(Load(s)) \in Nat
      BY LoadSums
    <3>5. Sum(Load(s))' \in Nat
      BY SumsNext
    <3>4. room[s] >= t + Sum(Load(s)) /\ room[s] \in Int
      BY <1>3, <2>4 DEF ScopeInv, RoomLeft, RateTypeOK
    <3> QED
      BY <1>1, <2>3, <2>4, <2>8, <3>2, <3>3, <3>4, <3>5 DEF RoomLeft
  <2>14. DebtsCover(s)'
    <3> SUFFICES ASSUME NEW x \in Nat PROVE -Tokens(s)' - x <= Sum(Owing(s, x))'
      BY DEF DebtsCover
    <3>1. Sum(Owing(s, x)) \in Nat
      BY OwingSums
    <3>6. Sum(Owing(s, x))' \in Nat
      BY SumsNext
    <3>2. -t - x <= Sum(Owing(s, x))
      BY <1>3, <2>4 DEF ScopeInv, DebtsCover
    <3>3. Owing(s, x)[c] = 0 /\ Owing(s, x)'[c] = IF debt'[c] > x THEN n[c] ELSE 0
      BY <1>1, <2>10 DEF Owing
    <3>4. CASE debt'[c] > x
      <4>1. Sum(Owing(s, x))' + 0 = Sum(Owing(s, x)) + n[c]
        BY <2>3, <2>11, <3>3, <3>4, OwingSums, RateAssumption, SumUpdate DEF Sum
      <4> QED
        BY <2>3, <2>4, <2>8, <3>1, <3>2, <3>6, <4>1
    <3>5. CASE ~(debt'[c] > x)
      BY <2>3, <2>4, <2>8, <2>9, <3>5, <3>6
    <3> QED
      BY <3>4, <3>5
  <2> QED
    BY <2>12, <2>13, <2>14 DEF ScopeInv
<1> QED
  BY <1>2, <1>3

LEMMA ReserveStep ==
    ASSUME RateInv, RateTypeOK', NEW c \in Conns, Reserve(c), NEW s \in Scopes
    PROVE  ScopeInv(s)'
<1>1. RateTypeOK /\ DebtsAsleep /\ ScopeInv(s)
  BY DEF RateInv
<1>2. CASE s = Scope(c) /\ snap[c][s] = cur[s]
  BY <1>1, <1>2, ReserveHere
<1>3. CASE s # Scope(c) \/ snap[c][s] # cur[s]
  BY <1>1, <1>3, ReserveElsewhere
<1> QED
  BY <1>2, <1>3

\* A chunk that passes leaves the load of its scope and the room with it.
LEMMA PassStep ==
    ASSUME RateInv, RateTypeOK', NEW c \in Conns, Pass(c), NEW s \in Scopes
    PROVE  ScopeInv(s)'
<1>0. RateTypeOK /\ ScopeInv(s) /\ owner[c] \in Users /\ Node \notin Users
  BY ScopeFacts DEF RateInv, RateTypeOK
<1>1. limit' = limit /\ cur' = cur /\ owner' = owner /\ debt' = debt
  BY DEF Pass, limits
<1>2. ASSUME NEW d \in Conns \ {c}
      PROVE  /\ Load(s)'[d] = Load(s)[d]
             /\ \A x \in Nat : Owing(s, x)'[d] = Owing(s, x)[d]
  BY <1>0, <1>1, ConnKept DEF Pass, RateTypeOK
<1>3. /\ stage[c] = "sleepNode" => stage'[c] = "askUser" /\ Scope(c) = Node /\ n' = n
      /\ stage[c] = "sleepUser" => stage'[c] = "io" /\ Scope(c) = owner[c]
      /\ stage[c] \in {"sleepNode", "sleepUser"} /\ debt[c] = 0
  BY <1>0 DEF Pass, RateTypeOK, Scope
<1>4. \A x \in Nat : Owing(s, x)'[c] = 0 /\ Owing(s, x)[c] = 0
  BY <1>1, <1>3 DEF Owing
<1>5. ASSUME limit[s] > 0 PROVE bucket'[s][cur[s]] = bucket[s][cur[s]]
  <2>1. cur'[s] \in Gens /\ cur'[s] = cur[s]
    BY <1>0, <1>1, <1>5 DEF ScopeInv, BucketFollows, RateTypeOK
  <2> QED
    BY <2>1, CollectKeeps DEF Pass
<1>6. CASE ~(limit[s] > 0)
  <2>1. room'[s] = room[s]
    BY <1>0, <1>6 DEF Pass, RateTypeOK
  <2> QED
    BY <1>0, <1>1, <1>6, <2>1, ScopeFreed DEF ScopeInv, BucketFollows
<1>7. CASE limit[s] > 0 /\ s # Scope(c)
  <2>1. room'[s] = room[s]
    BY <1>0, <1>7 DEF Pass, RateTypeOK
  <2>2. snap'[c][s] = snap[c][s]
    BY <1>0, <1>7 DEF Pass, RateTypeOK
  <2>3. Load(s)'[c] = Load(s)[c]
    BY <1>0, <1>1, <1>3, <1>7, <2>2 DEF Load, WillPass, Asleep
  <2> QED
    BY <1>0, <1>1, <1>2, <1>4, <1>5, <2>1, <2>3, ScopeKept
<1>8. CASE limit[s] > 0 /\ s = Scope(c)
  <2>1. n[c] \in Nat /\ room[s] \in Int /\ room'[s] = room[s] - n[c]
    BY <1>0, <1>8, MaxOfChunks DEF Pass, RateTypeOK
  <2>2. Load(s)'[c] = 0 /\ Load(s)[c] = n[c]
    BY <1>0, <1>1, <1>3, <1>8 DEF Load, WillPass, Asleep
  <2>3. Sum(Load(s))' + n[c] = Sum(Load(s)) + 0
    BY <1>0, <1>2, <2>1, <2>2, LoadSums, RateAssumption, SumUpdate DEF Sum
  <2>4. PICK t : t = Tokens(s) /\ t \in Int
    BY <1>0, <1>8 DEF ScopeInv, BucketFollows, Tokens, RateTypeOK, Bucket
  <2>5. Tokens(s)' = t
    BY <1>1, <1>5, <1>8, <2>4 DEF Tokens
  <2>6. BucketFollows(s)'
    BY <1>0, <1>1, <1>5, <1>8, <2>4, <2>5 DEF ScopeInv, BucketFollows, Burst
  <2>7. RoomLeft(s)'
    <3>1. room[s] >= t + Sum(Load(s)) /\ Sum(Load(s)) \in Nat
      BY <1>0, <1>8, <2>4, LoadSums DEF ScopeInv, RoomLeft
    <3> QED
      BY <2>1, <2>3, <2>4, <2>5, <3>1, SumsNext DEF RoomLeft
  <2>8. DebtsCover(s)'
    <3> SUFFICES ASSUME NEW x \in Nat PROVE -Tokens(s)' - x <= Sum(Owing(s, x))'
      BY DEF DebtsCover
    <3>1. Sum(Owing(s, x))' = Sum(Owing(s, x))
      BY <1>0, <1>2, <1>4, OwingSums, RateAssumption, SumEqual DEF Sum
    <3>2. -t - x <= Sum(Owing(s, x))
      BY <1>0, <1>8, <2>4 DEF ScopeInv, DebtsCover
    <3> QED
      BY <2>5, <3>1, <3>2
  <2> QED
    BY <2>6, <2>7, <2>8 DEF ScopeInv
<1> QED
  BY <1>6, <1>7, <1>8

\* As time passes the tokens grow and the debts shrink at the same rate.
LEMMA TickStep ==
    ASSUME RateInv, RateTypeOK', Tick, NEW s \in Scopes
    PROVE  ScopeInv(s)'
<1>0. RateTypeOK /\ DebtsAsleep /\ ScopeInv(s) /\ limit[s] \in Int
  BY RateAssumption DEF RateInv, RateTypeOK
<1>1. /\ limit' = limit /\ cur' = cur /\ owner' = owner
      /\ stage' = stage /\ n' = n /\ snap' = snap
  BY DEF Tick, limits
<1>2. CASE ~(limit[s] > 0)
  BY <1>0, <1>1, <1>2, ScopeFreed DEF Tick, ScopeInv, BucketFollows
<1>3. CASE limit[s] > 0
  <2> DEFINE g == cur[s]
  <2>1. g \in Gens /\ bucket[s][g] \in Bucket
    BY <1>0, <1>3 DEF ScopeInv, BucketFollows, RateTypeOK
  <2>2. PICK b : b = Burst(limit[s]) /\ b \in Nat
    BY <1>0, BurstClamped, RateAssumption
  <2>3. PICK r : r = limit[s] /\ r \in Nat /\ r > 0
    BY <1>0, <1>3
  <2>4. PICK t : t = Tokens(s) /\ t \in Int /\ t <= b
    BY <1>0, <1>3, <2>1, <2>2 DEF ScopeInv, BucketFollows, Tokens, Bucket
  <2>5. bucket[s][g].burst = b /\ bucket[s][g].rate = r /\ bucket[s][g].tokens = t
    BY <1>0, <1>3, <2>2, <2>3, <2>4 DEF ScopeInv, BucketFollows, Tokens
  <2>6. Min({b, t + r}) = IF b <= t + r THEN b ELSE t + r
    <3>1. b \in Int /\ t + r \in Int
      BY <2>2, <2>3, <2>4
    <3> QED
      BY <3>1, MinOfTwo
  <2>7. /\ bucket'[s][g].burst = b /\ bucket'[s][g].rate = r
        /\ bucket'[s][g].tokens = IF b <= t + r THEN b ELSE t + r
    BY <2>1, <2>5, <2>6 DEF Tick, Bucket
  <2>8. Tokens(s)' = IF b <= t + r THEN b ELSE t + r
    BY <1>1, <2>7 DEF Tokens
  <2>9. BucketFollows(s)'
    BY <1>0, <1>1, <1>3, <2>2, <2>3, <2>4, <2>7, <2>8
    DEF ScopeInv, BucketFollows, Burst
  <2>10. RoomLeft(s)'
    <3>1. Load(s)' = Load(s)
      BY <1>1 DEF Load, WillPass, Asleep
    <3>2. PICK l : l = Sum(Load(s)) /\ l \in Nat /\ l <= Cardinality(Conns) * Max(Chunks)
      BY <1>0, LoadSums
    <3>3. PICK m : m = Cardinality(Conns) * Max(Chunks) /\ m \in Nat
      BY <1>0, LoadSums
    <3>4. PICK h : h = room[s] /\ h \in Int
      BY <1>0 DEF RateTypeOK
    <3>5. h >= t + l
      BY <1>0, <1>3, <2>4, <3>2, <3>4 DEF ScopeInv, RoomLeft
    <3>6. FullRoom(limit[s]) = b + m
      BY <1>3, <2>2, <3>3 DEF FullRoom
    <3>7. b + m \in Int /\ h + r \in Int
      BY <2>2, <2>3, <3>3, <3>4
    <3>8. room'[s] = IF b + m <= h + r THEN b + m ELSE h + r
      BY <1>3, <2>3, <3>4, <3>6, <3>7, MinOfTwo DEF Tick
    <3>9. Sum(Load(s))' = l
      BY <3>1, <3>2 DEF Sum
    <3> QED
      BY <2>2, <2>3, <2>4, <2>8, <3>2, <3>3, <3>4, <3>5, <3>8, <3>9 DEF RoomLeft
  <2>11. DebtsCover(s)'
    <3> SUFFICES ASSUME NEW x \in Nat PROVE -Tokens(s)' - x <= Sum(Owing(s, x))'
      BY DEF DebtsCover
    <3> DEFINE y == x + r
    <3>1. y \in Nat
      BY <2>3
    <3>2. ASSUME NEW c \in Conns PROVE Owing(s, x)'[c] = Owing(s, y)[c]
      <4>1. CASE Asleep(c, s) /\ snap[c][s] = g
        <5>1. Scope(c) = s
          BY <1>0, <4>1, ScopeFacts DEF Asleep, Scope, RateTypeOK
        <5>2. bucket[Scope(c)][snap[c][Scope(c)]].rate = r
          BY <2>5, <4>1, <5>1
        <5>3. debt[c] \in Nat /\ debt[c] - r \in Int
          BY <1>0, <2>3 DEF RateTypeOK
        <5>4. Max({0, debt[c] - r}) = IF 0 >= debt[c] - r THEN 0 ELSE debt[c] - r
          BY <5>3, MaxOfTwo
        <5>5. debt'[c] = IF debt[c] = 0 THEN 0 ELSE Max({0, debt[c] - r})
          BY <5>2 DEF Tick
        <5>6. debt'[c] > x <=> debt[c] > y
          BY <2>3, <5>3, <5>4, <5>5
        <5> HIDE DEF y
        <5> QED
          BY <1>1, <5>6 DEF Owing, Asleep
      <4>2. CASE ~(Asleep(c, s) /\ snap[c][s] = g)
        BY <1>1, <4>2 DEF Owing, Asleep
      <4> QED
        BY <4>1, <4>2
    <3>3. Sum(Owing(s, x))' = Sum(Owing(s, y)) /\ Sum(Owing(s, y)) \in Nat
      <4> HIDE DEF y
      <4>1. AllNat(Owing(s, y), Conns) /\ Sum(Owing(s, y)) \in Nat
        BY <1>0, <3>1, OwingSums
      <4> QED
        BY <3>2, <4>1, RateAssumption, SumEqual DEF Sum
    <3>4. -t - y <= Sum(Owing(s, y))
      <4> HIDE DEF y
      <4> QED
        BY <1>0, <1>3, <2>4, <3>1 DEF ScopeInv, DebtsCover
    <3> QED
      BY <2>2, <2>3, <2>4, <2>8, <3>3, <3>4
  <2> QED
    BY <2>9, <2>10, <2>11 DEF ScopeInv
<1> QED
  BY <1>2, <1>3

-----------------------------------------------------------------------------
LEMMA RateInitially == RateInit => RateInv
<1> SUFFICES ASSUME RateInit PROVE RateInv
  OBVIOUS
<1>1. RateTypeOK
  BY BucketTypes, RateAssumption DEF RateInit, RateTypeOK, Stages
<1>2. DebtsAsleep
  BY DEF RateInit, DebtsAsleep
<1>3. \A s \in Scopes : ScopeInv(s)
  BY DEF RateInit, ScopeInv, BucketFollows, RoomLeft, DebtsCover
<1> QED
  BY <1>1, <1>2, <1>3 DEF RateInv

LEMMA RateTypeStep == RateInv /\ [RateNext]_rateVars => RateTypeOK'
<1> SUFFICES ASSUME RateInv, [RateNext]_rateVars PROVE RateTypeOK'
  OBVIOUS
<1>0. RateTypeOK /\ DebtsAsleep
  BY DEF RateInv
<1>1. CASE UNCHANGED rateVars
  BY <1>0, <1>1 DEF RateTypeOK, rateVars, limits
<1> QED
  BY <1>0, <1>1, UpdateConfigType, UpdateUsersType, TransferredType, ReserveType,
     PassType, TickType DEF RateNext, Shape

LEMMA RateStep == RateInv /\ [RateNext]_rateVars => RateInv'
<1> SUFFICES ASSUME RateInv, [RateNext]_rateVars PROVE RateInv'
  OBVIOUS
<1>0. RateTypeOK /\ DebtsAsleep /\ RateTypeOK'
  BY RateTypeStep DEF RateInv
<1>1. CASE RateNext
  <2>1. DebtsAsleep'
    BY <1>0, <1>1, DebtsStep
  <2>2. ASSUME NEW s \in Scopes PROVE ScopeInv(s)'
    BY <1>0, <1>1, UpdateConfigStep, UpdateUsersStep, TransferredStep, ReserveStep,
       PassStep, TickStep DEF RateNext, Shape
  <2> QED
    BY <1>0, <2>1, <2>2 DEF RateInv
<1>2. CASE UNCHANGED rateVars
  <2>1. DebtsAsleep'
    BY <1>0, <1>2 DEF DebtsAsleep, Scope, rateVars, limits
  <2>2. ASSUME NEW s \in Scopes PROVE ScopeInv(s)'
    <3>1. ScopeInv(s) /\ limit' = limit /\ cur' = cur /\ room' = room /\ bucket' = bucket
      BY <1>2 DEF RateInv, rateVars, limits
    <3>2. \A c \in Conns : /\ Load(s)'[c] = Load(s)[c]
                           /\ \A x \in Nat : Owing(s, x)'[c] = Owing(s, x)[c]
      BY <1>2, ConnKept DEF rateVars, limits
    <3> QED
      BY <1>0, <3>1, <3>2, ScopeKept
  <2> QED
    BY <1>0, <2>1, <2>2 DEF RateInv
<1> QED
  BY <1>1, <1>2

LEMMA RateInvariance == RateSpec => []RateInv
BY RateInitially, RateStep, PTL DEF RateSpec

(* Reloads and waits keep pointers, buckets and reservations in their      *)
(* types; a reload finds a generation that no chunk holds any more.        *)
THEOREM LimitsTyped == RateSpec => []RateTypeOK
<1>1. RateInv => RateTypeOK
  BY DEF RateInv
<1> QED
  BY <1>1, RateInvariance, PTL

(* applyLimits, newBucket and the reuse of buckets in UpdateUsers hold     *)
(* every scope to its rate, one burst and one chunk per connection,        *)
(* whatever the number of connections that share it and of reloads.        *)
THEOREM LimitsHold == RateSpec => []LimitRespected
BY RateInvariance, Respected, PTL

-----------------------------------------------------------------------------
(* The same as an observer sees it: what has passed in a stretch and what  *)
(* may still pass are together no more than what the stretch allows.       *)
(* RateInv gives that room is never negative, so this is the whole of it.  *)
StretchInv(s) ==
    limit[s] > 0 =>
        /\ room[s] <= FullRoom(limit[s])
        /\ passed[s] + room[s] <= limit[s] * ticks[s] + FullRoom(limit[s])

Observed ==
    /\ ticks \in [Scopes -> Nat]
    /\ passed \in [Scopes -> Nat]

WindowInv == RateInv /\ Observed /\ \A s \in Scopes : StretchInv(s)

LEMMA AnotherTick ==
    ASSUME NEW r \in Nat, NEW t \in Nat
    PROVE  r * (t + 1) = r * t + r /\ r * t \in Nat
OBVIOUS

\* The observer only watches.
LEMMA WindowIsRate == [WindowNext]_windowVars => [RateNext]_rateVars
BY DEF WindowNext, windowVars, RateNext, Shape, Reloaded, Passed, Ticked, Watch

LEMMA ObservedStep ==
    ASSUME RateInv, Observed, [WindowNext]_windowVars PROVE Observed'
<1>1. \A S : Begins(S) => Observed'
  BY DEF Begins, Observed
<1>2. ASSUME NEW c \in Conns, Passed(c) PROVE Observed'
  <2>1. n[c] \in Nat
    BY MaxOfChunks DEF RateInv, RateTypeOK
  <2>2. \A s \in Scopes : passed[s] + n[c] \in Nat
    BY <2>1 DEF Observed
  <2>3. passed' = [passed EXCEPT ![Scope(c)] = @ + n[c]] /\ ticks' = ticks
    BY <1>2 DEF Passed
  <2>4. passed' \in [Scopes -> Nat]
    BY <2>2, <2>3 DEF Observed
  <2> QED
    BY <2>3, <2>4 DEF Observed
<1>3. Ticked => Observed'
  BY DEF Ticked, Observed
<1>4. UNCHANGED <<ticks, passed>> => Observed'
  BY DEF Observed
<1> QED
  BY <1>1, <1>2, <1>3, <1>4 DEF WindowNext, windowVars, Reloaded, Watch

\* A stretch that begins has nothing behind it.
LEMMA StretchBegins ==
    ASSUME NEW S, Begins(S), NEW s \in S, s \in Scopes, RateTypeOK',
           limit'[s] > 0 => room'[s] <= FullRoom(limit'[s])
    PROVE  StretchInv(s)'
<1>1. ticks'[s] = 0 /\ passed'[s] = 0
  BY DEF Begins
<1>2. limit'[s] \in Int /\ room'[s] \in Int
  <2>1. limit'[s] \in Rates /\ room'[s] \in Int
    BY DEF RateTypeOK
  <2> QED
    BY <2>1, RateAssumption
<1>3. PICK f \in Int : f = FullRoom(limit'[s])
  BY <1>2, FullRoomType
<1>4. limit'[s] * ticks'[s] = 0
  BY <1>1, <1>2
<1>5. limit'[s] > 0 => room'[s] <= f /\ passed'[s] + room'[s] <= 0 + f
  BY <1>1, <1>2, <1>3
<1> QED
  BY <1>3, <1>4, <1>5 DEF StretchInv, FullRoom

LEMMA StretchGoesOn ==
    ASSUME NEW s \in Scopes, StretchInv(s), limit'[s] = limit[s],
           room'[s] = room[s], ticks'[s] = ticks[s], passed'[s] = passed[s]
    PROVE  StretchInv(s)'
BY DEF StretchInv, FullRoom

LEMMA WindowReloaded ==
    ASSUME WindowInv, RateTypeOK', Reloaded, NEW s \in Scopes PROVE StretchInv(s)'
<1>0. /\ RateTypeOK /\ StretchInv(s)
      /\ \A r \in Int : FullRoom(r) \in Int
  BY FullRoomType DEF WindowInv, RateInv
<1>1. ASSUME NEW rate \in Rates, UpdateConfig(rate), Begins({Node})
      PROVE  StretchInv(s)'
  <2>1. CASE s = Node
    <3>1. limit'[s] = rate /\ room'[s] = FullRoom(rate) /\ rate \in Int
      BY <1>0, <1>1, <2>1, RateAssumption DEF UpdateConfig, Replace, RateTypeOK
    <3> QED
      BY <1>0, <1>1, <2>1, <3>1, StretchBegins
  <2>2. CASE s # Node
    <3>1. limit'[s] = limit[s] /\ room'[s] = room[s]
      BY <1>0, <1>1, <2>2 DEF UpdateConfig, Replace, RateTypeOK
    <3>2. ticks'[s] = ticks[s] /\ passed'[s] = passed[s]
      BY <1>1, <2>2 DEF Begins
    <3> QED
      BY <1>0, <3>1, <3>2, StretchGoesOn
  <2> QED
    BY <2>1, <2>2
<1>2. ASSUME NEW list \in UserLists, UpdateUsers(list),
             Begins({x \in Scopes : limit'[x] # limit[x]})
      PROVE  StretchInv(s)'
  <2>1. room'[s] = IF limit'[s] = limit[s] THEN room[s] ELSE FullRoom(limit'[s])
    BY <1>2 DEF UpdateUsers, Replace
  <2>2. CASE limit'[s] = limit[s]
    <3>1. ticks'[s] = ticks[s] /\ passed'[s] = passed[s]
      BY <1>2, <2>2 DEF Begins
    <3> QED
      BY <1>0, <2>1, <2>2, <3>1, StretchGoesOn
  <2>3. CASE limit'[s] # limit[s]
    <3> DEFINE S == {x \in Scopes : limit'[x] # limit[x]}
    <3>1. s \in S
      BY <2>3
    <3>2. limit'[s] \in Int
      BY RateAssumption DEF RateTypeOK
    <3>3. room'[s] <= FullRoom(limit'[s])
      BY <1>0, <2>1, <2>3, <3>2
    <3> HIDE DEF S
    <3>4. Begins(S)
      BY <1>2 DEF S
    <3> QED
      BY <3>1, <3>3, <3>4, StretchBegins
  <2> QED
    BY <2>2, <2>3
<1> QED
  BY <1>1, <1>2 DEF Reloaded

\* What passes leaves the room.
LEMMA WindowPassed ==
    ASSUME WindowInv, NEW c \in Conns, Passed(c), NEW s \in Scopes PROVE StretchInv(s)'
<1>0. RateTypeOK /\ StretchInv(s) /\ Observed
  BY DEF WindowInv, RateInv
<1>1. limit' = limit /\ ticks' = ticks
  BY DEF Passed, Pass, limits
<1>2. n[c] \in Nat
  BY <1>0, MaxOfChunks DEF RateTypeOK
<1>3. CASE s # Scope(c)
  <2>1. room'[s] = room[s]
    BY <1>0, <1>3 DEF Passed, Pass, RateTypeOK
  <2>2. passed'[s] = passed[s]
    BY <1>0, <1>3 DEF Passed, Observed
  <2> QED
    BY <1>0, <1>1, <2>1, <2>2, StretchGoesOn
<1>4. CASE s = Scope(c) /\ limit[s] > 0
  <2>1. room'[s] = room[s] - n[c]
    BY <1>0, <1>4 DEF Passed, Pass, RateTypeOK
  <2>2. passed'[s] = passed[s] + n[c]
    BY <1>0, <1>4 DEF Passed, Observed
  <2>3. /\ room[s] <= FullRoom(limit[s])
        /\ passed[s] + room[s] <= limit[s] * ticks[s] + FullRoom(limit[s])
    BY <1>0, <1>4 DEF StretchInv
  <2>4. PICK k \in Nat : k = n[c]
    BY <1>2
  <2>5. room[s] \in Int /\ passed[s] \in Nat /\ limit[s] \in Int /\ ticks[s] \in Nat
    BY <1>0, RateAssumption DEF RateTypeOK, Observed
  <2>6. PICK f \in Int : f = FullRoom(limit[s])
    BY <2>5, FullRoomType
  <2>7. PICK a \in Int : a = limit[s] * ticks[s]
    BY <2>5
  <2>8. room'[s] <= f /\ passed'[s] + room'[s] <= a + f
    BY <2>1, <2>2, <2>3, <2>4, <2>5, <2>6, <2>7
  <2> QED
    BY <1>1, <2>6, <2>7, <2>8 DEF StretchInv, FullRoom
<1>5. CASE ~(limit[s] > 0)
  BY <1>1, <1>5 DEF StretchInv
<1> QED
  BY <1>3, <1>4, <1>5

\* Time allows as much more as it gives back to the room.
LEMMA WindowTicked ==
    ASSUME WindowInv, Ticked, NEW s \in Scopes PROVE StretchInv(s)'
<1>0. RateTypeOK /\ StretchInv(s) /\ Observed
  BY DEF WindowInv, RateInv
<1>1. limit' = limit /\ passed' = passed /\ ticks'[s] = ticks[s] + 1
  BY DEF Ticked, Tick, limits
<1>2. CASE limit[s] > 0
  <2>0. limit[s] \in Int /\ room[s] \in Int /\ passed[s] \in Nat /\ ticks[s] \in Nat
    BY <1>0, RateAssumption DEF RateTypeOK, Observed
  <2>1. PICK r \in Nat : r = limit[s]
    BY <1>2, <2>0
  <2>2. PICK f \in Int : f = FullRoom(limit[s])
    BY <2>0, FullRoomType
  <2>3. room'[s] = Min({FullRoom(limit[s]), room[s] + limit[s]})
    BY <1>2 DEF Ticked, Tick
  <2>4. room'[s] <= f /\ room'[s] <= room[s] + r /\ room'[s] \in Int
    <3>1. room[s] + r \in Int
      BY <2>0, <2>1
    <3>2. room'[s] = IF f <= room[s] + r THEN f ELSE room[s] + r
      BY <2>1, <2>2, <2>3, <3>1, MinOfTwo
    <3> QED
      BY <2>2, <3>1, <3>2
  <2>5. PICK a \in Nat : a = limit[s] * ticks[s]
    BY <2>0, <2>1, AnotherTick
  <2>6. limit'[s] * ticks'[s] = a + r
    BY <1>1, <2>0, <2>1, <2>5, AnotherTick
  <2>7. passed[s] + room[s] <= a + f
    BY <1>0, <1>2, <2>2, <2>5 DEF StretchInv
  <2>8. passed'[s] + room'[s] <= (a + r) + f
    BY <1>1, <2>0, <2>1, <2>2, <2>4, <2>5, <2>7
  <2> QED
    BY <1>1, <2>2, <2>4, <2>6, <2>8 DEF StretchInv, FullRoom
<1>3. CASE ~(limit[s] > 0)
  BY <1>1, <1>3 DEF StretchInv
<1> QED
  BY <1>2, <1>3

\* The observer may begin again whenever it likes.
LEMMA WindowWatched ==
    ASSUME WindowInv, RateTypeOK', NEW S \in SUBSET Scopes, Watch(S), NEW s \in Scopes
    PROVE  StretchInv(s)'
<1>0. RateTypeOK /\ StretchInv(s) /\ limit' = limit /\ room' = room
  BY DEF WindowInv, RateInv, Watch, rateVars, limits
<1>1. CASE s \in S
  <2>1. limit'[s] > 0 => room'[s] <= FullRoom(limit'[s])
    BY <1>0 DEF StretchInv
  <2> QED
    BY <1>1, <2>1, StretchBegins DEF Watch
<1>2. CASE s \notin S
  <2>1. ticks'[s] = ticks[s] /\ passed'[s] = passed[s]
    BY <1>2 DEF Watch, Begins
  <2> QED
    BY <1>0, <2>1, StretchGoesOn
<1> QED
  BY <1>1, <1>2

LEMMA WindowStep == WindowInv /\ [WindowNext]_windowVars => WindowInv'
<1> SUFFICES ASSUME WindowInv, [WindowNext]_windowVars PROVE WindowInv'
  OBVIOUS
<1>1. RateInv' /\ RateTypeOK'
  BY WindowIsRate, RateStep DEF WindowInv, RateInv
<1>2. Observed'
  BY ObservedStep DEF WindowInv
<1>3. ASSUME NEW s \in Scopes PROVE StretchInv(s)'
  <2>1. ASSUME limit' = limit, room' = room, UNCHANGED <<ticks, passed>>
        PROVE  StretchInv(s)'
    BY <2>1, StretchGoesOn DEF WindowInv
  <2>2. ASSUME NEW c \in Conns, NEW k \in Chunks, Transferred(c, k),
               UNCHANGED <<ticks, passed>>
        PROVE  StretchInv(s)'
    BY <2>1, <2>2 DEF Transferred, limits
  <2>3. ASSUME NEW c \in Conns, Reserve(c), UNCHANGED <<ticks, passed>>
        PROVE  StretchInv(s)'
    BY <2>1, <2>3 DEF Reserve, limits
  <2>4. CASE UNCHANGED windowVars
    BY <2>1, <2>4 DEF windowVars, rateVars, limits
  <2> QED
    BY <1>1, <2>2, <2>3, <2>4, WindowReloaded, WindowPassed, WindowTicked,
       WindowWatched DEF WindowNext
<1> QED
  BY <1>1, <1>2, <1>3 DEF WindowInv

LEMMA WindowInitially == WindowInit => WindowInv
<1> SUFFICES ASSUME WindowInit PROVE WindowInv
  OBVIOUS
<1>1. RateInv
  BY RateInitially DEF WindowInit
<1>2. Observed /\ \A s \in Scopes : StretchInv(s)
  BY DEF WindowInit, RateInit, Observed, StretchInv
<1> QED
  BY <1>1, <1>2 DEF WindowInv

(* WindowSpec watches applyLimits and the reloads without disturbing them: *)
(* its behaviours are those of RateSpec, with two counters added.          *)
THEOREM WatchingIsHarmless == WindowSpec => RateSpec
<1>1. WindowInit => RateInit
  BY DEF WindowInit
<1> QED
  BY <1>1, WindowIsRate, PTL DEF WindowSpec, RateSpec

(* Seen from outside, applyLimits with the buckets of newBucket is a token *)
(* bucket: in every stretch in which its limit stays the same, a scope     *)
(* passes at most its rate times the length of the stretch, one burst and  *)
(* one chunk per connection.                                               *)
THEOREM StretchesHold == WindowSpec => []StretchRespected
<1>1. WindowSpec => []WindowInv
  BY WindowInitially, WindowStep, PTL DEF WindowSpec
<1>2. WindowInv => StretchRespected
  <2> SUFFICES ASSUME WindowInv, NEW s \in Scopes, limit[s] > 0
               PROVE  passed[s] <= limit[s] * ticks[s] + FullRoom(limit[s])
    BY DEF StretchRespected
  <2>1. /\ room[s] \in Int /\ limit[s] \in Int
        /\ passed[s] \in Nat /\ ticks[s] \in Nat
    BY RateAssumption DEF WindowInv, RateInv, RateTypeOK, Observed
  <2>2. room[s] >= 0
    BY Respected DEF WindowInv, LimitRespected
  <2>3. passed[s] + room[s] <= limit[s] * ticks[s] + FullRoom(limit[s])
    BY DEF WindowInv, StretchInv
  <2>4. PICK f \in Int : f = FullRoom(limit[s])
    BY <2>1, FullRoomType
  <2>5. PICK a \in Int : a = limit[s] * ticks[s]
    BY <2>1
  <2> QED
    BY <2>1, <2>2, <2>3, <2>4, <2>5
<1> QED
  BY <1>1, <1>2, PTL
=============================================================================
