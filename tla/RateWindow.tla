----------------------------- MODULE RateWindow -----------------------------
(***************************************************************************)
(* What a speed limit promises, in the words of an observer: over any      *)
(* stretch of time in which the limit of a scope stays the same, the scope *)
(* passes no more than its rate, its burst and a chunk per connection.     *)
(* RateLimit keeps this as one number, room, which each step adjusts; here *)
(* the bytes and the ticks of a stretch are counted as they come, and a    *)
(* stretch may begin at any moment.                                        *)
(***************************************************************************)
EXTENDS RateLimit

VARIABLES
    ticks,   \* per scope: time since the stretch began
    passed   \* per scope: bytes that applyLimits has let through since

windowVars == <<rateVars, ticks, passed>>

\* A stretch begins for the scopes in S.
Begins(S) ==
    /\ ticks'  = [s \in Scopes |-> IF s \in S THEN 0 ELSE ticks[s]]
    /\ passed' = [s \in Scopes |-> IF s \in S THEN 0 ELSE passed[s]]

\* UpdateConfig makes new node buckets, full ones, even at the same rate: that
\* ends the stretch.  A user list ends the stretch of a scope only if it changes
\* its limit, for the bucket of a user whose rate stays is used again.
Reloaded ==
    \/ \E rate \in Rates : UpdateConfig(rate) /\ Begins({Node})
    \/ \E list \in UserLists :
          UpdateUsers(list) /\ Begins({s \in Scopes : limit'[s] # limit[s]})

\* A chunk counts when the wait on a scope is over, with a bucket or without.
Passed(c) ==
    /\ Pass(c)
    /\ passed' = [passed EXCEPT ![Scope(c)] = @ + n[c]]
    /\ UNCHANGED ticks

Ticked ==
    /\ Tick
    /\ ticks' = [s \in Scopes |-> ticks[s] + 1]
    /\ UNCHANGED passed

\* The observer looks at the clock.
Watch(S) == Begins(S) /\ UNCHANGED rateVars

WindowInit ==
    /\ RateInit
    /\ ticks = [s \in Scopes |-> 0]
    /\ passed = [s \in Scopes |-> 0]

WindowNext ==
    \/ Reloaded
    \/ \E c \in Conns, k \in Chunks : Transferred(c, k) /\ UNCHANGED <<ticks, passed>>
    \/ \E c \in Conns : Reserve(c) /\ UNCHANGED <<ticks, passed>>
    \/ \E c \in Conns : Passed(c)
    \/ Ticked
    \/ \E S \in SUBSET Scopes : Watch(S)

WindowSpec == WindowInit /\ [][WindowNext]_windowVars

\* However the stretch is chosen, however many connections share the scope and
\* however often the users are sent again: a token bucket of the rate and the
\* burst that newBucket gives it, seen from outside.
StretchRespected ==
    \A s \in Scopes : limit[s] > 0 =>
        passed[s] <= limit[s] * ticks[s] + FullRoom(limit[s])
=============================================================================
