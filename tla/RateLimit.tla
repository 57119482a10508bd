------------------------------ MODULE RateLimit ------------------------------
(***************************************************************************)
(* limiter.MultiLimiter: the limiters of a task, shared by all workers.    *)
(* Each is a rate.Limiter: a bucket of tokens that a Wait takes at once,   *)
(* for a moment in the future if there is none.  It is told by the time at *)
(* which its bucket will be full.                                          *)
(***************************************************************************)
EXTENDS Integers, Sequences, SequencesExt, TLC

CONSTANTS Task,
          Limits,    \* by task, TaskConfig.Limits: a sequence of limits
          Burst      \* the bucket's size, 1 in ParseTaskConfig

Limit == [count : Nat \ {0}, dur : Nat]

ASSUME RateLimitAssumption == /\ Limits \in [Task -> Seq(Limit)]
                              /\ Burst \in Nat \ {0}

VARIABLES now,       \* the time
          full       \* by task and limiter, when its bucket is full again

\* The time between two tokens.
Per(l) == l.dur \div l.count

\* By the place in a MultiLimiter, the place in Limits[t]: the slowest comes
\* first.
SlowestFirst(t) ==
    LET places == 1 .. Len(Limits[t])
    IN  CHOOSE p \in Bijection(places, places) :
           \A i, j \in places : i < j => Per(Limits[t][p[i]]) >= Per(Limits[t][p[j]])

\* The limiters of a MultiLimiter, in their order.
Multi(t) == [i \in 1 .. Len(Limits[t]) |-> Limits[t][SlowestFirst(t)[i]]]

RateLimitInit == /\ now = 0
                 /\ full = [t \in Task |-> [i \in 1 .. Len(Limits[t]) |-> 0]]

Later(a, b) == IF a < b THEN b ELSE a

\* Mutant: the bucket's debt is forgotten when a token is taken.
ReserveForgets(t, i) == now + Per(Multi(t)[i])

\* Mutant: two tokens are taken for one request.
ReserveTwo(t, i) == Later(full[t][i], now) + 2 * Per(Multi(t)[i])

\* When bucket i of task t is full again once a token is taken from it.
Reserve(t, i) == Later(full[t][i], now) + Per(Multi(t)[i])

\* The moment from which the token is good.
TimeToAct(t, i) == Later(now, Reserve(t, i) - Burst * Per(Multi(t)[i]))

Take(t, i) == full' = [full EXCEPT ![t][i] = Reserve(t, i)]
=============================================================================
