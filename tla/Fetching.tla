------------------------------- MODULE Fetching -------------------------------
(***************************************************************************)
(* Request.Fetch by the workers of one process: the limiters of the task,  *)
(* the random sleep, and the Get of its Fetcher, a collect.BrowserFetch or *)
(* a collect.BaseFetch, whose requests go through http.DefaultTransport.   *)
(*                                                                         *)
(* A worker's pc names what it is about to do:                             *)
(*   idle    Fetch                                                         *)
(*   wait    Limit.Wait, asking the limiter at stage for a token           *)
(*   token   the same, until its token is good                             *)
(*   sleep   time.Sleep                                                    *)
(*   trip    a round trip of the client, the first or one of a redirect    *)
(*   dead    after a panic                                                 *)
(***************************************************************************)
EXTENDS RateLimit, ProxySwitch

CONSTANTS Worker,
          NoTask,      \* no task: the worker is not in Fetch
          Fetcher,     \* by task: "browser", "base" or "none"
          WaitTime,    \* by task, in ticks
          Sizes,       \* how long the bodies are
          MaxFetches,  \* bound: the calls of Fetch
          MaxTrips,    \* bound: the round trips of a Get; 10 in net/http
          MaxIdle      \* bound: how long time passes when nothing waits for it

ASSUME FetchingAssumption ==
    /\ NoTask \notin Task
    /\ Fetcher \in [Task -> {"browser", "base", "none"}]
    /\ WaitTime \in [Task -> Nat \ {0}]
    /\ Sizes \subseteq Nat
    /\ IsFiniteSet(Worker)

VARIABLES pc, task, stage, wake, trips,  \* by worker
          proxied,     \* DefaultTransport.Proxy is set
          fetches,     \* history: the calls of Fetch
          begun,       \* history: by task, the calls that got to their Get
          direct,      \* history: the last round trip went without a proxy
          accepted     \* history: was a page that was taken read with the
                       \* encoding that is taken for granted?

workerVars == <<pc, task, stage, wake, trips>>
proxyVars == <<index, uses, wraps, proxied, direct>>
vars == <<now, full, workerVars, proxyVars, fetches, begun, accepted>>

Init == /\ RateLimitInit
        /\ ProxyInit
        /\ pc = [w \in Worker |-> "idle"]
        /\ task = [w \in Worker |-> NoTask]
        /\ stage = [w \in Worker |-> 1]
        /\ wake = [w \in Worker |-> 0]
        /\ trips = [w \in Worker |-> 0]
        /\ proxied = FALSE
        /\ fetches = 0
        /\ begun = [t \in Task |-> 0]
        /\ direct = FALSE
        /\ accepted = {}

Goto(w, p) == pc' = [pc EXCEPT ![w] = p]

\* Fetch returns to its caller.
Return(w) == /\ Goto(w, "idle")
             /\ task' = [task EXCEPT ![w] = NoTask]
             /\ trips' = [trips EXCEPT ![w] = 0]

\* Fetch is called for a request of any task; a task without Limits has a nil
\* Limit, which panics.
Fetch(w, t) ==
    /\ pc[w] = "idle"
    /\ fetches < MaxFetches
    /\ fetches' = fetches + 1
    /\ task' = [task EXCEPT ![w] = t]
    /\ Goto(w, IF Limits[t] = <<>> THEN "dead" ELSE "wait")
    /\ UNCHANGED <<now, full, stage, wake, trips, proxyVars, begun, accepted>>

\* MultiLimiter.Wait, for each limiter in turn: rate.Limiter.Wait takes its
\* token at once, and returns when it is good.  There is no deadline in the
\* context, so it does not fail.
Wait(w) ==
    /\ pc[w] = "wait"
    /\ LET t == task[w] IN
         /\ wake' = [wake EXCEPT ![w] = TimeToAct(t, stage[w])]
         /\ Take(t, stage[w])
    /\ Goto(w, "token")
    /\ UNCHANGED <<now, task, stage, trips, proxyVars, fetches, begun, accepted>>

\* Mutant: one limiter too many is asked.
PastLimiters(w) == stage[w] > Len(Limits[task[w]])

LastLimiter(w) == stage[w] = Len(Limits[task[w]])

\* The next limiter, or the random sleep, up to WaitTime.
WaitReturns(w) ==
    /\ pc[w] = "token"
    /\ wake[w] <= now
    /\ IF LastLimiter(w)
       THEN /\ \E s \in 0 .. WaitTime[task[w]] :
                  wake' = [wake EXCEPT ![w] = now + s]
            /\ Goto(w, "sleep")
            /\ stage' = [stage EXCEPT ![w] = 1]
       ELSE /\ stage' = [stage EXCEPT ![w] = @ + 1]
            /\ Goto(w, "wait")
            /\ UNCHANGED wake
    /\ UNCHANGED <<now, full, task, trips, proxyVars, fetches, begun, accepted>>

Proxying(t) == Fetcher[t] = "browser" /\ HasProxy

\* Mutant: the proxy is set for this client alone.
OwnTransport(t) == Proxying(t)

\* DefaultTransport.Proxy is set once the Get of task t has begun.
SharedTransport(t) == proxied \/ Proxying(t)

\* Fetcher.Get is called, of a nil Fetcher for a panic.  A BrowserFetch with a
\* Proxy sets it in http.DefaultTransport, which every client uses.
Get(w) ==
    /\ pc[w] = "sleep"
    /\ wake[w] <= now
    /\ wake' = [wake EXCEPT ![w] = 0]
    /\ IF Fetcher[task[w]] = "none"
       THEN Goto(w, "dead") /\ UNCHANGED <<begun, proxied>>
       ELSE /\ begun' = [begun EXCEPT ![task[w]] = @ + 1]
            /\ trips' = [trips EXCEPT ![w] = 0]
            /\ proxied' = SharedTransport(task[w])
            /\ Goto(w, "trip")
    /\ UNCHANGED <<now, full, task, stage, trips, index, uses, wraps, direct,
                   fetches, accepted>>

\* The transport asks for a proxy once for every round trip.
Via == /\ direct' = ~proxied
       /\ IF proxied THEN GetProxy ELSE UNCHANGED <<index, uses, wraps>>

\* DeterminEncoding peeks at 1024 bytes, and takes UTF-8 for granted when there
\* are fewer.
Guessed(size) == size < 1024

\* A decoded body is up to three times as long: U+FFFD replaces a bad byte.
Decoded(size) == {size, 2 * size, 3 * size}

\* Mutant: half as much is enough for a page.
AcceptsHalf(length) == length >= 3000

\* What CreateWork takes for a page.
Accepts(length) == length >= 6000

\* A round trip ends with a redirect, an error, or a response, of which only
\* BaseFetch looks at the status.
Trip(w) ==
    /\ pc[w] = "trip"
    /\ Via
    /\ \/ /\ trips[w] + 1 < MaxTrips
          /\ trips' = [trips EXCEPT ![w] = @ + 1]
          /\ UNCHANGED <<pc, task, accepted>>
       \/ Return(w) /\ UNCHANGED accepted
       \/ \E size \in Sizes, ok \in BOOLEAN : \E length \in Decoded(size) :
             /\ Return(w)
             /\ accepted' = IF Accepts(length) /\ (ok \/ Fetcher[task[w]] = "browser")
                            THEN accepted \cup {Guessed(size)} ELSE accepted
    /\ UNCHANGED <<now, full, stage, wake, proxied, fetches, begun>>

\* Time passes.
Tick ==
    /\ now < MaxIdle \/ \E w \in Worker : pc[w] \in {"token", "sleep"} /\ wake[w] > now
    /\ now' = now + 1
    /\ UNCHANGED <<full, workerVars, proxyVars, fetches, begun, accepted>>

Runs(w) == Wait(w) \/ WaitReturns(w) \/ Get(w) \/ Trip(w)

Next == \/ \E w \in Worker : Runs(w) \/ \E t \in Task : Fetch(w, t)
        \/ Tick

Spec == Init /\ [][Next]_vars

-----------------------------------------------------------------------------
\* The types.  A worker in a Fetch has a task with limiters, and is at one of
\* them until it has been through all.
TypeOK == /\ now \in Nat
          /\ DOMAIN full = Task
          /\ \A t \in Task : full[t] \in [1 .. Len(Limits[t]) -> Nat]
          /\ pc \in [Worker -> {"idle", "wait", "token", "sleep", "trip", "dead"}]
          /\ task \in [Worker -> Task \cup {NoTask}]
          /\ \A w \in Worker : task[w] = NoTask <=> pc[w] = "idle"
          /\ wake \in [Worker -> Nat]
          /\ trips \in [Worker -> Nat]
          /\ stage \in [Worker -> Nat \ {0}]
          /\ \A w \in Worker : pc[w] \in {"wait", "token"} => stage[w] <= Len(Limits[task[w]])
          /\ index \in 0 .. Modulus - 1
          /\ uses \in [1 .. Len(Proxies) -> Nat]
          /\ wraps \in Nat
          /\ proxied \in BOOLEAN
          /\ proxied => HasProxy
          /\ fetches \in Nat
          /\ begun \in [Task -> Nat]
          /\ direct \in BOOLEAN
          /\ accepted \subseteq BOOLEAN

\* The limits hold together: whatever the workers do between their tokens and
\* their requests, a task never has more requests behind it than each of its
\* limiters gave tokens for in the time there was.
Throttled ==
    \A t \in Task : \A i \in 1 .. Len(Limits[t]) :
       (begun[t] - Burst) * Per(Limits[t][i]) <= now

\* A page that is taken was decoded with an encoding that was looked for: one
\* too short for that stays too short.
AcceptedDecoded == TRUE \notin accepted

\* Once a request went through a proxy, none goes without any more, whichever
\* fetcher it is of.
ProxiesStick == direct => \A i \in DOMAIN uses : uses[i] = 0

\* No token is lost: a bucket owes no more tokens than there are workers that
\* wait for them, however the waits of several tasks and limiters interleave.
NoTokenLost ==
    \A t \in Task : \A i \in 1 .. Len(Limits[t]) :
       LET waiting == {w \in Worker : pc[w] = "token" /\ task[w] = t /\ stage[w] = i
                                       /\ wake[w] > now} IN
       full[t][i] - now <= (Burst + Cardinality(waiting)) * Per(Multi(t)[i])
=============================================================================
