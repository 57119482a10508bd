---------------------------- MODULE FetchingProofs ----------------------------
(***************************************************************************)
(* For any finite set of workers, any tasks, limits, fetchers, proxies and *)
(* counter width, and any number of fetches: the limits of a task hold     *)
(* together, and no token of theirs is lost; the rotation of the proxies   *)
(* is even; what http.DefaultTransport has been told stays; and no page is *)
(* taken that was too short to tell its encoding from.                     *)
(***************************************************************************)
EXTENDS Fetching, FiniteSetTheorems, TLAPS

\* No proxy is used before the transport has one, nor given up.
Direct == /\ ~proxied => \A i \in DOMAIN uses : uses[i] = 0
          /\ ProxiesStick

\* Once a request went through a proxy, none goes without any more.
THEOREM Sticks == Spec => []ProxiesStick
<1>1. Init => Direct
  BY DEF Init, ProxyInit, Direct, ProxiesStick
<1>2. Direct /\ [Next]_vars => Direct'
  <2> SUFFICES ASSUME Direct, [Next]_vars PROVE Direct'
    OBVIOUS
  <2>1. ASSUME NEW w \in Worker, NEW t \in Task, Fetch(w, t) PROVE Direct'
    BY <2>1 DEF Fetch, proxyVars, Direct, ProxiesStick
  <2>2. ASSUME NEW w \in Worker, Wait(w) PROVE Direct'
    BY <2>2 DEF Wait, proxyVars, Direct, ProxiesStick
  <2>3. ASSUME NEW w \in Worker, WaitReturns(w) PROVE Direct'
    BY <2>3 DEF WaitReturns, proxyVars, Direct, ProxiesStick
  <2>4. ASSUME NEW w \in Worker, Get(w) PROVE Direct'
    BY <2>4 DEF Get, SharedTransport, Direct, ProxiesStick
  <2>5. ASSUME NEW w \in Worker, Trip(w) PROVE Direct'
    BY <2>5 DEF Trip, Via, Direct, ProxiesStick
  <2>6. CASE Tick
    BY <2>6 DEF Tick, proxyVars, Direct, ProxiesStick
  <2>7. CASE UNCHANGED vars
    BY <2>7 DEF vars, proxyVars, Direct, ProxiesStick
  <2> QED BY <2>1, <2>2, <2>3, <2>4, <2>5, <2>6, <2>7 DEF Next, Runs
<1> QED BY <1>1, <1>2, PTL DEF Spec, Direct

\* Three times a body that Peek fails on is not enough for a page.
LEMMA ShortStaysShort ==
  ASSUME NEW size \in Nat, NEW length \in Decoded(size), Guessed(size)
  PROVE  ~Accepts(length)
BY DEF Decoded, Guessed, Accepts

\* A page that is taken was decoded with an encoding that was looked for.
THEOREM NotGuessed == Spec => []AcceptedDecoded
<1>1. Init => AcceptedDecoded
  BY DEF Init, AcceptedDecoded
<1>2. AcceptedDecoded /\ [Next]_vars => AcceptedDecoded'
  <2> SUFFICES ASSUME AcceptedDecoded, [Next]_vars PROVE AcceptedDecoded'
    OBVIOUS
  <2>1. ASSUME NEW w \in Worker, Trip(w), accepted' # accepted PROVE AcceptedDecoded'
    <3>1. PICK size \in Sizes : \E length \in Decoded(size) :
             Accepts(length) /\ accepted' = accepted \cup {Guessed(size)}
      BY <2>1 DEF Trip
    <3>2. accepted' = accepted \cup {Guessed(size)} /\ ~Guessed(size)
      BY <3>1, ShortStaysShort, FetchingAssumption
    <3>3. Guessed(size) = FALSE
      BY <3>2 DEF Guessed
    <3> QED BY <3>2, <3>3 DEF AcceptedDecoded
  <2>2. ASSUME NEW w \in Worker, NEW t \in Task, Fetch(w, t) PROVE accepted' = accepted
    BY <2>2 DEF Fetch
  <2>3. ASSUME NEW w \in Worker, Wait(w) \/ WaitReturns(w) \/ Get(w) PROVE accepted' = accepted
    BY <2>3 DEF Wait, WaitReturns, Get
  <2>4. CASE Tick \/ UNCHANGED vars
    BY <2>4 DEF Tick, vars, AcceptedDecoded
  <2> QED BY <2>1, <2>2, <2>3, <2>4 DEF Next, Runs, AcceptedDecoded
<1> QED BY <1>1, <1>2, PTL DEF Spec

-----------------------------------------------------------------------------
\* Any finite list of numbers can be read from the largest to the smallest: the
\* place of each is told by how many go before it.
LEMMA SortedOrder ==
  ASSUME NEW n \in Nat, NEW g \in [1 .. n -> Int]
  PROVE  \E p \in Bijection(1 .. n, 1 .. n) : \A i, j \in 1 .. n : i < j => g[p[i]] >= g[p[j]]
<1> DEFINE Places == 1 .. n
           Ahead(i) == {j \in Places : g[j] > g[i] \/ (g[j] = g[i] /\ j < i)}
           rank == [i \in Places |-> Cardinality(Ahead(i)) + 1]
<1>1. IsFiniteSet(Places) /\ Cardinality(Places) = n
  BY FS_Interval
<1>2. \A i \in Places : IsFiniteSet(Ahead(i)) /\ Cardinality(Ahead(i)) \in Nat
  BY <1>1, FS_Subset, FS_CardinalityType
<1>3. ASSUME NEW i \in Places PROVE rank[i] \in Places
  <2>1. Ahead(i) \subseteq Places \ {i}
    OBVIOUS
  <2>2. IsFiniteSet(Places \ {i}) /\ Cardinality(Places \ {i}) = n - 1
    BY <1>1, FS_RemoveElement
  <2>3. Cardinality(Ahead(i)) <= n - 1
    BY <2>1, <2>2, FS_Subset
  <2> HIDE DEF Ahead
  <2> QED BY <1>2, <2>3
<1>4. ASSUME NEW i \in Places, NEW j \in Places, i \in Ahead(j) PROVE rank[i] < rank[j]
  <2>1. i \notin Ahead(i)
    OBVIOUS
  <2>2. Ahead(i) \cup {i} \subseteq Ahead(j)
    BY <1>4
  <2>3. Cardinality(Ahead(i) \cup {i}) = Cardinality(Ahead(i)) + 1
    BY <1>2, <2>1, FS_AddElement
  <2>4. Cardinality(Ahead(i) \cup {i}) <= Cardinality(Ahead(j))
    BY <1>2, <2>2, FS_Subset
  <2> HIDE DEF Ahead
  <2> QED BY <1>2, <2>3, <2>4
<1>5. \A i, j \in Places : i = j \/ i \in Ahead(j) \/ j \in Ahead(i)
  OBVIOUS
<1>6. rank \in [Places -> Places]
  <2> HIDE DEF Ahead
  <2> QED BY <1>3
<1>7. \A i, j \in Places : rank[i] = rank[j] => i = j
  <2> SUFFICES ASSUME NEW i \in Places, NEW j \in Places, rank[i] = rank[j] PROVE i = j
    OBVIOUS
  <2>1. rank[i] \in Int /\ rank[j] \in Int
    BY <1>3
  <2>2. ~(rank[i] < rank[j]) /\ ~(rank[j] < rank[i])
    <3> HIDE DEF rank
    <3> QED BY <2>1
  <2> QED BY <1>4, <1>5, <2>2
<1> HIDE DEF rank, Ahead, Places
<1>8. rank \in Injection(Places, Places)
  BY <1>6, <1>7, Zenon DEF Injection, IsInjective
<1>9. \A k \in Places : \E i \in Places : rank[i] = k
  <2>1. rank \in Surjection(Places, Places)
    BY <1>1, <1>8, FS_Injection
  <2> QED BY <2>1, Zenon DEF Surjection
<1> DEFINE p == [k \in Places |-> CHOOSE i \in Places : rank[i] = k]
<1>10. \A k \in Places : p[k] \in Places /\ rank[p[k]] = k
  BY <1>9
<1>11. p \in [Places -> Places]
  BY <1>10
<1> HIDE DEF p
<1>12. \A k, l \in Places : p[k] = p[l] => k = l
  BY <1>10
<1>13. \A i \in Places : p[rank[i]] = i
  BY <1>6, <1>7, <1>10
<1>14. p \in Bijection(Places, Places)
  <2>1. p \in Injection(Places, Places)
    BY <1>11, <1>12, Zenon DEF Injection, IsInjective
  <2>2. \A i \in Places : \E k \in Places : p[k] = i
    BY <1>6, <1>13
  <2>3. p \in Surjection(Places, Places)
    BY <1>11, <2>2, Zenon DEF Surjection
  <2> QED BY <2>1, <2>3, Zenon DEF Bijection
<1>15. ASSUME NEW k \in Places, NEW l \in Places, k < l PROVE g[p[k]] >= g[p[l]]
  <2>1. p[k] \in Places /\ p[l] \in Places /\ rank[p[k]] = k /\ rank[p[l]] = l
    BY <1>10
  <2>2. p[l] \notin Ahead(p[k])
    <3> SUFFICES ASSUME p[l] \in Ahead(p[k]) PROVE FALSE
      OBVIOUS
    <3>1. rank[p[l]] < rank[p[k]]
      BY <1>4, <2>1
    <3> QED BY <1>15, <2>1, <3>1 DEF Places
  <2>3. g[p[k]] \in Int /\ g[p[l]] \in Int
    BY <2>1 DEF Places
  <2> QED BY <2>1, <2>2, <2>3 DEF Ahead
<1>16. \A k, l \in Places : k < l => g[p[k]] >= g[p[l]]
  BY <1>15
<1> QED BY <1>14, <1>16 DEF Places

\* The time between two tokens of a limiter.
LEMMA PerType ==
  ASSUME NEW l \in Limit
  PROVE  Per(l) \in Nat
BY DEF Limit, Per

\* The limiters of a MultiLimiter are those of its task, in another order.
LEMMA MultiOrder ==
  ASSUME NEW t \in Task
  PROVE  /\ \A i \in 1 .. Len(Limits[t]) : Multi(t)[i] \in Limit
         /\ \A k \in 1 .. Len(Limits[t]) :
               \E i \in 1 .. Len(Limits[t]) : Multi(t)[i] = Limits[t][k]
<1> DEFINE places == 1 .. Len(Limits[t])
           g == [i \in places |-> Per(Limits[t][i])]
<1>1. Len(Limits[t]) \in Nat /\ \A i \in places : Limits[t][i] \in Limit
  BY RateLimitAssumption
<1>2. \A i \in places : Per(Limits[t][i]) \in Int
  BY <1>1, PerType
<1>3. g \in [places -> Int]
  BY <1>2
<1>4. PICK p \in Bijection(places, places) :
         \A i, j \in places : i < j => g[p[i]] >= g[p[j]]
  BY <1>1, <1>3, SortedOrder
<1>5. \A i \in places : p[i] \in places
  BY <1>4 DEF Bijection, Injection
<1>6. \A i, j \in places : i < j => Per(Limits[t][p[i]]) >= Per(Limits[t][p[j]])
  BY <1>4, <1>5
<1>7. SlowestFirst(t) \in Bijection(places, places)
  BY <1>4, <1>6 DEF SlowestFirst
<1>8. SlowestFirst(t) \in [places -> places]
  BY <1>7, Zenon DEF Bijection, Injection
<1>9. \A k \in places : \E i \in places : SlowestFirst(t)[i] = k
  BY <1>7, Zenon DEF Bijection, Surjection
<1>10. \A i \in places : Multi(t)[i] = Limits[t][SlowestFirst(t)[i]]
  BY DEF Multi
<1>11. \A i \in places : Multi(t)[i] \in Limit
  BY <1>1, <1>8, <1>10
<1>12. ASSUME NEW k \in places PROVE \E i \in places : Multi(t)[i] = Limits[t][k]
  <2>1. PICK i \in places : SlowestFirst(t)[i] = k
    BY <1>9
  <2>2. Multi(t)[i] = Limits[t][k]
    BY <1>10, <2>1
  <2> QED BY <2>2
<1> QED BY <1>11, <1>12

-----------------------------------------------------------------------------
\* What TypeOK leaves out: a worker that asks no limiter has the first one next.
Stages == \A w \in Worker : pc[w] \notin {"wait", "token"} => stage[w] = 1

Types == TypeOK /\ Stages

\* A task has as many limiters as it has limits.
LEMMA MultiLength ==
  ASSUME NEW t \in Task
  PROVE  Len(Limits[t]) \in Nat
BY RateLimitAssumption

\* What Wait computes for a bucket are times.
LEMMA ReserveType ==
  ASSUME TypeOK, NEW t \in Task, NEW i \in 1 .. Len(Limits[t])
  PROVE  /\ Per(Multi(t)[i]) \in Nat
         /\ full[t][i] \in Nat
         /\ Reserve(t, i) \in Nat
         /\ TimeToAct(t, i) \in Nat
<1>1. Per(Multi(t)[i]) \in Nat
  BY MultiOrder, PerType
<1>2. full[t][i] \in Nat /\ now \in Nat
  BY DEF TypeOK
<1>3. Reserve(t, i) \in Nat
  BY <1>1, <1>2 DEF Reserve, Later
<1>4. Burst * Per(Multi(t)[i]) \in Nat
  BY <1>1, RateLimitAssumption
<1>5. TimeToAct(t, i) \in Nat
  BY <1>2, <1>3, <1>4 DEF TimeToAct, Later
<1> QED BY <1>1, <1>2, <1>3, <1>5

\* A proxy that is chosen is one of the list, and its use is counted.
LEMMA GetProxyType ==
  ASSUME TypeOK, HasProxy, GetProxy
  PROVE  /\ index' \in 0 .. Modulus - 1
         /\ uses' \in [1 .. Len(Proxies) -> Nat]
         /\ wraps' \in Nat
<1>1. Len(Proxies) \in Nat \ {0} /\ Modulus \in Nat \ {0} /\ index \in Nat
  BY ProxySwitchAssumption DEF HasProxy, TypeOK
<1>2. index' \in 0 .. Modulus - 1
  <2>1. (index + 1) % Modulus \in 0 .. Modulus - 1
    BY <1>1
  <2> QED BY <2>1 DEF GetProxy
<1>3. Chosen \in 1 .. Len(Proxies)
  BY <1>1 DEF Chosen
<1>4. uses' \in [1 .. Len(Proxies) -> Nat]
  <2>1. uses \in [1 .. Len(Proxies) -> Nat] /\ uses' = [uses EXCEPT ![Chosen] = @ + 1]
    BY DEF GetProxy, TypeOK
  <2> QED BY <1>3, <2>1
<1>5. wraps' \in Nat
  BY DEF GetProxy, TypeOK
<1> QED BY <1>2, <1>4, <1>5

\* Init has the types.
LEMMA TypesInit == Init => Types
<1> SUFFICES ASSUME Init PROVE Types
  OBVIOUS
<1>1. index \in 0 .. Modulus - 1
  BY ProxySwitchAssumption DEF Init, ProxyInit
<1>2. \A t \in Task : full[t] \in [1 .. Len(Limits[t]) -> Nat]
  BY MultiLength DEF Init, RateLimitInit
<1>3. DOMAIN full = Task
  BY DEF Init, RateLimitInit
<1>4. \A w \in Worker : task[w] = NoTask /\ pc[w] = "idle"
  BY DEF Init
<1>5. \A w \in Worker : task[w] = NoTask <=> pc[w] = "idle"
  BY <1>4
<1>6. uses \in [1 .. Len(Proxies) -> Nat]
  BY DEF Init, ProxyInit
<1>7. /\ pc \in [Worker -> {"idle", "wait", "token", "sleep", "trip", "dead"}]
      /\ task \in [Worker -> Task \cup {NoTask}]
      /\ wake \in [Worker -> Nat]
      /\ trips \in [Worker -> Nat]
      /\ stage \in [Worker -> Nat \ {0}]
      /\ begun \in [Task -> Nat]
  BY DEF Init
<1>8. /\ now \in Nat /\ wraps \in Nat /\ fetches \in Nat
      /\ proxied = FALSE /\ direct = FALSE /\ accepted = {}
  BY DEF Init, ProxyInit, RateLimitInit
<1>9. TypeOK
  BY <1>1, <1>2, <1>3, <1>4, <1>5, <1>6, <1>7, <1>8 DEF TypeOK
<1>10. Stages
  BY DEF Stages, Init
<1> QED BY <1>9, <1>10 DEF Types

\* A worker in a Fetch has a task.
LEMMA TaskOf ==
  ASSUME TypeOK, NEW w \in Worker, pc[w] # "idle" PROVE task[w] \in Task
BY DEF TypeOK

\* Every step keeps the types, action by action.
LEMMA TypesStep == Types /\ [Next]_vars => Types'
<1> SUFFICES ASSUME TypeOK, Stages, [Next]_vars PROVE TypeOK' /\ Stages'
  BY DEF Types
<1>1. ASSUME NEW w \in Worker, NEW t \in Task, Fetch(w, t) PROVE TypeOK' /\ Stages'
  <2>1. /\ pc' \in [Worker -> {"idle", "wait", "token", "sleep", "trip", "dead"}]
        /\ task' \in [Worker -> Task \cup {NoTask}]
        /\ fetches' \in Nat
    BY <1>1 DEF Fetch, Goto, TypeOK
  <2>2. \A v \in Worker : task'[v] = NoTask <=> pc'[v] = "idle"
    BY <1>1, FetchingAssumption DEF Fetch, Goto, TypeOK
  <2>3. stage[w] = 1
    BY <1>1 DEF Stages, Fetch
  <2>4. Limits[t] # <<>> => Len(Limits[t]) >= 1
    BY RateLimitAssumption
  <2>5. \A v \in Worker : pc'[v] \in {"wait", "token"} => stage'[v] <= Len(Limits[task'[v]])
    BY <1>1, <2>3, <2>4 DEF Fetch, Goto, TypeOK
  <2>6. TypeOK'
    BY <1>1, <2>1, <2>2, <2>5 DEF Fetch, proxyVars, TypeOK
  <2>7. Stages'
    BY <1>1, <2>3 DEF Fetch, Goto, Stages, TypeOK
  <2> QED BY <2>6, <2>7
<1>2. ASSUME NEW w \in Worker, Wait(w) PROVE TypeOK' /\ Stages'
  <2> DEFINE t == task[w]
             i == stage[w]
  <2>1. t \in Task /\ i \in 1 .. Len(Limits[t])
    BY <1>2, TaskOf, MultiLength DEF Wait, TypeOK
  <2>2. Reserve(t, i) \in Nat /\ TimeToAct(t, i) \in Nat
    BY <2>1, ReserveType
  <2>3. wake' \in [Worker -> Nat]
    BY <1>2, <2>2 DEF Wait, TypeOK
  <2>4. full' = [full EXCEPT ![t][i] = Reserve(t, i)]
    BY <1>2 DEF Wait, Take
  <2>5. DOMAIN full' = Task
    BY <2>4 DEF TypeOK
  <2>6. \A u \in Task : full'[u] \in [1 .. Len(Limits[u]) -> Nat]
    BY <2>1, <2>2, <2>4 DEF TypeOK
  <2>7. /\ pc' \in [Worker -> {"idle", "wait", "token", "sleep", "trip", "dead"}]
        /\ \A v \in Worker : task'[v] = NoTask <=> pc'[v] = "idle"
        /\ \A v \in Worker : pc'[v] \in {"wait", "token"} => stage'[v] <= Len(Limits[task'[v]])
    BY <1>2, <2>1 DEF Wait, Goto, TypeOK
  <2>8. TypeOK'
    BY <1>2, <2>3, <2>5, <2>6, <2>7 DEF Wait, proxyVars, TypeOK
  <2>9. Stages'
    BY <1>2 DEF Wait, Goto, Stages, TypeOK
  <2> QED BY <2>8, <2>9
<1>3. ASSUME NEW w \in Worker, WaitReturns(w) PROVE TypeOK' /\ Stages'
  <2>1. task[w] \in Task /\ stage[w] \in Nat \ {0} /\ stage[w] <= Len(Limits[task[w]])
        /\ Len(Limits[task[w]]) \in Nat
    BY <1>3, TaskOf, MultiLength DEF WaitReturns, TypeOK
  <2>2. wake' \in [Worker -> Nat]
    <3>1. CASE LastLimiter(w)
      <4>1. PICK s \in 0 .. WaitTime[task[w]] : wake' = [wake EXCEPT ![w] = now + s]
        BY <1>3, <3>1 DEF WaitReturns
      <4>2. WaitTime[task[w]] \in Nat /\ now \in Nat
        BY <2>1, FetchingAssumption DEF TypeOK
      <4>3. now + s \in Nat
        BY <4>1, <4>2
      <4> QED BY <4>1, <4>3 DEF TypeOK
    <3>2. CASE ~LastLimiter(w)
      BY <1>3, <3>2 DEF WaitReturns, TypeOK
    <3> QED BY <3>1, <3>2
  <2>3. stage' \in [Worker -> Nat \ {0}]
    <3>1. stage' = [stage EXCEPT ![w] = 1] \/ stage' = [stage EXCEPT ![w] = stage[w] + 1]
      BY <1>3 DEF WaitReturns
    <3>2. stage \in [Worker -> Nat \ {0}]
      BY DEF TypeOK
    <3>3. 1 \in Nat \ {0} /\ stage[w] + 1 \in Nat \ {0}
      BY <2>1
    <3> QED BY <3>1, <3>2, <3>3
  <2>4. /\ pc' \in [Worker -> {"idle", "wait", "token", "sleep", "trip", "dead"}]
        /\ \A v \in Worker : task'[v] = NoTask <=> pc'[v] = "idle"
    BY <1>3 DEF WaitReturns, Goto, TypeOK
  <2>5. \A v \in Worker : pc'[v] \in {"wait", "token"} => stage'[v] <= Len(Limits[task'[v]])
    <3>1. CASE LastLimiter(w)
      <4>1. pc' = [pc EXCEPT ![w] = "sleep"] /\ stage' = [stage EXCEPT ![w] = 1] /\ task' = task
        BY <1>3, <3>1 DEF WaitReturns, Goto
      <4> QED BY <4>1 DEF TypeOK
    <3>2. CASE ~LastLimiter(w)
      <4>1. /\ pc' = [pc EXCEPT ![w] = "wait"] /\ task' = task
            /\ stage' = [stage EXCEPT ![w] = stage[w] + 1]
        BY <1>3, <3>2 DEF WaitReturns, Goto
      <4>2. stage[w] + 1 <= Len(Limits[task[w]])
        BY <2>1, <3>2 DEF LastLimiter
      <4> QED BY <4>1, <4>2 DEF TypeOK
    <3> QED BY <3>1, <3>2
  <2>6. TypeOK'
    BY <1>3, <2>2, <2>3, <2>4, <2>5 DEF WaitReturns, proxyVars, TypeOK
  <2>7. Stages'
    BY <1>3 DEF WaitReturns, Goto, Stages, TypeOK
  <2> QED BY <2>6, <2>7
<1>4. ASSUME NEW w \in Worker, Get(w) PROVE TypeOK' /\ Stages'
  <2>1. task[w] \in Task
    BY <1>4, TaskOf DEF Get
  <2>2. /\ pc' \in [Worker -> {"idle", "wait", "token", "sleep", "trip", "dead"}]
        /\ \A v \in Worker : task'[v] = NoTask <=> pc'[v] = "idle"
        /\ \A v \in Worker : pc'[v] \in {"wait", "token"} => stage'[v] <= Len(Limits[task'[v]])
    BY <1>4 DEF Get, Goto, TypeOK
  <2>3. wake' \in [Worker -> Nat] /\ trips' \in [Worker -> Nat]
    BY <1>4 DEF Get, TypeOK
  <2>4. begun' \in [Task -> Nat]
    BY <1>4, <2>1 DEF Get, TypeOK
  <2>5. (proxied \in BOOLEAN /\ (proxied => HasProxy)) /\ SharedTransport(task[w]) \in BOOLEAN
        /\ (SharedTransport(task[w]) => HasProxy)
    BY DEF SharedTransport, Proxying, TypeOK
  <2>6. proxied' \in BOOLEAN /\ (proxied' => HasProxy)
    <3>1. proxied' = proxied \/ proxied' = SharedTransport(task[w])
      BY <1>4 DEF Get
    <3>2. CASE proxied' = proxied
      BY <3>2, <2>5
    <3>3. CASE proxied' = SharedTransport(task[w])
      BY <3>3, <2>5
    <3> QED BY <3>1, <3>2, <3>3
  <2>7. TypeOK'
    BY <1>4, <2>2, <2>3, <2>4, <2>6 DEF Get, HasProxy, TypeOK
  <2>8. Stages'
    BY <1>4 DEF Get, Goto, Stages, TypeOK
  <2> QED BY <2>7, <2>8
<1>5. ASSUME NEW w \in Worker, Trip(w) PROVE TypeOK' /\ Stages'
  <2>1. /\ index' \in 0 .. Modulus - 1
        /\ uses' \in [1 .. Len(Proxies) -> Nat]
        /\ wraps' \in Nat
    <3>1. CASE proxied
      BY <1>5, <3>1, GetProxyType DEF Trip, Via, TypeOK
    <3>2. CASE ~proxied
      BY <1>5, <3>2 DEF Trip, Via, TypeOK
    <3> QED BY <3>1, <3>2
  <2>2. direct' \in BOOLEAN
    BY <1>5 DEF Trip, Via
  <2>3. /\ pc' \in [Worker -> {"idle", "wait", "token", "sleep", "trip", "dead"}]
        /\ task' \in [Worker -> Task \cup {NoTask}]
        /\ trips' \in [Worker -> Nat]
        /\ \A v \in Worker : task'[v] = NoTask <=> pc'[v] = "idle"
        /\ \A v \in Worker : pc'[v] \in {"wait", "token"} => stage'[v] <= Len(Limits[task'[v]])
        /\ Stages'
    <3>1. CASE trips' = [trips EXCEPT ![w] = @ + 1] /\ UNCHANGED <<pc, task>>
      BY <1>5, <3>1 DEF Trip, TypeOK, Stages
    <3>2. CASE Return(w)
      BY <1>5, <3>2 DEF Trip, Return, Goto, TypeOK, Stages
    <3> QED BY <1>5, <3>1, <3>2 DEF Trip
  <2>4. accepted' \subseteq BOOLEAN
    <3>1. \A size : Guessed(size) \in BOOLEAN
      BY DEF Guessed
    <3>2. accepted' = accepted \/ \E size \in Sizes : accepted' = accepted \cup {Guessed(size)}
      BY <1>5 DEF Trip
    <3> QED BY <3>1, <3>2 DEF TypeOK
  <2>5. proxied' \in BOOLEAN /\ (proxied' => HasProxy)
    BY <1>5 DEF Trip, TypeOK
  <2> QED BY <1>5, <2>1, <2>2, <2>3, <2>4, <2>5 DEF Trip, TypeOK, HasProxy
<1>6. CASE Tick
  <2>1. now' \in Nat
    BY <1>6 DEF Tick, TypeOK
  <2> QED BY <1>6, <2>1 DEF Tick, workerVars, proxyVars, TypeOK, Stages, HasProxy
<1>7. CASE UNCHANGED vars
  BY <1>7 DEF vars, workerVars, proxyVars, TypeOK, Stages, HasProxy
<1> QED BY <1>1, <1>2, <1>3, <1>4, <1>5, <1>6, <1>7 DEF Next, Runs

\* The types hold of every behaviour: no worker asks a limiter that its task does
\* not have, no proxy is taken from an empty list, and no time is before 0.
THEOREM TypeCorrect == Spec => []TypeOK
<1>1. Types => TypeOK
  BY DEF Types
<1> QED BY TypesInit, TypesStep, <1>1, PTL DEF Spec

-----------------------------------------------------------------------------

\* Division with remainder.
LEMMA Div ==
  ASSUME NEW x \in Nat, NEW n \in Nat \ {0}
  PROVE  x = n * (x \div n) + (x % n) /\ x \div n \in Nat
OBVIOUS

\* A remainder is the only one.
LEMMA Uniq ==
  ASSUME NEW q \in Int, NEW p \in Int, NEW n \in Nat \ {0},
         NEW r \in 0 .. n - 1, NEW s \in 0 .. n - 1, n * q + r = n * p + s
  PROVE  r = s
<1>1. n * (q - p) = s - r
  OBVIOUS
<1>2. q - p >= 1 => n * (q - p) >= n
  OBVIOUS
<1>3. q - p <= -1 => n * (q - p) <= -n
  OBVIOUS
<1>4. q - p = 0
  BY <1>1, <1>2, <1>3
<1> QED BY <1>4

\* The remainder of the next number is the next one, or 0 after the last.
LEMMA ModNext ==
  ASSUME NEW x \in Nat, NEW n \in Nat \ {0}
  PROVE (x + 1) % n = IF x % n = n - 1 THEN 0 ELSE (x % n) + 1
<1> DEFINE r == x % n
           q == x \div n
           s == (x + 1) % n
           p == (x + 1) \div n
<1>1. x = n * q + r /\ q \in Nat /\ r \in 0 .. n - 1
  BY Div
<1>2. x + 1 = n * p + s /\ p \in Nat /\ s \in 0 .. n - 1
  BY Div
<1> HIDE DEF p, q, r, s
<1>3. CASE r = n - 1
  <2>1. n * (q + 1) + 0 = n * p + s
    BY <1>1, <1>2, <1>3
  <2>2. q + 1 \in Int /\ p \in Int /\ 0 \in 0 .. n - 1
    BY <1>1, <1>2
  <2>3. s = 0
    BY <1>2, <2>1, <2>2, Uniq
  <2> QED BY <1>3, <2>3 DEF r, s
<1>4. CASE r # n - 1
  <2>1. n * q + (r + 1) = n * p + s
    BY <1>1, <1>2
  <2>2. r + 1 \in 0 .. n - 1
    BY <1>1, <1>4
  <2>3. s = r + 1
    BY <1>1, <1>2, <2>1, <2>2, Uniq
  <2> QED BY <1>4, <2>3 DEF r, s
<1> QED BY <1>3, <1>4

\* The remainder of what is smaller is itself, that of the divisor 0.
LEMMA ModSmall ==
  ASSUME NEW n \in Nat \ {0}
  PROVE  n % n = 0 /\ \A x \in 0 .. n - 1 : x % n = x
<1>1. n % n = 0
  <2>1. n = n * (n \div n) + (n % n) /\ n \div n \in Nat
    BY Div
  <2>2. n * (n \div n) + (n % n) = n * 1 + 0
    BY <2>1
  <2>3. n % n \in 0 .. n - 1 /\ 0 \in 0 .. n - 1
    OBVIOUS
  <2> QED BY <2>1, <2>2, <2>3, Uniq
<1>2. ASSUME NEW x \in 0 .. n - 1 PROVE x % n = x
  <2>1. x = n * (x \div n) + (x % n) /\ x \div n \in Nat
    BY Div
  <2>2. n * (x \div n) + (x % n) = n * 0 + x
    BY <2>1
  <2>3. x % n \in 0 .. n - 1
    OBVIOUS
  <2> QED BY <2>1, <2>2, <2>3, Uniq
<1> QED BY <1>1, <1>2

\* A proxy has had its turn in this round if it stands before the next one.
Turn(i) == IF i <= index % Len(Proxies) THEN 1 ELSE 0

\* But for its turn in this round, a proxy is ahead of another by no more than
\* the rounds that a wrapping counter broke off.
Even == \A i, j \in 1 .. Len(Proxies) : (uses[i] - Turn(i)) - (uses[j] - Turn(j)) <= wraps

\* No proxy is ahead when none was used.
LEMMA EvenInit == Init => Even
<1> SUFFICES ASSUME Init, NEW i \in 1 .. Len(Proxies), NEW j \in 1 .. Len(Proxies)
             PROVE  (uses[i] - Turn(i)) - (uses[j] - Turn(j)) <= wraps
  BY DEF Even
<1>1. Len(Proxies) \in Nat \ {0}
  BY ProxySwitchAssumption
<1>2. 0 % Len(Proxies) = 0
  BY <1>1, ModSmall
<1>3. Turn(i) = 0 /\ Turn(j) = 0
  BY <1>1, <1>2 DEF Turn, Init, ProxyInit
<1> QED BY <1>3 DEF Init, ProxyInit

\* GetProxy keeps the rotation even: the counter goes on to the next proxy, or
\* wraps around and breaks a round off.
LEMMA EvenRotation ==
  ASSUME TypeOK, Even, HasProxy, GetProxy
  PROVE  Even'
<1> SUFFICES ASSUME NEW i \in 1 .. Len(Proxies), NEW j \in 1 .. Len(Proxies)
             PROVE  (uses'[i] - Turn(i)') - (uses'[j] - Turn(j)') <= wraps'
  BY DEF Even
<1> DEFINE n == Len(Proxies)
           r == index % n
           s == index' % n
<1>1. n \in Nat \ {0} /\ Modulus \in Nat \ {0, 1} /\ index \in 0 .. Modulus - 1
  BY ProxySwitchAssumption DEF HasProxy, TypeOK
<1>2. r \in 0 .. n - 1
  BY <1>1
<1>3. \A k \in 1 .. n : /\ uses[k] \in Nat
                        /\ uses'[k] = IF k = r + 1 THEN uses[k] + 1 ELSE uses[k]
  BY DEF GetProxy, Chosen, TypeOK
<1>4. \A k \in 1 .. n : /\ Turn(k) = IF k <= r THEN 1 ELSE 0
                        /\ Turn(k)' = IF k <= s THEN 1 ELSE 0
  BY DEF Turn
<1>5. (uses[i] - Turn(i)) - (uses[j] - Turn(j)) <= wraps
  BY DEF Even
<1>6. wraps \in Nat /\ wraps' = IF index' < index THEN wraps + 1 ELSE wraps
  BY DEF GetProxy, TypeOK
<1>7. CASE index = Modulus - 1
  <2>1. index' = 0
    <3>1. index + 1 = Modulus
      BY <1>1, <1>7
    <3> QED BY <1>1, <3>1, ModSmall DEF GetProxy
  <2>2. s = 0 /\ wraps' = wraps + 1
    BY <1>1, <1>6, <1>7, <2>1, ModSmall
  <2> HIDE DEF n, r, s
  <2>3. \A k \in 1 .. n : uses'[k] - Turn(k)' = (uses[k] - Turn(k)) + (IF k <= r + 1 THEN 1 ELSE 0)
    BY <1>1, <1>2, <1>3, <1>4, <2>2
  <2>4. \A k \in 1 .. n : uses[k] - Turn(k) \in Int
    BY <1>3, <1>4
  <2>5. \A k \in 1 .. n : /\ uses'[k] - Turn(k)' >= uses[k] - Turn(k)
                          /\ uses'[k] - Turn(k)' <= uses[k] - Turn(k) + 1
                          /\ uses'[k] - Turn(k)' \in Int
    BY <1>1, <1>2, <2>3, <2>4
  <2>6. /\ uses'[i] - Turn(i)' <= uses[i] - Turn(i) + 1
        /\ uses'[j] - Turn(j)' >= uses[j] - Turn(j)
        /\ uses'[i] - Turn(i)' \in Int /\ uses'[j] - Turn(j)' \in Int
        /\ uses[i] - Turn(i) \in Int /\ uses[j] - Turn(j) \in Int
    BY <2>4, <2>5 DEF n
  <2>7. wraps' = wraps + 1 /\ wraps \in Int
    BY <1>6, <2>2
  <2> QED BY <1>5, <2>6, <2>7
<1>8. CASE index # Modulus - 1
  <2>1. index' = index + 1
    <3>1. index + 1 \in 0 .. Modulus - 1
      BY <1>1, <1>8
    <3> QED BY <1>1, <3>1, ModSmall DEF GetProxy
  <2>2. s = IF r = n - 1 THEN 0 ELSE r + 1
    <3>1. index \in Nat
      BY <1>1
    <3>2. (index + 1) % n = IF index % n = n - 1 THEN 0 ELSE (index % n) + 1
      BY <1>1, <3>1, ModNext
    <3> QED BY <2>1, <3>2
  <2>3. wraps' = wraps
    BY <1>1, <1>6, <2>1
  <2> HIDE DEF n, r, s
  <2>4. \A k \in 1 .. n : uses'[k] - Turn(k)' = (uses[k] - Turn(k)) + (IF r = n - 1 THEN 1 ELSE 0)
    BY <1>1, <1>2, <1>3, <1>4, <2>2
  <2>5. \A k \in 1 .. n : uses[k] - Turn(k) \in Int
    BY <1>3, <1>4
  <2> QED BY <1>5, <2>3, <2>4, <2>5 DEF n
<1> QED BY <1>7, <1>8

\* The rotation is even: between two proxies the requests differ by one, and by
\* one more for each time the counter of RoundRobinProxySwitcher wrapped around.
THEOREM EvenRounds == Spec => []RotationEven
<1>1. Types /\ Even /\ [Next]_vars => Even'
  <2> SUFFICES ASSUME TypeOK, Even, [Next]_vars PROVE Even'
    BY DEF Types
  <2>1. ASSUME NEW w \in Worker, NEW t \in Task, Fetch(w, t) PROVE Even'
    BY <2>1 DEF Fetch, proxyVars, Even, Turn
  <2>2. ASSUME NEW w \in Worker, Wait(w) PROVE Even'
    BY <2>2 DEF Wait, proxyVars, Even, Turn
  <2>3. ASSUME NEW w \in Worker, WaitReturns(w) PROVE Even'
    BY <2>3 DEF WaitReturns, proxyVars, Even, Turn
  <2>4. ASSUME NEW w \in Worker, Get(w) PROVE Even'
    BY <2>4 DEF Get, Even, Turn
  <2>5. ASSUME NEW w \in Worker, Trip(w) PROVE Even'
    <3>1. CASE proxied
      BY <2>5, <3>1, EvenRotation DEF Trip, Via, TypeOK
    <3>2. CASE ~proxied
      BY <2>5, <3>2 DEF Trip, Via, Even, Turn
    <3> QED BY <3>1, <3>2
  <2>6. CASE Tick
    BY <2>6 DEF Tick, proxyVars, Even, Turn
  <2>7. CASE UNCHANGED vars
    BY <2>7 DEF vars, proxyVars, Even, Turn
  <2> QED BY <2>1, <2>2, <2>3, <2>4, <2>5, <2>6, <2>7 DEF Next, Runs
<1>2. Types /\ Even => RotationEven
  <2> SUFFICES ASSUME TypeOK, Even, NEW i \in DOMAIN uses, NEW j \in DOMAIN uses
               PROVE  uses[i] - uses[j] <= 1 + wraps
    BY DEF Types, RotationEven
  <2>1. i \in 1 .. Len(Proxies) /\ j \in 1 .. Len(Proxies)
        /\ uses[i] \in Nat /\ uses[j] \in Nat /\ wraps \in Nat
    BY DEF TypeOK
  <2>2. Turn(i) \in {0, 1} /\ Turn(j) \in {0, 1}
    BY DEF Turn
  <2>3. (uses[i] - Turn(i)) - (uses[j] - Turn(j)) <= wraps
    BY <2>1 DEF Even
  <2> QED BY <2>1, <2>2, <2>3
<1> QED BY TypesInit, TypesStep, EvenInit, <1>1, <1>2, PTL DEF Spec

-----------------------------------------------------------------------------
\* Of the workers Q that wait until wake, those that wait no longer than w,
\* and those that wait longer.
Upto(Q, W, w) == {v \in Q : W[v] <= W[w]}
Beyond(Q, W, w) == {v \in Q : W[v] > W[w]}

\* What holds of a bucket with per ticks to a token that is full again at F, at
\* time N, when K of its tokens were used and the workers Q wait for theirs:
Held(per, F, N, K, Q, W) ==
    /\ F >= (K + Cardinality(Q)) * per
    /\ (K - Burst) * per <= N
    /\ F - N <= (Burst + Cardinality(Q)) * per
    /\ \A w \in Q : /\ W[w] <= F - Burst * per
                    /\ W[w] >= (K + Cardinality(Upto(Q, W, w)) - Burst) * per
                    /\ F - W[w] <= (Burst + Cardinality(Beyond(Q, W, w))) * per

\* Products that the arithmetic below needs.
LEMMA Scale ==
  ASSUME NEW per \in Nat, NEW x \in Int, NEW y \in Int, x <= y
  PROVE  x * per <= y * per
<1>1. (y - x) * per = y * per - x * per
  OBVIOUS
<1>2. y - x \in Nat
  OBVIOUS
<1>3. (y - x) * per \in Nat
  BY <1>2
<1> QED BY <1>1, <1>3

\* A bound of a product bounds the smaller product.
LEMMA ScaleUnder ==
  ASSUME NEW per \in Nat, NEW x \in Int, NEW y \in Int, x <= y, NEW z \in Int, y * per <= z
  PROVE  x * per <= z
<1> DEFINE a == x * per
           b == y * per
<1>1. a \in Int /\ b \in Int /\ a <= b /\ b <= z
  BY Scale
<1> HIDE DEF a, b
<1>2. a <= z
  BY <1>1
<1> QED BY <1>2 DEF a

\* One more token is one more time between two tokens.
LEMMA OneMore ==
  ASSUME NEW per \in Nat, NEW x \in Int
  PROVE  (x + 1) * per = x * per + per /\ x * per \in Int
OBVIOUS

\* Products distribute.
LEMMA Plus ==
  ASSUME NEW per \in Nat, NEW x \in Int, NEW y \in Int
  PROVE  (x + y) * per = x * per + y * per /\ (x - y) * per = x * per - y * per
OBVIOUS

\* The parts of the workers that wait are finite sets.
LEMMA Parts ==
  ASSUME NEW Q, IsFiniteSet(Q), NEW W, NEW w
  PROVE  /\ IsFiniteSet(Upto(Q, W, w)) /\ Cardinality(Upto(Q, W, w)) \in Nat
         /\ IsFiniteSet(Beyond(Q, W, w)) /\ Cardinality(Beyond(Q, W, w)) \in Nat
         /\ Cardinality(Q) \in Nat
<1>1. Upto(Q, W, w) \subseteq Q /\ Beyond(Q, W, w) \subseteq Q
  BY DEF Upto, Beyond
<1> QED BY <1>1, FS_Subset, FS_CardinalityType

\* Fewer tokens are used: a worker ends in Get.
LEMMA HeldFewer ==
  ASSUME NEW per \in Nat, NEW F \in Nat, NEW N \in Nat, NEW K \in Nat, NEW L \in Nat, L <= K,
         NEW Q, IsFiniteSet(Q), NEW W \in [Worker -> Nat], Q \subseteq Worker,
         Held(per, F, N, K, Q, W)
  PROVE  Held(per, F, N, L, Q, W)
<1> USE RateLimitAssumption
<1> DEFINE c == Cardinality(Q)
<1>1. c \in Nat /\ Burst \in Nat
  BY Parts
<1>2. (K + c) * per <= F /\ (K - Burst) * per <= N
  <2>1. F >= (K + c) * per /\ (K - Burst) * per <= N
    BY DEF Held
  <2> QED BY <2>1
<1> HIDE DEF c
<1>3. (L + c) * per <= F
  <2>1. L + c \in Int /\ K + c \in Int /\ L + c <= K + c
    BY <1>1
  <2> QED BY <1>2, <2>1, ScaleUnder
<1>4. (L - Burst) * per <= N
  <2>1. L - Burst \in Int /\ K - Burst \in Int /\ L - Burst <= K - Burst
    BY <1>1
  <2> QED BY <1>2, <2>1, ScaleUnder
<1>5. ASSUME NEW w \in Q
      PROVE  W[w] >= (L + Cardinality(Upto(Q, W, w)) - Burst) * per
  <2> DEFINE u == Cardinality(Upto(Q, W, w))
  <2>1. u \in Nat /\ W[w] \in Nat
    BY Parts
  <2>2. (K + u - Burst) * per <= W[w]
    <3>1. W[w] >= (K + u - Burst) * per
      BY DEF Held
    <3> QED BY <3>1
  <2> HIDE DEF u
  <2>3. /\ L + u - Burst \in Int /\ K + u - Burst \in Int
        /\ L + u - Burst <= K + u - Burst
    BY <1>1, <2>1
  <2>4. (L + u - Burst) * per <= W[w]
    <3> DEFINE x == L + u - Burst
               y == K + u - Burst
    <3>1. x \in Int /\ y \in Int /\ x <= y /\ y * per <= W[w] /\ W[w] \in Int
      BY <2>1, <2>2, <2>3
    <3> HIDE DEF x, y
    <3>2. x * per <= W[w]
      BY <3>1, ScaleUnder
    <3> QED BY <3>2 DEF x
  <2>5. W[w] >= (L + u - Burst) * per
    BY <2>4
  <2> QED BY <2>5 DEF u
<1>6. F >= (L + Cardinality(Q)) * per
  BY <1>3 DEF c
<1> QED BY <1>4, <1>5, <1>6 DEF Held

\* The waits of others do not count.
LEMMA HeldSame ==
  ASSUME NEW per, NEW F, NEW N, NEW K, NEW Q, NEW W, NEW V,
         \A w \in Q : V[w] = W[w], Held(per, F, N, K, Q, W)
  PROVE  Held(per, F, N, K, Q, V)
<1>1. \A w \in Q : Upto(Q, V, w) = Upto(Q, W, w) /\ Beyond(Q, V, w) = Beyond(Q, W, w)
  BY DEF Upto, Beyond
<1> QED BY <1>1 DEF Held

\* A token that is good at once: then nobody waits.
LEMMA HeldTaken ==
  ASSUME NEW per \in Nat, NEW F \in Nat, NEW N \in Nat, NEW K \in Nat,
         NEW Q, IsFiniteSet(Q), NEW W \in [Worker -> Nat], Q \subseteq Worker,
         \A v \in Q : W[v] > N,
         Held(per, F, N, K, Q, W),
         NEW G, G = Later(F, N) + per, G - Burst * per <= N
  PROVE  Q = {} /\ Held(per, G, N, K + 1, Q, W)
<1> USE RateLimitAssumption
<1>0. Burst * per \in Nat /\ G \in Nat /\ G >= F + per
  BY DEF Later
<1>1. Q = {}
  <2> SUFFICES ASSUME NEW v \in Q PROVE FALSE
    OBVIOUS
  <2>1. W[v] <= F - Burst * per /\ W[v] > N /\ W[v] \in Nat
    BY DEF Held
  <2> QED BY <1>0, <2>1
<1>2. Cardinality(Q) = 0
  BY <1>1, FS_EmptySet
<1>3. K * per <= F
  BY <1>2 DEF Held
<1>4. (K + 1) * per = K * per + per /\ K * per \in Int
  BY OneMore
<1>5. (K + 1) * per <= G
  BY <1>0, <1>3, <1>4
<1>6. (K + 1 - Burst) * per <= N
  <2>1. (K + 1 - Burst) * per = (K + 1) * per - Burst * per
    BY Plus
  <2> QED BY <1>0, <1>4, <1>5, <2>1
<1>7. (K + 1) + Cardinality(Q) = K + 1 /\ Burst + Cardinality(Q) = Burst
  BY <1>2
<1>8. G - N <= Burst * per
  BY <1>0
<1>9. G >= (K + 1 + Cardinality(Q)) * per /\ G - N <= (Burst + Cardinality(Q)) * per
  BY <1>0, <1>4, <1>5, <1>7, <1>8
<1> QED BY <1>1, <1>6, <1>9 DEF Held

\* A token that is good only later: one more waits, and longer than all others.
LEMMA HeldAwaited ==
  ASSUME NEW per \in Nat, NEW F \in Nat, NEW N \in Nat, NEW K \in Nat,
         NEW Q, IsFiniteSet(Q), NEW W \in [Worker -> Nat], Q \subseteq Worker,
         Held(per, F, N, K, Q, W),
         NEW G, G = Later(F, N) + per, G - Burst * per > N,
         NEW w \in Worker \ Q,
         NEW V, V = [W EXCEPT ![w] = G - Burst * per]
  PROVE  Held(per, G, N, K, Q \cup {w}, V)
<1> USE RateLimitAssumption
<1> DEFINE R == Q \cup {w}
           c == Cardinality(Q)
<1>0. /\ Burst * per \in Nat /\ G \in Nat /\ c \in Nat
      /\ Burst * per >= per
  <2>1. Burst * per \in Nat /\ c \in Nat
    <3>1. c \in Nat
      BY Parts
    <3> QED BY <3>1
  <2>2. 1 * per <= Burst * per
    BY Scale
  <2>3. 1 * per = per
    OBVIOUS
  <2> QED BY <2>1, <2>2, <2>3 DEF Later
<1>1. Cardinality(R) = c + 1 /\ IsFiniteSet(R)
  BY FS_AddElement
<1>2. F >= N /\ G = F + per
  BY <1>0 DEF Later
<1>3. /\ F >= (K + c) * per /\ (K - Burst) * per <= N
      /\ F - N <= (Burst + c) * per
  BY DEF Held
<1> HIDE DEF c
<1>4. /\ (K + c + 1) * per = (K + c) * per + per /\ (K + c) * per \in Int
      /\ (Burst + c + 1) * per = (Burst + c) * per + per /\ (Burst + c) * per \in Int
  BY <1>0, OneMore
<1>5. per > 0
  <2> SUFFICES ASSUME per = 0 PROVE FALSE
    OBVIOUS
  <2>1. (Burst + c) * per = 0 /\ Burst * per = 0
    BY <1>0
  <2> QED BY <1>2, <1>3, <2>1
<1>6. G >= (K + (c + 1)) * per /\ G - N <= (Burst + (c + 1)) * per
  <2>1. K + (c + 1) = K + c + 1 /\ Burst + (c + 1) = Burst + c + 1
    BY <1>0
  <2>2. G >= (K + c + 1) * per /\ G - N <= (Burst + c + 1) * per
    BY <1>2, <1>3, <1>4
  <2> QED BY <2>1, <2>2
<1>7. V[w] = G - Burst * per /\ \A v \in Q : V[v] = W[v] /\ W[v] \in Nat
  OBVIOUS
<1>8. ASSUME NEW v \in Q
      PROVE  /\ V[v] <= G - Burst * per
             /\ V[v] >= (K + Cardinality(Upto(R, V, v)) - Burst) * per
             /\ G - V[v] <= (Burst + Cardinality(Beyond(R, V, v))) * per
  <2>1. /\ W[v] <= F - Burst * per
        /\ W[v] >= (K + Cardinality(Upto(Q, W, v)) - Burst) * per
        /\ F - W[v] <= (Burst + Cardinality(Beyond(Q, W, v))) * per
    BY DEF Held
  <2>2. V[w] > V[v]
    BY <1>0, <1>2, <1>5, <1>7, <2>1
  <2>3. Upto(R, V, v) = Upto(Q, W, v)
    BY <1>7, <2>2 DEF Upto
  <2>4. Beyond(R, V, v) = Beyond(Q, W, v) \cup {w} /\ w \notin Beyond(Q, W, v)
    BY <1>7, <2>2 DEF Beyond
  <2> DEFINE e == Cardinality(Beyond(Q, W, v))
  <2>5. Cardinality(Beyond(R, V, v)) = e + 1 /\ e \in Nat
    BY <2>4, Parts, FS_AddElement
  <2> HIDE DEF e
  <2>6. (Burst + e + 1) * per = (Burst + e) * per + per /\ (Burst + e) * per \in Int
    BY <2>5, OneMore
  <2>7. Burst + (e + 1) = Burst + e + 1
    BY <2>5
  <2>8. F - W[v] <= (Burst + e) * per
    BY <2>1 DEF e
  <2>9. G - V[v] <= (Burst + (e + 1)) * per
    BY <1>2, <1>7, <2>6, <2>7, <2>8
  <2>10. V[v] <= G - Burst * per
    BY <1>0, <1>2, <1>7, <2>1
  <2> QED BY <1>7, <2>1, <2>3, <2>5, <2>9, <2>10
<1>9. /\ V[w] <= G - Burst * per
      /\ V[w] >= (K + Cardinality(Upto(R, V, w)) - Burst) * per
      /\ G - V[w] <= (Burst + Cardinality(Beyond(R, V, w))) * per
  <2> DEFINE u == Cardinality(Upto(R, V, w))
             e == Cardinality(Beyond(R, V, w))
  <2>1. u \in Nat /\ e \in Nat
    BY <1>1, Parts
  <2>2. u <= c + 1
    <3>1. Upto(R, V, w) \subseteq R
      BY DEF Upto
    <3>2. u <= Cardinality(R)
      BY <1>1, <3>1, FS_Subset
    <3> QED BY <1>1, <3>2
  <2> HIDE DEF u, e
  <2>3. (K + u - Burst) * per <= (K + (c + 1) - Burst) * per
    BY <1>0, <2>1, <2>2, Scale
  <2>4. (K + (c + 1) - Burst) * per = (K + (c + 1)) * per - Burst * per
    BY <1>0, Plus
  <2>5. (K + u - Burst) * per \in Int /\ (K + (c + 1)) * per \in Int
    BY <1>0, <2>1
  <2>6. V[w] >= (K + u - Burst) * per
    BY <1>0, <1>6, <1>7, <2>3, <2>4, <2>5
  <2>7. Burst * per <= (Burst + e) * per
    BY <2>1, Scale
  <2>8. G - V[w] <= (Burst + e) * per
    BY <1>0, <1>7, <2>7
  <2> QED BY <1>0, <1>7, <2>6, <2>8 DEF u, e
<1>10. \A v \in R : /\ V[v] <= G - Burst * per
                    /\ V[v] >= (K + Cardinality(Upto(R, V, v)) - Burst) * per
                    /\ G - V[v] <= (Burst + Cardinality(Beyond(R, V, v))) * per
  BY <1>8, <1>9
<1> HIDE DEF R
<1>11. Held(per, G, N, K, R, V)
  BY <1>1, <1>3, <1>6, <1>10 DEF Held
<1> QED BY <1>11 DEF R

\* Time passes: the tokens of the workers D that waited the shortest are good.
LEMMA HeldTick ==
  ASSUME NEW per \in Nat, NEW F \in Nat, NEW N \in Nat, NEW K \in Nat,
         NEW Q, IsFiniteSet(Q), NEW W \in [Worker -> Nat], Q \subseteq Worker,
         \A v \in Q : W[v] > N,
         Held(per, F, N, K, Q, W),
         NEW D, D = {v \in Q : W[v] <= N + 1}
  PROVE  Held(per, F, N + 1, K + Cardinality(D), Q \ D, W)
<1> DEFINE R == Q \ D
           c == Cardinality(Q)
           d == Cardinality(D)
           r == Cardinality(R)
<1>1. /\ IsFiniteSet(D) /\ IsFiniteSet(R)
      /\ c \in Nat /\ d \in Nat /\ r \in Nat /\ c = d + r
  <2>1. IsFiniteSet(D) /\ IsFiniteSet(R)
    BY FS_Subset
  <2>2. Q \cap D = D /\ r = c - Cardinality(Q \cap D)
    BY FS_Difference
  <2>3. c \in Nat /\ d \in Nat /\ r \in Nat
    BY <2>1, FS_CardinalityType
  <2>4. r = c - d
    BY <2>2
  <2> HIDE DEF c, d, r
  <2> QED BY <2>1, <2>3, <2>4
<1>2. Burst \in Nat
  BY RateLimitAssumption
<1>3. \A v \in D : W[v] = N + 1
  OBVIOUS
<1>4. \A v \in R : W[v] > N + 1 /\ W[v] \in Nat
  OBVIOUS
<1>5. /\ F >= (K + c) * per /\ (K - Burst) * per <= N
      /\ F - N <= (Burst + c) * per
  BY DEF Held
<1>6. F >= ((K + d) + r) * per
  <2>1. (K + d) + r = K + c
    <3> HIDE DEF c, d, r
    <3> QED BY <1>1
  <2> QED BY <1>5, <2>1
<1>7. ((K + d) - Burst) * per <= N + 1 /\ F - (N + 1) <= (Burst + r) * per
  <2>1. CASE D = {}
    <3>1. d = 0 /\ r = c
      <4>1. d = 0
        BY <2>1, FS_EmptySet
      <4> HIDE DEF c, d, r
      <4> QED BY <1>1, <4>1
    <3>2. (K + d) - Burst = K - Burst /\ Burst + r = Burst + c
      <4> HIDE DEF c, d, r
      <4> QED BY <1>2, <3>1
    <3>3. (K - Burst) * per \in Int /\ (Burst + c) * per \in Int
      <4> HIDE DEF c, d, r
      <4> QED BY <1>1, <1>2
    <3>4. (K - Burst) * per <= N + 1
      BY <1>5, <3>3
    <3>5. F - (N + 1) <= (Burst + c) * per
      BY <1>5, <3>3
    <3> QED BY <3>2, <3>4, <3>5
  <2>2. CASE D # {}
    <3>1. PICK v \in D : v \in Q /\ W[v] = N + 1
      BY <1>3, <2>2
    <3>2. Upto(Q, W, v) = D
      BY <3>1 DEF Upto
    <3>3. Beyond(Q, W, v) = R
      BY <3>1 DEF Beyond
    <3>4. /\ W[v] >= (K + Cardinality(Upto(Q, W, v)) - Burst) * per
          /\ F - W[v] <= (Burst + Cardinality(Beyond(Q, W, v))) * per
      BY <3>1 DEF Held
    <3>5. N + 1 >= ((K + d) - Burst) * per /\ F - (N + 1) <= (Burst + r) * per
      BY <1>1, <1>2, <3>1, <3>2, <3>3, <3>4
    <3> QED BY <3>5
  <2> QED BY <2>1, <2>2
<1>8. ASSUME NEW v \in R
      PROVE  /\ W[v] <= F - Burst * per
             /\ W[v] >= (K + d + Cardinality(Upto(R, W, v)) - Burst) * per
             /\ F - W[v] <= (Burst + Cardinality(Beyond(R, W, v))) * per
  <2>1. /\ W[v] <= F - Burst * per
        /\ W[v] >= (K + Cardinality(Upto(Q, W, v)) - Burst) * per
        /\ F - W[v] <= (Burst + Cardinality(Beyond(Q, W, v))) * per
    BY DEF Held
  <2>2. Beyond(R, W, v) = Beyond(Q, W, v)
    BY <1>3, <1>4 DEF Beyond
  <2>3. Upto(R, W, v) = Upto(Q, W, v) \ D /\ Upto(Q, W, v) \cap D = D
    BY <1>3, <1>4 DEF Upto
  <2> DEFINE u == Cardinality(Upto(Q, W, v))
             s == Cardinality(Upto(R, W, v))
  <2>4. u \in Nat /\ s \in Nat
    BY <1>1, Parts
  <2>5. s = u - d
    <3>1. IsFiniteSet(Upto(Q, W, v))
      BY Parts
    <3> QED BY <2>3, <3>1, FS_Difference
  <2>6. K + d + s = K + u
    <3> HIDE DEF u, s, d
    <3> QED BY <1>1, <2>4, <2>5
  <2>7. K + d + s - Burst = K + u - Burst
    <3> HIDE DEF u, s, d
    <3> QED BY <1>1, <1>2, <2>4, <2>6
  <2>8. W[v] >= (K + u - Burst) * per
    BY <2>1
  <2>9. W[v] >= (K + d + s - Burst) * per
    BY <2>7, <2>8, Zenon
  <2> QED BY <2>1, <2>2, <2>9
<1> HIDE DEF R, c, d
<1>9. \A v \in R : /\ W[v] <= F - Burst * per
                   /\ W[v] >= (K + d + Cardinality(Upto(R, W, v)) - Burst) * per
                   /\ F - W[v] <= (Burst + Cardinality(Beyond(R, W, v))) * per
  BY <1>8
<1>10. Held(per, F, N + 1, K + d, R, W)
  BY <1>6, <1>7, <1>9, Zenon DEF Held, r
<1> QED BY <1>10 DEF R, d

-----------------------------------------------------------------------------
\* The workers that wait for a token of limiter i of task t, and those that
\* have theirs and have not got to their Get.
Pending(t, i) == {w \in Worker : /\ pc[w] = "token" /\ task[w] = t /\ stage[w] = i
                                 /\ wake[w] > now}
Past(t, i) == {w \in Worker : /\ task[w] = t
                              /\ \/ pc[w] = "sleep"
                                 \/ pc[w] \in {"wait", "token"} /\ stage[w] > i
                                 \/ pc[w] = "token" /\ stage[w] = i /\ wake[w] <= now}

\* The tokens that were used.
Used(t, i) == begun[t] + Cardinality(Past(t, i))

PerOf(t, i) == Per(Multi(t)[i])

\* What holds of every bucket.
Buckets == \A t \in Task : \A i \in 1 .. Len(Limits[t]) :
              Held(PerOf(t, i), full[t][i], now, Used(t, i), Pending(t, i), wake)

\* The types of what Held is about.
LEMMA BucketTypes ==
  ASSUME TypeOK, NEW t \in Task, NEW i \in 1 .. Len(Limits[t])
  PROVE  /\ PerOf(t, i) \in Nat /\ full[t][i] \in Nat /\ now \in Nat
         /\ Used(t, i) \in Nat /\ begun[t] \in Nat
         /\ IsFiniteSet(Pending(t, i)) /\ Pending(t, i) \subseteq Worker
         /\ IsFiniteSet(Past(t, i)) /\ Past(t, i) \subseteq Worker
         /\ Cardinality(Past(t, i)) \in Nat
         /\ wake \in [Worker -> Nat]
         /\ \A w \in Pending(t, i) : wake[w] > now
<1>1. Pending(t, i) \subseteq Worker /\ Past(t, i) \subseteq Worker
  BY DEF Pending, Past
<1>2. IsFiniteSet(Pending(t, i)) /\ IsFiniteSet(Past(t, i)) /\ Cardinality(Past(t, i)) \in Nat
  BY <1>1, FS_Subset, FS_CardinalityType, FetchingAssumption
<1>3. begun[t] \in Nat /\ wake \in [Worker -> Nat]
  BY DEF TypeOK
<1>4. \A w \in Pending(t, i) : wake[w] > now
  BY DEF Pending
<1>5. Used(t, i) \in Nat
  BY <1>2, <1>3 DEF Used
<1> QED BY <1>1, <1>2, <1>3, <1>4, <1>5, ReserveType DEF PerOf, TypeOK

\* A step that leaves the bucket, the time and who waits as they are, and of
\* those who have their tokens at most lets some go.
LEMMA BucketQuiet ==
  ASSUME TypeOK, TypeOK', NEW t \in Task, NEW i \in 1 .. Len(Limits[t]),
         Held(PerOf(t, i), full[t][i], now, Used(t, i), Pending(t, i), wake),
         full'[t][i] = full[t][i], now' = now,
         Pending(t, i)' = Pending(t, i), \A w \in Pending(t, i) : wake'[w] = wake[w],
         Used(t, i)' <= Used(t, i)
  PROVE  Held(PerOf(t, i), full'[t][i], now', Used(t, i)', Pending(t, i)', wake')
<1>1. Used(t, i)' \in Nat
  <2>1. IsFiniteSet(Past(t, i)')
    <3>1. Past(t, i)' \subseteq Worker
      BY DEF Past
    <3> QED BY <3>1, FS_Subset, FetchingAssumption
  <2>2. begun'[t] \in Nat /\ Cardinality(Past(t, i)') \in Nat
    BY <2>1, FS_CardinalityType DEF TypeOK
  <2> QED BY <2>2 DEF Used
<1>2. Held(PerOf(t, i), full[t][i], now, Used(t, i)', Pending(t, i), wake)
  BY <1>1, BucketTypes, HeldFewer
<1>3. Held(PerOf(t, i), full[t][i], now, Used(t, i)', Pending(t, i), wake')
  BY <1>2, HeldSame
<1> QED BY <1>3

\* At first the buckets are full and nobody waits.
LEMMA BucketsInit == Init => Buckets
<1> SUFFICES ASSUME Init, NEW t \in Task, NEW i \in 1 .. Len(Limits[t])
             PROVE  Held(PerOf(t, i), full[t][i], now, Used(t, i), Pending(t, i), wake)
  BY DEF Buckets
<1> DEFINE per == PerOf(t, i)
<1>1. TypeOK
  BY TypesInit DEF Types
<1>2. per \in Nat /\ Burst \in Nat
  BY <1>1, BucketTypes, RateLimitAssumption
<1>3. full[t][i] = 0 /\ now = 0 /\ begun[t] = 0
  BY MultiLength DEF Init, RateLimitInit
<1>4. Pending(t, i) = {} /\ Past(t, i) = {}
  BY DEF Pending, Past, Init
<1>5. Used(t, i) = 0 /\ Cardinality(Pending(t, i)) = 0
  BY <1>3, <1>4, FS_EmptySet DEF Used
<1> HIDE DEF per
<1>6. /\ 0 >= (0 + 0) * per
      /\ (0 - Burst) * per <= 0
      /\ 0 - 0 <= (Burst + 0) * per
  <2>1. (0 - Burst) * per <= 0 * per
    BY <1>2, Scale
  <2>2. 0 * per <= (Burst + 0) * per
    BY <1>2, Scale
  <2>3. 0 * per = 0 /\ (0 + 0) * per = 0 /\ (Burst + 0) * per \in Int
    BY <1>2
  <2> QED BY <2>1, <2>2, <2>3
<1>7. Held(per, 0, 0, 0, {}, wake)
  <2>1. Cardinality({}) = 0
    BY FS_EmptySet
  <2> QED BY <1>6, <2>1 DEF Held
<1> QED BY <1>3, <1>4, <1>5, <1>7 DEF per

\* The actions that take no token and let no time pass.
LEMMA BucketsQuiet ==
  ASSUME TypeOK, TypeOK', Buckets, full' = full, now' = now,
         \A t \in Task : \A i \in 1 .. Len(Limits[t]) :
            /\ Pending(t, i)' = Pending(t, i)
            /\ \A w \in Pending(t, i) : wake'[w] = wake[w]
            /\ Used(t, i)' <= Used(t, i)
  PROVE  Buckets'
<1> SUFFICES ASSUME NEW t \in Task, NEW i \in 1 .. Len(Limits[t])
             PROVE  Held(PerOf(t, i), full'[t][i], now', Used(t, i)', Pending(t, i)', wake')
  BY DEF Buckets, PerOf, Multi, SlowestFirst
<1>1. Held(PerOf(t, i), full[t][i], now, Used(t, i), Pending(t, i), wake)
  BY DEF Buckets
<1> QED BY <1>1, BucketQuiet

\* Who gives up its token before its Get used none.
LEMMA FewerUsed ==
  ASSUME TypeOK, NEW t \in Task, NEW i \in 1 .. Len(Limits[t]),
         begun'[t] = begun[t], Past(t, i)' \subseteq Past(t, i)
  PROVE  Used(t, i)' <= Used(t, i)
<1>1. IsFiniteSet(Past(t, i)) /\ Cardinality(Past(t, i)) \in Nat /\ begun[t] \in Nat
  BY BucketTypes
<1>2. Cardinality(Past(t, i)') <= Cardinality(Past(t, i))
  BY <1>1, FS_Subset
<1>3. Cardinality(Past(t, i)') \in Nat
  BY <1>1, FS_Subset, FS_CardinalityType
<1>4. Used(t, i)' = begun[t] + Cardinality(Past(t, i)')
  BY DEF Used
<1> QED BY <1>1, <1>2, <1>3, <1>4 DEF Used

\* A worker that enters Fetch has no token yet.
LEMMA FetchBuckets ==
  ASSUME TypeOK, TypeOK', Stages, Buckets, NEW w \in Worker, NEW u \in Task, Fetch(w, u)
  PROVE  Buckets'
<1>1. ASSUME NEW t \in Task, NEW i \in 1 .. Len(Limits[t])
      PROVE  /\ Pending(t, i)' = Pending(t, i)
             /\ \A v \in Pending(t, i) : wake'[v] = wake[v]
             /\ Past(t, i)' = Past(t, i)
  <2>1. \A v \in Worker : v # w => pc'[v] = pc[v] /\ task'[v] = task[v]
    BY DEF Fetch, Goto, TypeOK
  <2>2. pc[w] = "idle" /\ stage[w] = 1 /\ pc'[w] \in {"dead", "wait"}
    BY DEF Fetch, Goto, TypeOK, Stages
  <2>3. UNCHANGED <<now, stage, wake>>
    BY DEF Fetch
  <2>4. ~(1 > i)
    BY MultiLength
  <2>5. \A v \in Worker : v \in Pending(t, i)' <=> v \in Pending(t, i)
    BY <2>1, <2>2, <2>3 DEF Pending
  <2>6. \A v \in Worker : v \in Past(t, i)' <=> v \in Past(t, i)
    BY <2>1, <2>2, <2>3, <2>4 DEF Past
  <2>7. Pending(t, i)' \subseteq Worker /\ Past(t, i)' \subseteq Worker
        /\ Pending(t, i) \subseteq Worker /\ Past(t, i) \subseteq Worker
    BY DEF Pending, Past
  <2> QED BY <2>3, <2>5, <2>6, <2>7
<1>2. full' = full /\ now' = now /\ begun' = begun
  BY DEF Fetch
<1> QED BY <1>1, <1>2, FewerUsed, BucketsQuiet

\* A worker whose token is good has used it, in whichever stage it is next.
LEMMA WaitReturnsBuckets ==
  ASSUME TypeOK, TypeOK', Buckets, NEW w \in Worker, WaitReturns(w)
  PROVE  Buckets'
<1>0. /\ pc[w] = "token" /\ wake[w] <= now /\ ~(wake[w] > now) /\ task[w] \in Task /\ stage[w] \in Nat
      /\ stage[w] <= Len(Limits[task[w]]) /\ Len(Limits[task[w]]) \in Nat
  <2>1. pc[w] = "token" /\ wake[w] <= now /\ wake[w] \in Nat /\ now \in Nat
    BY DEF WaitReturns, TypeOK
  <2>2. task[w] \in Task /\ stage[w] \in Nat /\ stage[w] <= Len(Limits[task[w]])
    BY <2>1, TaskOf DEF TypeOK
  <2> QED BY <2>1, <2>2, MultiLength
<1>1. ASSUME NEW t \in Task, NEW i \in 1 .. Len(Limits[t])
      PROVE  /\ Pending(t, i)' = Pending(t, i)
             /\ \A v \in Pending(t, i) : wake'[v] = wake[v]
             /\ Past(t, i)' = Past(t, i)
  <2>1. \A v \in Worker : v # w => /\ pc'[v] = pc[v] /\ task'[v] = task[v]
                                   /\ stage'[v] = stage[v] /\ wake'[v] = wake[v]
    BY DEF WaitReturns, Goto, TypeOK
  <2>2. now' = now /\ task' = task
    BY DEF WaitReturns
  <2>3. \/ pc'[w] = "sleep" /\ stage[w] = Len(Limits[task[w]])
        \/ pc'[w] = "wait" /\ stage'[w] = stage[w] + 1
    BY DEF WaitReturns, LastLimiter, Goto, TypeOK
  <2>4. w \notin Pending(t, i) /\ w \notin Pending(t, i)'
    BY <1>0, <2>3 DEF Pending
  <2>5. w \in Past(t, i)' <=> w \in Past(t, i)
    <3>1. w \in Past(t, i) <=> task[w] = t /\ (stage[w] > i \/ stage[w] = i)
      BY <1>0 DEF Past
    <3>2. CASE pc'[w] = "sleep" /\ stage[w] = Len(Limits[task[w]])
      <4>1. w \in Past(t, i)' <=> task[w] = t
        BY <2>2, <3>2 DEF Past
      <4>2. task[w] = t => stage[w] > i \/ stage[w] = i
        BY <1>0, <3>2
      <4> QED BY <3>1, <4>1, <4>2
    <3>3. CASE pc'[w] = "wait" /\ stage'[w] = stage[w] + 1
      <4>1. w \in Past(t, i)' <=> task[w] = t /\ stage[w] + 1 > i
        BY <2>2, <3>3 DEF Past
      <4>2. stage[w] + 1 > i <=> stage[w] > i \/ stage[w] = i
        BY <1>0
      <4> QED BY <3>1, <4>1, <4>2
    <3> QED BY <2>3, <3>2, <3>3
  <2>6. \A v \in Worker : v \in Pending(t, i)' <=> v \in Pending(t, i)
    BY <2>1, <2>2, <2>4 DEF Pending
  <2>7. \A v \in Worker : v # w => (v \in Past(t, i)' <=> v \in Past(t, i))
    BY <2>1, <2>2 DEF Past
  <2>8. Pending(t, i)' \subseteq Worker /\ Past(t, i)' \subseteq Worker
        /\ Pending(t, i) \subseteq Worker /\ Past(t, i) \subseteq Worker
    BY DEF Pending, Past
  <2>9. Pending(t, i)' = Pending(t, i)
    BY <2>6, <2>8
  <2>10. Past(t, i)' = Past(t, i)
    <3>1. \A v \in Worker : v \in Past(t, i)' <=> v \in Past(t, i)
      BY <2>5, <2>7
    <3> QED BY <2>8, <3>1
  <2> QED BY <2>1, <2>4, <2>8, <2>9, <2>10
<1>2. full' = full /\ now' = now /\ begun' = begun
  BY DEF WaitReturns
<1> QED BY <1>1, <1>2, FewerUsed, BucketsQuiet

\* A round trip has nothing to do with tokens.
LEMMA TripBuckets ==
  ASSUME TypeOK, TypeOK', Buckets, NEW w \in Worker, Trip(w)
  PROVE  Buckets'
<1>1. /\ \A v \in Worker : v # w => pc'[v] = pc[v] /\ task'[v] = task[v]
      /\ pc[w] = "trip" /\ pc'[w] \in {"trip", "idle"}
      /\ UNCHANGED <<now, full, stage, wake, begun>>
  BY DEF Trip, Return, Goto, TypeOK
<1>2. ASSUME NEW t \in Task, NEW i \in 1 .. Len(Limits[t])
      PROVE  /\ Pending(t, i)' = Pending(t, i)
             /\ Past(t, i)' = Past(t, i)
  <2>1. \A v \in Worker : v \in Pending(t, i)' <=> v \in Pending(t, i)
    BY <1>1 DEF Pending
  <2>2. \A v \in Worker : v \in Past(t, i)' <=> v \in Past(t, i)
    BY <1>1 DEF Past
  <2>3. Pending(t, i)' \subseteq Worker /\ Past(t, i)' \subseteq Worker
        /\ Pending(t, i) \subseteq Worker /\ Past(t, i) \subseteq Worker
    BY DEF Pending, Past
  <2> QED BY <2>1, <2>2, <2>3
<1> QED BY <1>1, <1>2, FewerUsed, BucketsQuiet

\* A worker that gets to its Get is counted there instead; one that panics is
\* no longer counted.
LEMMA GetBuckets ==
  ASSUME TypeOK, TypeOK', Buckets, NEW w \in Worker, Get(w)
  PROVE  Buckets'
<1>1. /\ \A v \in Worker : v # w => pc'[v] = pc[v] /\ wake'[v] = wake[v]
      /\ pc[w] = "sleep" /\ pc'[w] \in {"trip", "dead"}
      /\ UNCHANGED <<now, full, stage, task>>
  BY DEF Get, Goto, TypeOK
<1>2. task[w] \in Task /\ begun \in [Task -> Nat]
  BY <1>1, TaskOf DEF TypeOK
<1>3. begun' = begun \/ begun' = [begun EXCEPT ![task[w]] = begun[task[w]] + 1]
  BY DEF Get
<1>4. ASSUME NEW t \in Task, NEW i \in 1 .. Len(Limits[t])
      PROVE  /\ Pending(t, i)' = Pending(t, i)
             /\ \A v \in Pending(t, i) : wake'[v] = wake[v]
             /\ Used(t, i)' <= Used(t, i)
  <2>1. \A v \in Worker : v \in Pending(t, i)' <=> v \in Pending(t, i)
    BY <1>1 DEF Pending
  <2>2. Past(t, i)' = Past(t, i) \ {w}
    <3>1. \A v \in Worker : v # w => (v \in Past(t, i)' <=> v \in Past(t, i))
      BY <1>1 DEF Past
    <3>2. w \notin Past(t, i)'
      BY <1>1 DEF Past
    <3>3. Past(t, i)' \subseteq Worker /\ Past(t, i) \subseteq Worker
      BY DEF Past
    <3> QED BY <3>1, <3>2, <3>3
  <2>3. Pending(t, i)' \subseteq Worker /\ Pending(t, i) \subseteq Worker
    BY DEF Pending
  <2>4. \A v \in Pending(t, i) : v # w
    BY <1>1 DEF Pending
  <2>5. Used(t, i)' <= Used(t, i)
    <3>1. CASE begun'[t] = begun[t]
      BY <2>2, <3>1, FewerUsed
    <3>2. CASE begun'[t] # begun[t]
      <4>1. task[w] = t /\ begun'[t] = begun[t] + 1
        BY <1>2, <1>3, <3>2
      <4>2. w \in Past(t, i)
        BY <1>1, <4>1 DEF Past
      <4>3. IsFiniteSet(Past(t, i)) /\ Cardinality(Past(t, i)) \in Nat /\ begun[t] \in Nat
        BY BucketTypes
      <4>4. Cardinality(Past(t, i)') = Cardinality(Past(t, i)) - 1
        BY <2>2, <4>2, <4>3, FS_RemoveElement
      <4> QED BY <4>1, <4>3, <4>4 DEF Used
    <3> QED BY <3>1, <3>2
  <2> QED BY <1>1, <2>1, <2>3, <2>4, <2>5
<1> QED BY <1>1, <1>4, BucketsQuiet

\* The bucket that a token is taken from, and all others.
LEMMA WaitBuckets ==
  ASSUME TypeOK, TypeOK', Buckets, NEW w \in Worker, Wait(w)
  PROVE  Buckets'
<1> DEFINE u == task[w]
           k == stage[w]
<1>1. u \in Task /\ k \in 1 .. Len(Limits[u])
  BY TaskOf, MultiLength DEF Wait, TypeOK
<1>2. /\ \A v \in Worker : v # w => pc'[v] = pc[v] /\ wake'[v] = wake[v]
      /\ pc[w] = "wait" /\ pc'[w] = "token"
      /\ UNCHANGED <<now, stage, task, begun>>
      /\ wake' = [wake EXCEPT ![w] = TimeToAct(u, k)]
      /\ full' = [full EXCEPT ![u][k] = Reserve(u, k)]
  BY DEF Wait, Take, Goto, TypeOK
<1>3. wake'[w] = TimeToAct(u, k)
  BY <1>2 DEF TypeOK
<1>4. \A t \in Task : \A i \in 1 .. Len(Limits[t]) :
         full'[t][i] = IF t = u /\ i = k THEN Reserve(u, k) ELSE full[t][i]
  BY <1>1, <1>2 DEF TypeOK
<1> SUFFICES ASSUME NEW t \in Task, NEW i \in 1 .. Len(Limits[t])
             PROVE  Held(PerOf(t, i), full'[t][i], now', Used(t, i)', Pending(t, i)', wake')
  BY DEF Buckets, PerOf, Multi, SlowestFirst
<1>5. Held(PerOf(t, i), full[t][i], now, Used(t, i), Pending(t, i), wake)
  BY DEF Buckets
<1>6. w \notin Pending(t, i)
  BY <1>2 DEF Pending
<1>7. /\ Pending(t, i)' \subseteq Worker /\ Past(t, i)' \subseteq Worker
      /\ Pending(t, i) \subseteq Worker /\ Past(t, i) \subseteq Worker
  BY DEF Pending, Past
<1>8. /\ \A v \in Worker : v # w => (v \in Pending(t, i)' <=> v \in Pending(t, i))
      /\ \A v \in Worker : v # w => (v \in Past(t, i)' <=> v \in Past(t, i))
  BY <1>2 DEF Pending, Past
<1>9. CASE ~(t = u /\ i = k)
  <2>1. w \notin Pending(t, i)'
    BY <1>2, <1>9 DEF Pending
  <2>2. w \in Past(t, i)' <=> w \in Past(t, i)
    BY <1>2, <1>9 DEF Past
  <2>3. Pending(t, i)' = Pending(t, i)
    <3>1. \A v \in Worker : v \in Pending(t, i)' <=> v \in Pending(t, i)
      BY <1>6, <1>8, <2>1
    <3> QED BY <1>7, <3>1
  <2>4. \A v \in Worker : v \in Past(t, i)' <=> v \in Past(t, i)
    BY <1>8, <2>2
  <2>5. Past(t, i)' \subseteq Past(t, i)
    BY <1>7, <2>4
  <2>6. Used(t, i)' <= Used(t, i)
    BY <1>2, <2>5, FewerUsed
  <2>7. \A v \in Pending(t, i) : wake'[v] = wake[v]
    BY <1>2, <1>6, <1>7
  <2>8. full'[t][i] = full[t][i] /\ now' = now
    BY <1>2, <1>4, <1>9
  <2> QED BY <1>5, <2>3, <2>6, <2>7, <2>8, BucketQuiet
<1>10. CASE t = u /\ i = k
  <2> DEFINE per == PerOf(t, i)
             F == full[t][i]
             G == Reserve(t, i)
             K == Used(t, i)
             Q == Pending(t, i)
  <2>1. /\ per \in Nat /\ F \in Nat /\ now \in Nat /\ K \in Nat /\ G \in Nat
        /\ IsFiniteSet(Q) /\ Q \subseteq Worker /\ wake \in [Worker -> Nat]
        /\ \A v \in Q : wake[v] > now
        /\ Burst \in Nat
    BY BucketTypes, ReserveType, RateLimitAssumption
  <2>2. G = Later(F, now) + per
    BY DEF Reserve, PerOf
  <2>3. full'[t][i] = G
    BY <1>4, <1>10
  <2>4. wake'[w] = Later(now, G - Burst * per)
    BY <1>3, <1>10 DEF TimeToAct, PerOf
  <2>5. task[w] = t /\ stage[w] = i
    BY <1>10
  <2>6. w \notin Past(t, i)
    <3>1. ~(stage[w] > i)
      BY <1>1, <1>10
    <3> QED BY <1>2, <3>1 DEF Past
  <2>7. Held(per, F, now, K, Q, wake)
    BY <1>5
  <2>8. /\ w \in Pending(t, i)' <=> wake'[w] > now
        /\ w \in Past(t, i)' <=> wake'[w] <= now
    <3>1. ~(stage[w] > i)
      BY <1>1, <1>10
    <3> QED BY <1>2, <2>5, <3>1 DEF Pending, Past
  <2>9. /\ IsFiniteSet(Past(t, i)) /\ Cardinality(Past(t, i)) \in Nat /\ begun[t] \in Nat
        /\ K = begun[t] + Cardinality(Past(t, i))
        /\ Used(t, i)' = begun[t] + Cardinality(Past(t, i)')
    BY <1>2, BucketTypes DEF Used
  <2> HIDE DEF per, F, G, K, Q
  <2>10. CASE G - Burst * per <= now
    <3>1. wake'[w] = now
      BY <2>1, <2>4, <2>10 DEF Later
    <3>2. ~(wake'[w] > now) /\ wake'[w] <= now
      BY <2>1, <3>1
    <3>3. Pending(t, i)' = Q
      <4>1. \A v \in Worker : v \in Pending(t, i)' <=> v \in Q
        BY <1>6, <1>8, <2>8, <3>2 DEF Q
      <4> QED BY <1>7, <2>1, <4>1
    <3>4. Past(t, i)' = Past(t, i) \cup {w}
      <4>1. \A v \in Worker : v \in Past(t, i)' <=> v \in Past(t, i) \cup {w}
        BY <1>8, <2>8, <3>2
      <4> QED BY <1>7, <4>1
    <3>5. Used(t, i)' = K + 1
      <4>1. Cardinality(Past(t, i)') = Cardinality(Past(t, i)) + 1
        BY <2>6, <2>9, <3>4, FS_AddElement
      <4> QED BY <2>9, <4>1
    <3>6. Q = {} /\ Held(per, G, now, K + 1, Q, wake)
      BY <2>1, <2>2, <2>7, <2>10, HeldTaken
    <3>7. Held(per, G, now, K + 1, Q, wake')
      BY <3>6, HeldSame
    <3> QED BY <1>2, <2>3, <3>3, <3>5, <3>7 DEF per
  <2>11. CASE ~(G - Burst * per <= now)
    <3>1. Burst * per \in Nat
      BY <2>1
    <3>2. wake'[w] = G - Burst * per /\ G - Burst * per > now
      BY <2>1, <2>4, <2>11, <3>1 DEF Later
    <3>3. wake'[w] > now /\ ~(wake'[w] <= now)
      BY <2>1, <2>11, <3>1, <3>2
    <3>4. Pending(t, i)' = Q \cup {w}
      <4>1. \A v \in Worker : v \in Pending(t, i)' <=> v \in Q \cup {w}
        BY <1>8, <2>8, <3>3 DEF Q
      <4> QED BY <1>7, <2>1, <4>1
    <3>5. Past(t, i)' = Past(t, i)
      <4>1. \A v \in Worker : v \in Past(t, i)' <=> v \in Past(t, i)
        BY <1>8, <2>6, <2>8, <3>3
      <4> QED BY <1>7, <4>1
    <3>6. Used(t, i)' = K
      BY <2>9, <3>5
    <3>7. wake' = [wake EXCEPT ![w] = G - Burst * per]
      BY <1>2, <1>3, <3>2
    <3>8. w \in Worker \ Q
      BY <1>6 DEF Q
    <3>9. Held(per, G, now, K, Q \cup {w}, wake')
      BY <2>1, <2>2, <2>7, <3>2, <3>7, <3>8, HeldAwaited
    <3> QED BY <1>2, <2>3, <3>4, <3>6, <3>9 DEF per
  <2> QED BY <2>10, <2>11
<1> QED BY <1>9, <1>10

\* With time the first of those that wait have their tokens.
LEMMA TickBuckets ==
  ASSUME TypeOK, TypeOK', Buckets, Tick
  PROVE  Buckets'
<1> SUFFICES ASSUME NEW t \in Task, NEW i \in 1 .. Len(Limits[t])
             PROVE  Held(PerOf(t, i), full'[t][i], now', Used(t, i)', Pending(t, i)', wake')
  BY DEF Buckets, PerOf, Multi, SlowestFirst
<1> DEFINE D == {v \in Pending(t, i) : wake[v] <= now + 1}
<1>1. now' = now + 1 /\ UNCHANGED <<full, pc, task, stage, wake, begun>>
  BY DEF Tick, workerVars
<1>2. now \in Nat /\ \A v \in Worker : wake[v] \in Nat
  BY DEF TypeOK
<1>3. Held(PerOf(t, i), full[t][i], now, Used(t, i), Pending(t, i), wake)
  BY DEF Buckets
<1>4. Held(PerOf(t, i), full[t][i], now + 1, Used(t, i) + Cardinality(D),
           Pending(t, i) \ D, wake)
  BY <1>3, BucketTypes, HeldTick
<1>5. Pending(t, i)' = Pending(t, i) \ D
  <2>1. \A v \in Worker : wake[v] > now + 1 <=> wake[v] > now /\ ~(wake[v] <= now + 1)
    BY <1>2
  <2> QED BY <1>1, <2>1 DEF Pending
<1>6. Past(t, i)' = Past(t, i) \cup D /\ Past(t, i) \cap D = {}
  <2>1. \A v \in Worker : /\ wake[v] <= now + 1 <=> \/ wake[v] <= now
                                                    \/ wake[v] > now /\ wake[v] <= now + 1
                          /\ ~(wake[v] <= now /\ wake[v] > now)
    BY <1>2
  <2>2. \A v \in Worker : v \in Past(t, i)' <=> v \in Past(t, i) \cup D
    BY <1>1, <2>1 DEF Past, Pending
  <2>3. Past(t, i)' \subseteq Worker /\ Past(t, i) \cup D \subseteq Worker
    BY DEF Past, Pending
  <2>4. \A v \in D : v \notin Past(t, i)
    <3>1. \A v \in D : v \in Worker /\ pc[v] = "token" /\ stage[v] = i /\ wake[v] > now
      BY DEF Pending
    <3>2. ~(i > i)
      BY MultiLength
    <3> QED BY <2>1, <3>1, <3>2 DEF Past
  <2>5. Past(t, i)' = Past(t, i) \cup D
    BY <2>2, <2>3
  <2> QED BY <2>4, <2>5
<1>7. Used(t, i)' = Used(t, i) + Cardinality(D)
  <2>1. /\ IsFiniteSet(Past(t, i)) /\ Cardinality(Past(t, i)) \in Nat /\ begun[t] \in Nat
        /\ IsFiniteSet(Pending(t, i))
    BY BucketTypes
  <2>2. IsFiniteSet(D) /\ Cardinality(D) \in Nat
    BY <2>1, FS_Subset, FS_CardinalityType
  <2> HIDE DEF D
  <2>3. Cardinality(Past(t, i) \cup D)
           = Cardinality(Past(t, i)) + Cardinality(D) - Cardinality(Past(t, i) \cap D)
    BY <2>1, <2>2, FS_Union
  <2>4. Cardinality(Past(t, i) \cap D) = 0
    BY <1>6, FS_EmptySet
  <2>5. Cardinality(Past(t, i)') = Cardinality(Past(t, i)) + Cardinality(D)
    BY <1>6, <2>1, <2>2, <2>3, <2>4
  <2>6. Used(t, i)' = begun[t] + Cardinality(Past(t, i)')
    BY <1>1 DEF Used
  <2> QED BY <2>1, <2>2, <2>5, <2>6 DEF Used
<1>8. full'[t][i] = full[t][i] /\ wake' = wake
  BY <1>1
<1> QED BY <1>1, <1>4, <1>5, <1>7, <1>8

\* Every step keeps the buckets, action by action.
LEMMA BucketsStep == Types /\ Types' /\ Buckets /\ [Next]_vars => Buckets'
<1> SUFFICES ASSUME TypeOK, Stages, TypeOK', Buckets, [Next]_vars PROVE Buckets'
  BY DEF Types
<1>1. CASE UNCHANGED vars
  <2>1. UNCHANGED <<now, full, pc, task, stage, wake, begun>>
    BY <1>1 DEF vars, workerVars
  <2>2. \A t \in Task : \A i \in 1 .. Len(Limits[t]) :
           /\ Pending(t, i)' = Pending(t, i) /\ Past(t, i)' = Past(t, i)
    BY <2>1 DEF Pending, Past
  <2> QED BY <2>1, <2>2, FewerUsed, BucketsQuiet
<1> QED BY <1>1, FetchBuckets, WaitBuckets, WaitReturnsBuckets, GetBuckets, TripBuckets,
           TickBuckets DEF Next, Runs

\* The inductive invariant holds of every behaviour.
LEMMA Bucketed == Spec => [](Types /\ Buckets)
BY TypesInit, TypesStep, BucketsInit, BucketsStep, PTL DEF Spec

\* No token is lost: however the waits of several tasks and limiters interleave,
\* a bucket owes no more than its size and a token for each worker that waits.
THEOREM TokensLast == Spec => []NoTokenLost
<1>1. Types /\ Buckets => NoTokenLost
  BY DEF Buckets, Held, Pending, PerOf, NoTokenLost
<1> QED BY Bucketed, <1>1, PTL

\* The limits hold together: what the bucket at each place of a MultiLimiter
\* gave out in the time there was bounds the Gets of the task, and every limit of
\* the task has a place.
THEOREM LimitsHold == Spec => []Throttled
<1>1. Types /\ Buckets => Throttled
  <2> SUFFICES ASSUME TypeOK, Buckets, NEW t \in Task, NEW k \in 1 .. Len(Limits[t])
               PROVE  (begun[t] - Burst) * Per(Limits[t][k]) <= now
    BY DEF Types, Throttled
  <2>1. PICK i \in 1 .. Len(Limits[t]) : Multi(t)[i] = Limits[t][k]
    BY MultiOrder
  <2> DEFINE per == PerOf(t, i)
             c == Cardinality(Past(t, i))
  <2>2. /\ per \in Nat /\ now \in Nat /\ begun[t] \in Nat
        /\ Used(t, i) \in Nat /\ Burst \in Nat
        /\ begun[t] <= Used(t, i)
    <3>1. Used(t, i) = begun[t] + c /\ c \in Nat /\ begun[t] \in Nat
      BY BucketTypes DEF Used
    <3>2. begun[t] <= Used(t, i)
      <4> HIDE DEF c
      <4> QED BY <3>1
    <3> QED BY <3>2, BucketTypes, RateLimitAssumption
  <2>3. (Used(t, i) - Burst) * per <= now
    BY DEF Buckets, Held
  <2>4. Per(Limits[t][k]) = per
    BY <2>1 DEF PerOf
  <2> HIDE DEF per
  <2>5. (begun[t] - Burst) * per <= now
    <3> DEFINE x == begun[t] - Burst
               y == Used(t, i) - Burst
    <3>1. x \in Int /\ y \in Int /\ x <= y /\ y * per <= now /\ now \in Int
      BY <2>2, <2>3
    <3> HIDE DEF x, y
    <3>2. x * per <= now
      BY <2>2, <3>1, ScaleUnder
    <3> QED BY <3>2 DEF x
  <2> QED BY <2>4, <2>5
<1> QED BY Bucketed, <1>1, PTL
=============================================================================
