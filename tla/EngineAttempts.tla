---------------------------- MODULE EngineAttempts ----------------------------
(***************************************************************************)
(* How often the engine attempts a page, for any tasks, pages and links:   *)
(* with any number of workers, once for each request that asks for it and  *)
(* once more; with one worker and no task that reloads, a page is fetched  *)
(* once.                                                                   *)
(***************************************************************************)
EXTENDS EngineProofs, FiniteSetTheorems

-----------------------------------------------------------------------------
\* Requests in a queue, counted by their positions.
Waiting(s, u) == {i \in DOMAIN s : s[i].url = u /\ Check(s[i])}
Asks(r, u) == Count(r # NoReq /\ r.url = u /\ Check(r))

\* A count is of a finite set, and a number.
LEMMA WaitingFinite ==
  ASSUME NEW s \in Seq(Request), NEW u
  PROVE  IsFiniteSet(Waiting(s, u)) /\ Cardinality(Waiting(s, u)) \in Nat
<1>1. IsFiniteSet(1 .. Len(s))
  BY FS_Interval
<1>2. Waiting(s, u) \in SUBSET (1 .. Len(s))
  BY DEF Waiting
<1> QED BY <1>1, <1>2, FS_Subset, FS_CardinalityType

\* A request that comes to a queue counts from then on.
LEMMA WaitingAppend ==
  ASSUME NEW s \in Seq(Request), NEW r \in Request, NEW u
  PROVE  Cardinality(Waiting(Append(s, r), u)) = Cardinality(Waiting(s, u)) + Asks(r, u)
<1>1. /\ Append(s, r) \in Seq(Request) /\ Len(s) \in Nat
      /\ DOMAIN Append(s, r) = (DOMAIN s) \cup {Len(s) + 1}
      /\ Len(s) + 1 \notin DOMAIN s
      /\ Append(s, r)[Len(s) + 1] = r
      /\ \A i \in DOMAIN s : Append(s, r)[i] = s[i]
  OBVIOUS
<1>2. CASE r.url = u /\ Check(r)
  <2>1. Waiting(Append(s, r), u) = Waiting(s, u) \cup {Len(s) + 1}
    BY <1>1, <1>2 DEF Waiting
  <2>2. Len(s) + 1 \notin Waiting(s, u)
    BY <1>1 DEF Waiting
  <2>3. Asks(r, u) = 1
    BY <1>2, OfferedTypes DEF Asks, Count
  <2> QED BY <2>1, <2>2, <2>3, WaitingFinite, FS_AddElement
<1>3. CASE ~(r.url = u /\ Check(r))
  <2>1. Waiting(Append(s, r), u) = Waiting(s, u)
    BY <1>1, <1>3 DEF Waiting
  <2>2. Asks(r, u) = 0
    BY <1>3 DEF Asks, Count
  <2> QED BY <2>1, <2>2, WaitingFinite
<1> QED BY <1>2, <1>3

\* The rest of a queue counts what the queue counts, but for its head.
LEMMA WaitingTail ==
  ASSUME NEW s \in Seq(Request), s # <<>>, NEW u
  PROVE  Cardinality(Waiting(s, u)) = Cardinality(Waiting(Tail(s), u)) + Asks(Head(s), u)
<1>1. /\ Tail(s) \in Seq(Request) /\ Head(s) \in Request /\ Head(s) = s[1]
      /\ Len(s) \in Nat /\ Len(s) >= 1
      /\ DOMAIN s = 1 .. Len(s) /\ DOMAIN Tail(s) = 1 .. Len(s) - 1
      /\ \A i \in 1 .. Len(s) - 1 : Tail(s)[i] = s[i + 1]
  OBVIOUS
<1> DEFINE W == Waiting(s, u) \ {1}
           f == [i \in Waiting(Tail(s), u) |-> i + 1]
<1>2. f \in Bijection(Waiting(Tail(s), u), W)
  <2>1. \A i \in Waiting(Tail(s), u) : i \in 1 .. Len(s) - 1 /\ i + 1 \in W
    BY <1>1 DEF Waiting
  <2>2. \A j \in W : j - 1 \in Waiting(Tail(s), u) /\ f[j - 1] = j
    BY <1>1 DEF Waiting
  <2>3. f \in [Waiting(Tail(s), u) -> W]
    BY <2>1
  <2>4. \A i, k \in Waiting(Tail(s), u) : f[i] = f[k] => i = k
    BY <2>1
  <2> QED BY <2>2, <2>3, <2>4 DEF Bijection, Injection, IsInjective, Surjection
<1>3. /\ IsFiniteSet(W)
      /\ Cardinality(W) = Cardinality(Waiting(Tail(s), u))
  <2> HIDE DEF f, W
  <2> QED BY <1>1, <1>2, WaitingFinite, FS_Bijection DEF ExistsBijection
<1>4. CASE s[1].url = u /\ Check(s[1])
  <2>1. Waiting(s, u) = W \cup {1} /\ 1 \notin W
    BY <1>1, <1>4 DEF Waiting
  <2>2. Asks(Head(s), u) = 1
    BY <1>1, <1>4, OfferedTypes DEF Asks, Count
  <2> HIDE DEF W
  <2> QED BY <1>3, <2>1, <2>2, FS_AddElement
<1>5. CASE ~(s[1].url = u /\ Check(s[1]))
  <2>1. Waiting(s, u) = W
    BY <1>5 DEF Waiting
  <2>2. Asks(Head(s), u) = 0
    BY <1>1, <1>5 DEF Asks, Count
  <2>3. Cardinality(W) \in Nat
    BY <1>3, FS_CardinalityType
  <2> HIDE DEF W
  <2> QED BY <1>3, <2>1, <2>2, <2>3
<1> QED BY <1>4, <1>5

-----------------------------------------------------------------------------
\* What the scheduler has in store for a page.
InStore(u) == Cardinality(Waiting(priReqQueue, u)) + Cardinality(Waiting(reqQueue, u))
                 + Asks(req, u)

\* The lanes are sequences of requests.
LEMMA Lanes == ASSUME SchedulerTypeOK PROVE priReqQueue \in Seq(Request) /\ reqQueue \in Seq(Request)
BY LaneTypes DEF SchedulerTypeOK

\* What is in store is a number.
LEMMA InStoreType == ASSUME SchedulerTypeOK, NEW u PROVE InStore(u) \in Nat /\ Asks(req, u) \in {0, 1}
<1>1. Asks(req, u) \in {0, 1}
  BY DEF Asks, Count
<1> QED BY <1>1, Lanes, WaitingFinite DEF InStore

\* A push adds its request to what is in store.
LEMMA InStoreReceive ==
  ASSUME SchedulerTypeOK, NEW r \in Request, Receive(r), NEW u
  PROVE  InStore(u)' = InStore(u) + Asks(r, u)
<1>1. /\ Cardinality(Waiting(priReqQueue, u)) \in Nat
      /\ Cardinality(Waiting(reqQueue, u)) \in Nat
      /\ Asks(req, u) \in Nat /\ Asks(r, u) \in Nat
  BY Lanes, WaitingFinite DEF Asks, Count
<1>2. CASE r.high
  <2>1. priReqQueue' = Append(priReqQueue, r) /\ UNCHANGED <<reqQueue, req>>
    BY <1>2 DEF Receive
  <2>2. Cardinality(Waiting(priReqQueue', u)) = Cardinality(Waiting(priReqQueue, u)) + Asks(r, u)
    BY <2>1, Lanes, WaitingAppend
  <2> QED BY <1>1, <2>1, <2>2 DEF InStore
<1>3. CASE ~r.high
  <2>1. reqQueue' = Append(reqQueue, r) /\ UNCHANGED <<priReqQueue, req>>
    BY <1>3 DEF Receive
  <2>2. Cardinality(Waiting(reqQueue', u)) = Cardinality(Waiting(reqQueue, u)) + Asks(r, u)
    BY <2>1, Lanes, WaitingAppend
  <2> QED BY <1>1, <2>1, <2>2 DEF InStore
<1> QED BY <1>2, <1>3

\* To take a request, or to drop one over the depth limit, changes nothing.
LEMMA InStoreTake ==
  ASSUME SchedulerTypeOK, Take, NEW u
  PROVE  InStore(u)' = InStore(u)
<1>1. ASSUME NEW s \in Seq(Request), s # <<>>
      PROVE  /\ Asks(Checked(Head(s)), u) = Asks(Head(s), u)
             /\ Asks(Head(s), u) \in Nat
             /\ Cardinality(Waiting(s, u)) = Cardinality(Waiting(Tail(s), u)) + Asks(Head(s), u)
             /\ Cardinality(Waiting(Tail(s), u)) \in Nat
  <2>1. Head(s) \in Request /\ Tail(s) \in Seq(Request)
    BY <1>1, HeadTailTypes
  <2>2. Asks(Checked(Head(s)), u) = Asks(Head(s), u)
    BY <2>1, OfferedTypes DEF Asks, Checked, Count
  <2> QED BY <1>1, <2>1, <2>2, WaitingTail, WaitingFinite DEF Asks, Count
<1>2. /\ Cardinality(Waiting(priReqQueue, u)) \in Nat
      /\ Cardinality(Waiting(reqQueue, u)) \in Nat
  BY Lanes, WaitingFinite
<1>3. Asks(req, u) = 0
  BY DEF Take, Asks, Count
<1>4. CASE TakeHigh
  <2>1. /\ priReqQueue # <<>> /\ req' = Checked(Head(priReqQueue))
        /\ priReqQueue' = Tail(priReqQueue) /\ reqQueue' = reqQueue
    BY <1>4 DEF TakeHigh
  <2> QED BY <1>1, <1>2, <1>3, <2>1, Lanes DEF InStore
<1>5. CASE TakeNormal
  <2>1. /\ reqQueue # <<>> /\ req' = Checked(Head(reqQueue))
        /\ reqQueue' = Tail(reqQueue) /\ priReqQueue' = priReqQueue
    BY <1>5 DEF TakeNormal
  <2> QED BY <1>1, <1>2, <1>3, <2>1, Lanes DEF InStore
<1> QED BY <1>4, <1>5 DEF Take

\* A request that goes to a worker is in store no more.
LEMMA InStoreDispatch ==
  ASSUME SchedulerTypeOK, Dispatch, NEW u
  PROVE  InStore(u) = InStore(u)' + Asks(req, u) /\ InStore(u)' \in Nat
<1>1. /\ Cardinality(Waiting(priReqQueue, u)) \in Nat
      /\ Cardinality(Waiting(reqQueue, u)) \in Nat
      /\ Asks(req, u) \in Nat
  BY Lanes, WaitingFinite DEF Asks, Count
<1>2. Asks(req', u) = 0
  BY DEF Dispatch, Asks, Count
<1> QED BY <1>1, <1>2 DEF Dispatch, InStore

\* What leaves the scheduler alone leaves its store alone.
LEMMA InStoreSame == ASSUME UNCHANGED schedVars, NEW u PROVE InStore(u)' = InStore(u)
BY DEF schedVars, InStore

-----------------------------------------------------------------------------
\* The workers whose request for a page has not come to an attempt yet, or has
\* come to its last one.
Attempting == {"check", "store", "fetch", "repush", "dead"}
Busy(u) == {w \in Worker : At(w, Attempting, u)}

\* Workers are counted one by one.
LEMMA BusyFinite == ASSUME NEW u PROVE IsFiniteSet(Busy(u)) /\ Cardinality(Busy(u)) \in Nat
<1>1. Busy(u) \in SUBSET Worker
  BY DEF Busy
<1> QED BY <1>1, EngineAssumption, FS_Subset, FS_CardinalityType

\* The worker that moves is the one that comes or goes.
LEMMA BusyMoves ==
  ASSUME NEW w \in Worker, OnlyMoves(w), NEW u
  PROVE  /\ Cardinality(Busy(u)) + Count(At(w, Attempting, u)')
              = Cardinality(Busy(u)') + Count(At(w, Attempting, u))
         /\ Cardinality(Busy(u)') \in Nat
<1> DEFINE Others == Busy(u) \ {w}
<1>1. /\ IsFiniteSet(Others)
      /\ Cardinality(Others) \in Nat
  BY BusyFinite, FS_RemoveElement, FS_CardinalityType
<1>2. w \notin Others /\ Others \cap {w} = {}
  OBVIOUS
<1>3. Busy(u) = IF At(w, Attempting, u) THEN Others \cup {w} ELSE Others
  BY DEF Busy
<1>4. Busy(u)' = IF At(w, Attempting, u)' THEN Others \cup {w} ELSE Others
  BY DEF Busy, At, OnlyMoves
<1> HIDE DEF Others
<1>5. Cardinality(Others \cup {w}) = Cardinality(Others) + 1
  BY <1>1, <1>2, FS_AddElement
<1>6. Cardinality(Busy(u)) = Cardinality(Others) + Count(At(w, Attempting, u))
  BY <1>1, <1>3, <1>5 DEF Count
<1>7. Cardinality(Busy(u)') = Cardinality(Others) + Count(At(w, Attempting, u)')
  BY <1>1, <1>4, <1>5 DEF Count
<1>8. Count(At(w, Attempting, u)) \in Nat /\ Count(At(w, Attempting, u)') \in Nat
  BY DEF Count
<1> QED BY <1>1, <1>6, <1>7, <1>8

-----------------------------------------------------------------------------
\* The inductive invariant: the attempts there were, with those there can be
\* without another push, are paid for by pushes and the one retry.
Tally == \A u \in URL : fetched[u] + failed[u] + Cardinality(Busy(u)) + InStore(u)
                           <= found[u] + Count(u \in failures)

\* What Tally adds up.
LEMMA TallyTypes ==
  ASSUME TypeOK, NEW u \in URL
  PROVE  /\ fetched[u] \in Nat /\ failed[u] \in Nat /\ found[u] \in Nat
         /\ Cardinality(Busy(u)) \in Nat /\ InStore(u) \in Nat
         /\ Count(u \in failures) \in {0, 1}
BY BusyFinite, InStoreType DEF TypeOK, HistoryTypeOK, Count

\* A step of one worker, by the difference it makes.
LEMMA TallyMove ==
  ASSUME TypeOK, TypeOK', Tally, NEW w \in Worker, OnlyMoves(w), found' = found,
         \A u \in URL :
            fetched'[u] + failed'[u] + Count(At(w, Attempting, u)') + InStore(u)'
               + Count(u \in failures)
              <= fetched[u] + failed[u] + Count(At(w, Attempting, u)) + InStore(u)
                    + Count(u \in failures')
  PROVE  Tally'
<1> SUFFICES ASSUME NEW u \in URL
             PROVE  fetched'[u] + failed'[u] + Cardinality(Busy(u)') + InStore(u)'
                       <= found'[u] + Count(u \in failures')
  BY DEF Tally
<1>1. /\ fetched[u] \in Nat /\ failed[u] \in Nat /\ found[u] \in Nat
      /\ Cardinality(Busy(u)) \in Nat /\ InStore(u) \in Nat
      /\ Count(u \in failures) \in Nat
      /\ fetched'[u] \in Nat /\ failed'[u] \in Nat
      /\ InStore(u)' \in Nat /\ Count(u \in failures') \in Nat
  <2>1. InStore(u)' \in Nat
    <3>1. SchedulerTypeOK'
      BY DEF TypeOK
    <3>2. priReqQueue' \in Seq(Request) /\ reqQueue' \in Seq(Request)
      BY <3>1, LaneTypes DEF SchedulerTypeOK
    <3>3. /\ Cardinality(Waiting(priReqQueue', u)) \in Nat
          /\ Cardinality(Waiting(reqQueue', u)) \in Nat
      BY <3>2, WaitingFinite
    <3> QED BY <3>3 DEF InStore, Asks, Count
  <2>2. fetched'[u] \in Nat /\ failed'[u] \in Nat
    BY DEF TypeOK, HistoryTypeOK
  <2> QED BY <2>1, <2>2, TallyTypes DEF Count
<1>2. /\ Cardinality(Busy(u)) + Count(At(w, Attempting, u)')
           = Cardinality(Busy(u)') + Count(At(w, Attempting, u))
      /\ Cardinality(Busy(u)') \in Nat
  BY BusyMoves
<1>3. Count(At(w, Attempting, u)) \in Nat /\ Count(At(w, Attempting, u)') \in Nat
  BY DEF Count
<1>4. /\ fetched[u] + failed[u] + Cardinality(Busy(u)) + InStore(u)
           <= found[u] + Count(u \in failures)
      /\ fetched'[u] + failed'[u] + Count(At(w, Attempting, u)') + InStore(u)'
            + Count(u \in failures)
           <= fetched[u] + failed[u] + Count(At(w, Attempting, u)) + InStore(u)
                 + Count(u \in failures')
  BY DEF Tally
<1> QED BY <1>1, <1>2, <1>3, <1>4

\* A step that leaves the workers alone, by the difference it makes.
LEMMA TallyFrame ==
  ASSUME TypeOK, Tally, UNCHANGED <<workerVars, failures, fetched, failed>>,
         \A u \in URL : InStore(u)' <= InStore(u) + (found'[u] - found[u])
                        /\ InStore(u)' \in Nat /\ found'[u] \in Nat
  PROVE  Tally'
<1> SUFFICES ASSUME NEW u \in URL
             PROVE  fetched'[u] + failed'[u] + Cardinality(Busy(u)') + InStore(u)'
                       <= found'[u] + Count(u \in failures')
  BY DEF Tally
<1>1. Busy(u)' = Busy(u)
  BY DEF Busy, At, workerVars
<1>2. fetched[u] + failed[u] + Cardinality(Busy(u)) + InStore(u)
         <= found[u] + Count(u \in failures)
  BY DEF Tally
<1> QED BY <1>1, <1>2, TallyTypes

\* Each step of a worker pays for what it does.
LEMMA WorkerTally ==
  ASSUME TypeOK, TypeOK', Tally, NEW w \in Worker, CreateWork(w)
  PROVE  Tally'
<1> SUFFICES ASSUME NEW x, x = cur[w].url
             PROVE  Tally'
  OBVIOUS
<1>a. \A u \in URL : /\ fetched[u] \in Nat /\ failed[u] \in Nat
                     /\ InStore(u) \in Nat /\ Count(u \in failures) \in {0, 1}
  BY TallyTypes
<1>b. pc[w] # "pull" => x \in URL /\ cur[w] \in Request /\ Check(cur[w])
  BY HeldRequest DEF TypeOK
<1>c. \A u : /\ Count(At(w, Attempting, u)) \in {0, 1}
             /\ Count(At(w, Attempting, u)') \in {0, 1}
             /\ u # x => Count(At(w, Attempting, u)) = 0
             /\ pc'[w] \notin Attempting => Count(At(w, Attempting, u)') = 0
             /\ cur'[w].url # u => Count(At(w, Attempting, u)') = 0
             /\ pc[w] \in Attempting => Count(At(w, Attempting, x)) = 1
  BY DEF Count, At
<1>d. \A u : UNCHANGED schedVars => InStore(u)' = InStore(u)
  BY InStoreSame
<1>1. CASE PullRequest(w)
  <2>1. /\ pc[w] = "pull" /\ cur'[w] = req /\ OnlyMoves(w) /\ req \in Offered
        /\ UNCHANGED <<failures, found, fetched, failed>>
    BY <1>1, DispatchTypes
    DEF PullRequest, Goto, TypeOK, WorkerTypeOK, OnlyMoves, crawlerVars, history
  <2>2. \A u \in URL : InStore(u) = InStore(u)' + Asks(req, u) /\ InStore(u)' \in Nat
    BY <1>1, InStoreDispatch DEF PullRequest, TypeOK
  <2>3. \A u \in URL : Count(At(w, Attempting, u)) = 0
    BY <2>1 DEF Count, At, Attempting
  <2>4. \A u \in URL : Asks(req, u) = Count(req.url = u)
    BY <2>1, OfferedTypes DEF Asks
  <2>5. \A u \in URL : Count(At(w, Attempting, u)') <= Asks(req, u) /\ Asks(req, u) \in {0, 1}
    BY <2>1, <2>4 DEF Count, At
  <2> QED BY <1>a, <1>c, <2>1, <2>2, <2>3, <2>5, TallyMove
<1>2. CASE CheckVisited(w) \/ StoreVisited(w) \/ FetchPanics(w)
  <2>1. /\ OnlyMoves(w) /\ pc[w] \in {"check", "store", "fetch"}
        /\ UNCHANGED <<failures, found, fetched, failed, schedVars>>
        /\ Continue(w) \/ cur' = cur
    BY <1>2, MovesFrame
    DEF CheckVisited, StoreVisited, FetchPanics, TypeOK, crawlerVars, history
  <2>2. Continue(w) => pc'[w] = "pull"
    BY DEF Continue, Goto, TypeOK, WorkerTypeOK
  <2>3. \A u \in URL : Count(At(w, Attempting, u)') <= Count(At(w, Attempting, u))
    BY <1>c, <2>1, <2>2 DEF Attempting
  <2> QED BY <1>a, <1>c, <1>d, <2>1, <2>3, TallyMove
<1>3. CASE FetchFails(w) \/ FetchSucceeds(w)
  <2>1. /\ OnlyMoves(w) /\ pc[w] = "fetch" /\ pc'[w] \notin Attempting
        /\ UNCHANGED <<failures, found, schedVars>>
    BY <1>3, MovesFrame
    DEF FetchFails, FetchSucceeds, Continue, Goto, TypeOK, WorkerTypeOK, crawlerVars, Attempting
  <2>2. \A u \in URL : fetched'[u] + failed'[u] = fetched[u] + failed[u] + Count(u = x)
    <3>1. CASE FetchFails(w)
      <4>1. fetched' = fetched /\ failed' = [failed EXCEPT ![x] = @ + 1]
        BY <3>1 DEF FetchFails
      <4>2. \A u \in URL : failed'[u] = IF u = x THEN failed[u] + 1 ELSE failed[u]
        BY <4>1 DEF TypeOK, HistoryTypeOK
      <4> QED BY <1>a, <4>1, <4>2 DEF Count
    <3>2. CASE FetchSucceeds(w)
      <4>1. failed' = failed /\ fetched' = [fetched EXCEPT ![x] = @ + 1]
        BY <3>2 DEF FetchSucceeds
      <4>2. \A u \in URL : fetched'[u] = IF u = x THEN fetched[u] + 1 ELSE fetched[u]
        BY <4>1 DEF TypeOK, HistoryTypeOK
      <4> QED BY <1>a, <4>1, <4>2 DEF Count
    <3> QED BY <1>3, <3>1, <3>2
  <2>3. \A u \in URL : /\ Count(At(w, Attempting, u)) = Count(u = x)
                       /\ Count(At(w, Attempting, u)') = 0
                       /\ Count(u = x) \in {0, 1}
    BY <1>c, <2>1 DEF Attempting, Count
  <2>4. \A u \in URL : fetched'[u] \in Nat /\ failed'[u] \in Nat
    BY DEF TypeOK, HistoryTypeOK
  <2> QED BY <1>a, <1>d, <2>1, <2>2, <2>3, <2>4, TallyMove
<1>4. CASE Unvisit(w) \/ SendResult(w)
  <2>1. /\ OnlyMoves(w) /\ pc'[w] \notin Attempting
        /\ UNCHANGED <<failures, found, fetched, failed, schedVars>>
    BY <1>4, MovesFrame
    DEF Unvisit, SendResult, Continue, Goto, TypeOK, WorkerTypeOK, crawlerVars, history,
        Attempting
  <2> QED BY <1>a, <1>c, <1>d, <2>1, TallyMove
<1>5. CASE LockFailures(w)
  <2>1. /\ OnlyMoves(w) /\ pc[w] = "lock" /\ UNCHANGED <<found, fetched, failed, schedVars>>
    BY <1>5, MovesFrame DEF LockFailures, TypeOK, history
  <2>2. CASE x \in failures
    <3>1. pc'[w] \notin Attempting /\ failures' = failures
      BY <1>5, <2>2 DEF LockFailures, Unique, Continue, Goto, TypeOK, WorkerTypeOK, Attempting
    <3> QED BY <1>a, <1>c, <1>d, <2>1, <3>1, TallyMove
  <2>3. CASE x \notin failures
    <3>1. cur' = cur /\ failures' = failures \cup {x}
      BY <1>5, <2>3 DEF LockFailures, Unique
    <3>2. \A u \in URL : /\ Count(u \in failures') = Count(u \in failures) + Count(u = x)
                         /\ Count(At(w, Attempting, u)) = 0
                         /\ Count(At(w, Attempting, u)') <= Count(u = x)
                         /\ Count(u = x) \in {0, 1}
      BY <2>1, <2>3, <3>1 DEF Count, At, Attempting
    <3> QED BY <1>a, <1>c, <1>d, <2>1, <3>2, TallyMove
  <2> QED BY <2>2, <2>3
<1>6. CASE Repush(w)
  <2>1. /\ OnlyMoves(w) /\ pc[w] = "repush" /\ pc'[w] \notin Attempting
        /\ UNCHANGED <<failures, found, fetched, failed>>
    BY <1>6, MovesFrame
    DEF Repush, Continue, Goto, TypeOK, WorkerTypeOK, crawlerVars, history, Attempting
  <2>2. \A u \in URL : InStore(u)' = InStore(u) + Asks(cur[w], u)
    BY <1>6, <1>b, <2>1, InStoreReceive DEF Repush, TypeOK
  <2>3. \A u \in URL : /\ Asks(cur[w], u) = Count(At(w, Attempting, u))
                       /\ Count(At(w, Attempting, u)') = 0
    BY <1>b, <1>c, <2>1, OfferedTypes DEF Asks, Count, At, Attempting
  <2> QED BY <1>a, <1>c, <2>1, <2>2, <2>3, TallyMove
<1> QED BY <1>1, <1>2, <1>3, <1>4, <1>5, <1>6 DEF CreateWork, Fetch, SetFailure

\* Every step keeps the tally.
LEMMA TallyStep == TypeOK /\ Tally /\ [Next]_vars => Tally'
<1> SUFFICES ASSUME TypeOK, Tally, [Next]_vars PROVE Tally'
  OBVIOUS
<1>1. TypeOK'
  BY TypeStep
<1>2. ASSUME NEW w \in Worker, CreateWork(w) PROVE Tally'
  BY <1>1, <1>2, WorkerTally
<1>3. CASE UNCHANGED <<schedVars, workerVars, failures, fetched, failed, found>>
  BY <1>3, InStoreSame, TallyFrame, TallyTypes
<1>4. CASE SchedulerStep
  <2>1. UNCHANGED <<workerVars, failures, fetched, failed, found>>
    BY <1>4 DEF SchedulerStep, crawlerVars, history
  <2>2. \A u \in URL : InStore(u)' = InStore(u)
    BY <1>4, InStoreTake DEF SchedulerStep, TypeOK
  <2> QED BY <2>1, <2>2, TallyFrame, TallyTypes
<1>5. ASSUME NEW p \in Pusher, PushRequest(p) PROVE Tally'
  <2> SUFFICES ASSUME NEW r, r = Head(pushers[p]) PROVE Tally'
    OBVIOUS
  <2>1. r \in Request
    BY <1>5, HeadTailTypes DEF PushRequest, TypeOK
  <2>2. \A u \in URL : InStore(u)' = InStore(u) + Asks(r, u)
    BY <1>5, <2>1, InStoreReceive DEF PushRequest, TypeOK
  <2>3. \A u \in URL : found'[u] = found[u] + Asks(r, u)
    BY <1>5, <2>1, OfferedTypes, TallyTypes DEF PushRequest, Asks, Count, TypeOK, HistoryTypeOK
  <2>4. \A u \in URL : Asks(r, u) \in Nat
    BY DEF Asks, Count
  <2>5. UNCHANGED <<workerVars, failures, fetched, failed>>
    BY <1>5 DEF PushRequest, crawlerVars
  <2> QED BY <2>2, <2>3, <2>4, <2>5, TallyFrame, TallyTypes
<1>6. [Next]_vars => \/ UNCHANGED <<schedVars, workerVars, failures, fetched, failed, found>>
                     \/ SchedulerStep
                     \/ \E p \in Pusher : PushRequest(p)
                     \/ \E w \in Worker : CreateWork(w)
  BY DEF Next, vars, SeedTask, StartScheduler, HandleResult, schedVars, workerVars, crawlerVars,
         history
<1> QED BY <1>2, <1>3, <1>4, <1>5, <1>6

\* At first nothing was attempted, and nothing is in store.
LEMMA TallyInit == Init => Tally
<1> SUFFICES ASSUME Init, NEW u \in URL
             PROVE  fetched[u] + failed[u] + Cardinality(Busy(u)) + InStore(u)
                       <= found[u] + Count(u \in failures)
  BY DEF Tally
<1>1. Waiting(<<>>, u) = {} /\ Busy(u) = {} /\ Asks(req, u) = 0
  BY DEF Init, SchedulerInit, Waiting, Busy, At, Attempting, Asks, Count
<1>2. InStore(u) = 0 /\ Cardinality(Busy(u)) = 0
  <2>1. priReqQueue = <<>> /\ reqQueue = <<>>
    BY DEF Init, SchedulerInit
  <2>2. Cardinality(Waiting(priReqQueue, u)) = 0 /\ Cardinality(Waiting(reqQueue, u)) = 0
    BY <1>1, <2>1, FS_EmptySet
  <2> QED BY <1>1, <2>2, FS_EmptySet DEF InStore
<1> QED BY <1>2 DEF Init, Zero, Count

\* However attempts race, fail and are retried, a page is attempted no more
\* often than it was asked for, and once.
THEOREM AttemptsPaid == Spec => []AttemptBound
<1>1. TypeOK /\ Tally => AttemptBound
  <2> SUFFICES ASSUME TypeOK, Tally, NEW u \in URL
               PROVE  fetched[u] + failed[u] + Cardinality({w \in Worker : At(w, {"dead"}, u)})
                         <= found[u] + Count(u \in failures)
    BY DEF AttemptBound
  <2> DEFINE Dead == {w \in Worker : At(w, {"dead"}, u)}
  <2>1. Dead \in SUBSET Busy(u)
    BY DEF Busy, At, Attempting
  <2> HIDE DEF Dead
  <2>2. Cardinality(Dead) <= Cardinality(Busy(u)) /\ Cardinality(Dead) \in Nat
    BY <2>1, BusyFinite, FS_Subset, FS_CardinalityType
  <2>3. fetched[u] + failed[u] + Cardinality(Busy(u)) + InStore(u)
           <= found[u] + Count(u \in failures)
    BY DEF Tally
  <2>4. fetched[u] + failed[u] + Cardinality(Dead) <= found[u] + Count(u \in failures)
    BY <2>2, <2>3, TallyTypes
  <2> QED BY <2>4 DEF Dead
<1> QED BY <1>1, TallyInit, TallyStep, TypeCorrect, PTL DEF Spec

-----------------------------------------------------------------------------
\* With one worker, no page is fetched twice: between its look at Visited and
\* its fetch nobody else fetches, and the mark stays once the fetch is good.
Once(w) == /\ \A u \in URL :
                 /\ fetched[u] <= 1
                 /\ fetched[u] = 1 => u \in visited /\ ~At(w, {"store", "fetch", "unvisit"}, u)
           /\ pc[w] = "fetch" => cur[w].url \in visited

\* The only worker keeps to it.
LEMMA OnceStep ==
  ASSUME NEW w, Worker = {w}, Reload = {}, TypeOK, Once(w), [Next]_vars
  PROVE  Once(w)'
<1> SUFFICES ASSUME NEW x, x = cur[w].url
             PROVE  Once(w)'
  OBVIOUS
<1>a. w \in Worker
  OBVIOUS
<1>b. pc[w] # "pull" => x \in URL /\ Check(cur[w])
  BY <1>a, HeldRequest DEF TypeOK
<1>c. \A u \in URL : fetched[u] \in Nat
  BY DEF TypeOK, HistoryTypeOK
<1>1. CASE UNCHANGED <<pc, cur, visited, fetched>>
  BY <1>1 DEF Once, At
<1>2. CASE PullRequest(w) \/ LockFailures(w) \/ Repush(w) \/ SendResult(w) \/ FetchPanics(w)
  <2>1. pc'[w] \notin {"store", "fetch", "unvisit"} /\ UNCHANGED <<visited, fetched>>
    BY <1>2 DEF PullRequest, LockFailures, Repush, SendResult, FetchPanics, Continue, Goto,
                TypeOK, WorkerTypeOK, crawlerVars, history
  <2> QED BY <2>1 DEF Once, At
<1>3. CASE CheckVisited(w)
  <2>1. UNCHANGED <<visited, fetched>>
    BY <1>3 DEF CheckVisited, crawlerVars, history
  <2>2. CASE Continue(w)
    <3>1. pc'[w] = "pull"
      BY <2>2 DEF Continue, Goto, TypeOK, WorkerTypeOK
    <3> QED BY <2>1, <3>1 DEF Once, At
  <2>3. CASE ~Continue(w)
    <3>1. x \notin visited /\ pc'[w] = "store" /\ cur' = cur
      BY <1>3, <1>b, <2>3 DEF CheckVisited, HasVisited, Unique, Goto, TypeOK, WorkerTypeOK
    <3> QED BY <2>1, <3>1 DEF Once, At
  <2> QED BY <2>2, <2>3
<1>4. CASE StoreVisited(w)
  <2>1. /\ pc[w] = "store" /\ pc'[w] = "fetch" /\ UNCHANGED <<cur, fetched>>
        /\ visited' = visited \cup {x}
    BY <1>4 DEF StoreVisited, Goto, Unique, TypeOK, WorkerTypeOK, history
  <2> QED BY <2>1 DEF Once, At
<1>5. CASE FetchFails(w)
  <2>1. pc[w] = "fetch" /\ pc'[w] = "unvisit" /\ UNCHANGED <<cur, visited, fetched>>
    BY <1>5 DEF FetchFails, Goto, TypeOK, WorkerTypeOK, crawlerVars
  <2> QED BY <2>1 DEF Once, At
<1>6. CASE FetchSucceeds(w)
  <2>1. /\ pc[w] = "fetch" /\ pc'[w] \in {"pull", "out"} /\ visited' = visited
        /\ fetched' = [fetched EXCEPT ![x] = @ + 1]
    BY <1>6 DEF FetchSucceeds, Continue, Goto, TypeOK, WorkerTypeOK, crawlerVars
  <2>2. x \in visited /\ x \in URL /\ fetched[x] = 0
    BY <1>b, <1>c, <2>1 DEF Once, At
  <2>3. \A u \in URL : fetched'[u] = IF u = x THEN 1 ELSE fetched[u]
    BY <2>1, <2>2 DEF TypeOK, HistoryTypeOK
  <2> QED BY <2>1, <2>2, <2>3 DEF Once, At
<1>7. CASE Unvisit(w)
  <2>1. /\ pc[w] = "unvisit" /\ pc'[w] = "lock" /\ UNCHANGED <<cur, fetched>>
        /\ visited' = visited \ {x}
    BY <1>7 DEF Unvisit, Goto, Unique, TypeOK, WorkerTypeOK, history
  <2>2. fetched[x] # 1
    BY <1>b, <2>1 DEF Once, At
  <2> QED BY <2>1, <2>2 DEF Once, At
<1>8. [Next]_vars => UNCHANGED <<pc, cur, visited, fetched>> \/ CreateWork(w)
  BY DEF Next, vars, SeedTask, StartScheduler, SchedulerStep, HandleResult, PushRequest,
         workerVars, crawlerVars, history
<1> QED BY <1>1, <1>2, <1>3, <1>4, <1>5, <1>6, <1>7, <1>8 DEF CreateWork, Fetch, SetFailure

\* What Visited is for holds with one worker.
THEOREM OneWorkerFetchesOnce == (\E w : Worker = {w}) => (Spec => []FetchedOnce)
<1> SUFFICES ASSUME NEW w, Worker = {w}
             PROVE  Spec => []FetchedOnce
  OBVIOUS
<1>1. CASE Reload = {}
  <2>1. Init => Once(w)
    BY DEF Init, Once, Zero, At
  <2>2. TypeOK /\ Once(w) /\ [Next]_vars => Once(w)'
    BY <1>1, OnceStep
  <2>3. Once(w) => FetchedOnce
    BY DEF Once, FetchedOnce
  <2> QED BY <2>1, <2>2, <2>3, TypeCorrect, PTL DEF Spec
<1>2. CASE Reload # {}
  <2>1. FetchedOnce
    BY <1>2 DEF FetchedOnce
  <2> QED BY <2>1, PTL
<1> QED BY <1>1, <1>2
=============================================================================
