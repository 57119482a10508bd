---------------------------- MODULE EngineProofs ----------------------------
(***************************************************************************)
(* For any tasks, pages, links and number of workers: the engine keeps its *)
(* types and loses no page.                                                *)
(***************************************************************************)
EXTENDS Engine, TLAPS

LEMMA EmptySeq == ASSUME NEW S PROVE <<>> \in Seq(S)
  OBVIOUS

LEMMA HeadTailTypes ==
    ASSUME NEW S, NEW s \in Seq(S), s # <<>>
    PROVE  Head(s) \in S /\ Tail(s) \in Seq(S)
  OBVIOUS

LEMMA AppendType ==
    ASSUME NEW S, NEW s \in Seq(S), NEW e \in S
    PROVE  Append(s, e) \in Seq(S)
  OBVIOUS

LEMMA ConcatType ==
    ASSUME NEW S, NEW s \in Seq(S), NEW q \in Seq(S)
    PROVE  s \o q \in Seq(S)
  OBVIOUS

LEMMA LaneTypes == /\ HighRequest \subseteq Request
                   /\ NormalRequest \subseteq Request
                   /\ \A r \in Request : r.high => r \in HighRequest
                   /\ \A r \in Request : ~r.high => r \in NormalRequest
  BY DEF HighRequest, NormalRequest

LEMMA OfferedTypes ==
    /\ Offered \subseteq Request
    /\ NoReq \notin Offered
    /\ NoReq \notin Request
    /\ \A r \in Offered : Check(r)
    /\ \A r \in Request : r.url \in URL /\ r.task \in Task /\ r.depth \in Nat
    /\ \A r \in Request : Checked(r) \in Offered \cup {NoReq}
    /\ \A r \in Request : Checked(r) # NoReq => Check(r) /\ Checked(r) = r
    /\ \A r \in Request : Checked(r) = NoReq => ~Check(r)
  BY NoReqAssumption DEF Offered, Checked, Check, Request

LEMMA RequestsType ==
    ASSUME NEW t \in Task, NEW links \in Seq(Link), NEW d \in Nat
    PROVE  Requests(t, links, d) \in Seq(Request)
<1>1. ASSUME NEW i \in 1 .. Len(links)
      PROVE  Request0(t, links[i], d) \in Request
  <2>1. links[i] \in Link
    BY <1>1
  <2>2. links[i].url \in URL /\ links[i].high \in BOOLEAN
    BY <2>1 DEF Link
  <2>3. QED
    BY <2>2 DEF Request0, Request
<1>2. QED
  BY <1>1 DEF Requests

-----------------------------------------------------------------------------
\* The scheduler's steps keep its types, with any callers.
LEMMA ReceiveTypes ==
    ASSUME SchedulerTypeOK, NEW r \in Request, Receive(r)
    PROVE  SchedulerTypeOK'
<1>1. CASE r.high
  <2>1. /\ priReqQueue' = Append(priReqQueue, r) /\ reqQueue' = reqQueue
        /\ req' = req /\ r \in HighRequest
    BY <1>1, LaneTypes DEF Receive
  <2>2. priReqQueue' \in Seq(HighRequest)
    BY <2>1, AppendType DEF SchedulerTypeOK
  <2>3. QED
    BY <2>1, <2>2 DEF SchedulerTypeOK
<1>2. CASE ~r.high
  <2>1. /\ reqQueue' = Append(reqQueue, r) /\ priReqQueue' = priReqQueue
        /\ req' = req /\ r \in NormalRequest
    BY <1>2, LaneTypes DEF Receive
  <2>2. reqQueue' \in Seq(NormalRequest)
    BY <2>1, AppendType DEF SchedulerTypeOK
  <2>3. QED
    BY <2>1, <2>2 DEF SchedulerTypeOK
<1>3. QED
  BY <1>1, <1>2

LEMMA TakeTypes ==
    ASSUME SchedulerTypeOK, Take
    PROVE  SchedulerTypeOK'
<1>1. CASE TakeHigh
  BY <1>1, HeadTailTypes, LaneTypes, OfferedTypes
  DEF SchedulerTypeOK, TakeHigh
<1>2. CASE TakeNormal
  BY <1>2, HeadTailTypes, LaneTypes, OfferedTypes
  DEF SchedulerTypeOK, TakeNormal
<1>3. QED
  BY <1>1, <1>2 DEF Take

LEMMA DispatchTypes ==
    ASSUME SchedulerTypeOK, Dispatch
    PROVE  SchedulerTypeOK' /\ req \in Offered
  BY DEF SchedulerTypeOK, Dispatch

LEMMA SameScheduler ==
    ASSUME UNCHANGED schedVars
    PROVE  /\ SchedulerTypeOK => SchedulerTypeOK'
           /\ Queued' = Queued
  BY DEF SchedulerTypeOK, schedVars, Queued

LEMMA ToSetAppend ==
    ASSUME NEW S, NEW s \in Seq(S), NEW e \in S
    PROVE  ToSet(s) \cup {e} \subseteq ToSet(Append(s, e))
<1>1. DOMAIN Append(s, e) = 1 .. Len(s) + 1
  OBVIOUS
<1>2. ASSUME NEW i \in DOMAIN s PROVE s[i] \in ToSet(Append(s, e))
  <2>1. i \in DOMAIN Append(s, e) /\ Append(s, e)[i] = s[i]
    OBVIOUS
  <2>2. QED
    BY <2>1 DEF ToSet
<1>3. e \in ToSet(Append(s, e))
  <2>1. Len(s) + 1 \in DOMAIN Append(s, e) /\ Append(s, e)[Len(s) + 1] = e
    OBVIOUS
  <2>2. QED
    BY <2>1 DEF ToSet
<1>4. QED
  BY <1>2, <1>3 DEF ToSet

LEMMA ToSetTail ==
    ASSUME NEW S, NEW s \in Seq(S), s # <<>>
    PROVE  ToSet(s) \subseteq ToSet(Tail(s)) \cup {Head(s)}
<1>1. ASSUME NEW i \in DOMAIN s, i # 1 PROVE s[i] \in ToSet(Tail(s))
  <2>1. i - 1 \in DOMAIN Tail(s) /\ Tail(s)[i - 1] = s[i]
    BY <1>1
  <2>2. QED
    BY <2>1 DEF ToSet
<1>2. Head(s) = s[1]
  OBVIOUS
<1>3. QED
  BY <1>1, <1>2 DEF ToSet

\* A push leaves each queued request where it is.
LEMMA ReceiveQueued ==
    ASSUME SchedulerTypeOK, NEW r \in Request, Receive(r)
    PROVE  /\ Queued \subseteq Queued'
           /\ Check(r) => r \in Queued'
<1>1. r # NoReq
  BY OfferedTypes
<1>2. CASE r.high
  <2>1. /\ priReqQueue' = Append(priReqQueue, r) /\ reqQueue' = reqQueue
        /\ req' = req /\ r \in HighRequest
    BY <1>2, LaneTypes DEF Receive
  <2>2. ToSet(priReqQueue) \cup {r} \subseteq ToSet(priReqQueue')
    BY <2>1, ToSetAppend DEF SchedulerTypeOK
  <2>3. QED
    BY <1>1, <2>1, <2>2 DEF Queued
<1>3. CASE ~r.high
  <2>1. /\ reqQueue' = Append(reqQueue, r) /\ priReqQueue' = priReqQueue
        /\ req' = req /\ r \in NormalRequest
    BY <1>3, LaneTypes DEF Receive
  <2>2. ToSet(reqQueue) \cup {r} \subseteq ToSet(reqQueue')
    BY <2>1, ToSetAppend DEF SchedulerTypeOK
  <2>3. QED
    BY <1>1, <2>1, <2>2 DEF Queued
<1>4. QED
  BY <1>2, <1>3

\* The scheduler drops a request only because it fails its check.
LEMMA TakeQueued ==
    ASSUME SchedulerTypeOK, Take
    PROVE  Queued \subseteq Queued'
<1>1. CASE TakeHigh
  <2>1. /\ ToSet(priReqQueue) \subseteq ToSet(priReqQueue') \cup {Head(priReqQueue)}
        /\ Head(priReqQueue) \in Request
        /\ reqQueue' = reqQueue /\ req = NoReq
        /\ req' = Checked(Head(priReqQueue))
    BY <1>1, ToSetTail, HeadTailTypes, LaneTypes
    DEF SchedulerTypeOK, Take, TakeHigh
  <2>2. QED
    BY <2>1, OfferedTypes DEF Queued
<1>2. CASE TakeNormal
  <2>1. /\ ToSet(reqQueue) \subseteq ToSet(reqQueue') \cup {Head(reqQueue)}
        /\ Head(reqQueue) \in Request
        /\ priReqQueue' = priReqQueue /\ req = NoReq
        /\ req' = Checked(Head(reqQueue))
    BY <1>2, ToSetTail, HeadTailTypes, LaneTypes
    DEF SchedulerTypeOK, Take, TakeNormal
  <2>2. QED
    BY <2>1, OfferedTypes DEF Queued
<1>3. QED
  BY <1>1, <1>2 DEF Take

LEMMA DispatchQueued ==
    ASSUME Dispatch
    PROVE  Queued \subseteq Queued' \cup {req}
  BY DEF Dispatch, Queued

\* The queue holds requests.
LEMMA QueuedType ==
    ASSUME SchedulerTypeOK
    PROVE  Queued \subseteq Request
<1>1. /\ ToSet(priReqQueue) \subseteq HighRequest
      /\ ToSet(reqQueue) \subseteq NormalRequest
  BY DEF SchedulerTypeOK, ToSet
<1>2. QED
  BY <1>1, LaneTypes, OfferedTypes DEF Queued, SchedulerTypeOK

-----------------------------------------------------------------------------
LEMMA GoPushType ==
    ASSUME pushers \in [Pusher -> Seq(Request)],
           NEW rs \in Seq(Request), GoPush(rs)
    PROVE  pushers' \in [Pusher -> Seq(Request)]
  BY DEF GoPush

LEMMA Increment ==
    ASSUME NEW f \in [URL -> Nat], NEW u \in URL
    PROVE  [f EXCEPT ![u] = @ + 1] \in [URL -> Nat]
  OBVIOUS

\* What a worker that is not at "pull" holds.
LEMMA HeldRequest ==
    ASSUME WorkerTypeOK, NEW w \in Worker, pc[w] # "pull"
    PROVE  /\ cur[w] \in Offered /\ cur[w] \in Request /\ Check(cur[w])
           /\ cur[w].url \in URL /\ cur[w].task \in Task
           /\ cur[w].depth \in Nat /\ Unique(cur[w]) \in URL
  BY OfferedTypes DEF WorkerTypeOK, Unique

LEMMA ContinueTypes ==
    ASSUME WorkerTypeOK, NEW w \in Worker, Continue(w)
    PROVE  WorkerTypeOK'
  BY DEF WorkerTypeOK, Continue, Goto, Locations

LEMMA GotoTypes ==
    ASSUME WorkerTypeOK, NEW w \in Worker,
           NEW l \in Locations, Goto(w, l), pc[w] # "pull", UNCHANGED cur,
           l = "repush" => \A v \in Worker : pc[v] # "repush"
    PROVE  WorkerTypeOK'
  BY DEF WorkerTypeOK, Goto

LEMMA PullTypes ==
    ASSUME WorkerTypeOK, NEW w \in Worker, NEW r \in Offered,
           Goto(w, "check"), cur' = [cur EXCEPT ![w] = r]
    PROVE  WorkerTypeOK'
  BY OfferedTypes DEF WorkerTypeOK, Goto, Locations

LEMMA WorkerStepTypes ==
    ASSUME TypeOK, NEW w \in Worker, CreateWork(w)
    PROVE  /\ SchedulerTypeOK'
           /\ WorkerTypeOK'
<1> USE DEF TypeOK
<1>1. CASE PullRequest(w)
  <2>1. SchedulerTypeOK' /\ req \in Offered
    BY <1>1, DispatchTypes DEF PullRequest
  <2>2. QED
    BY <1>1, <2>1, PullTypes DEF PullRequest
<1>2. CASE CheckVisited(w)
  <2>1. SchedulerTypeOK'
    BY <1>2, SameScheduler DEF CheckVisited
  <2>2. CASE Continue(w)
    BY <2>1, <2>2, ContinueTypes
  <2>3. CASE Goto(w, "store") /\ UNCHANGED cur
    <3>1. "store" \in Locations
      BY DEF Locations
    <3>2. QED
      BY <1>2, <2>1, <2>3, <3>1, GotoTypes DEF CheckVisited
  <2>4. QED
    BY <1>2, <2>2, <2>3 DEF CheckVisited
<1>3. CASE StoreVisited(w)
  <2>1. "fetch" \in Locations
    BY DEF Locations
  <2>2. QED
    BY <1>3, <2>1, SameScheduler, GotoTypes DEF StoreVisited
<1>4. CASE FetchFails(w)
  <2>1. "unvisit" \in Locations
    BY DEF Locations
  <2>2. QED
    BY <1>4, <2>1, SameScheduler, GotoTypes DEF FetchFails
<1>5. CASE FetchSucceeds(w)
  <2>1. SchedulerTypeOK'
    BY <1>5, SameScheduler DEF FetchSucceeds
  <2>2. CASE Continue(w)
    BY <2>1, <2>2, ContinueTypes
  <2>3. CASE Goto(w, "out") /\ UNCHANGED cur
    <3>1. "out" \in Locations
      BY DEF Locations
    <3>2. QED
      BY <1>5, <2>1, <2>3, <3>1, GotoTypes DEF FetchSucceeds
  <2>4. QED
    BY <1>5, <2>2, <2>3 DEF FetchSucceeds
<1>6. CASE FetchPanics(w)
  <2>1. "dead" \in Locations
    BY DEF Locations
  <2>2. QED
    BY <1>6, <2>1, SameScheduler, GotoTypes DEF FetchPanics
<1>7. CASE Unvisit(w)
  <2>1. "lock" \in Locations
    BY DEF Locations
  <2>2. QED
    BY <1>7, <2>1, SameScheduler, GotoTypes DEF Unvisit
<1>8. CASE LockFailures(w)
  <2>1. SchedulerTypeOK'
    BY <1>8, SameScheduler DEF LockFailures
  <2>2. CASE Continue(w)
    BY <2>1, <2>2, ContinueTypes
  <2>3. CASE Goto(w, "repush") /\ UNCHANGED cur
    <3>1. "repush" \in Locations
      BY DEF Locations
    <3>2. QED
      BY <1>8, <2>1, <2>3, <3>1, GotoTypes DEF LockFailures
  <2>4. QED
    BY <1>8, <2>2, <2>3 DEF LockFailures
<1>9. CASE Repush(w)
  <2>1. cur[w] \in Request
    BY <1>9, HeldRequest DEF Repush
  <2>2. QED
    BY <1>9, <2>1, ReceiveTypes, ContinueTypes DEF Repush
<1>10. CASE SendResult(w)
  BY <1>10, SameScheduler, ContinueTypes DEF SendResult
<1>11. QED
  BY <1>1, <1>2, <1>3, <1>4, <1>5, <1>6, <1>7, <1>8, <1>9, <1>10
  DEF CreateWork, Fetch, SetFailure

LEMMA WorkerStepData ==
    ASSUME TypeOK, NEW w \in Worker, CreateWork(w)
    PROVE  /\ UNCHANGED seedVars
           /\ pushers' \in [Pusher -> Seq(Request)]
           /\ visited' \in SUBSET URL
           /\ failures' \in SUBSET URL
           /\ handling' \in Request \cup {NoReq}
           /\ up' = up
           /\ HistoryTypeOK'
<1> USE DEF TypeOK, HistoryTypeOK, crawlerVars, history
<1>1. CASE PullRequest(w)
  BY <1>1 DEF PullRequest
<1>2. CASE CheckVisited(w)
  BY <1>2 DEF CheckVisited
<1>3. CASE StoreVisited(w)
  <2>1. Unique(cur[w]) \in URL
    BY <1>3, HeldRequest DEF StoreVisited
  <2>2. QED
    BY <1>3, <2>1 DEF StoreVisited
<1>4. CASE FetchFails(w)
  <2>1. cur[w].url \in URL
    BY <1>4, HeldRequest DEF FetchFails
  <2>2. failed' \in [URL -> Nat]
    BY <1>4, <2>1, Increment DEF FetchFails
  <2>3. QED
    BY <1>4, <2>2 DEF FetchFails
<1>5. CASE FetchSucceeds(w)
  <2>1. /\ cur[w].url \in URL /\ cur[w].task \in Task
        /\ cur[w].depth + 1 \in Nat /\ Links[cur[w].url] \in Seq(Link)
    <3>1. pc[w] # "pull" /\ WorkerTypeOK
      BY <1>5 DEF FetchSucceeds
    <3>2. cur[w].url \in URL /\ cur[w].task \in Task /\ cur[w].depth \in Nat
      BY <3>1, HeldRequest
    <3>3. QED
      BY <3>2, EngineAssumption
  <2>2. fetched' \in [URL -> Nat]
    BY <1>5, <2>1, Increment DEF FetchSucceeds
  <2>3. Requests(cur[w].task, Links[cur[w].url], cur[w].depth + 1)
          \in Seq(Request)
    BY <2>1, RequestsType
  <2>4. pushers' \in [Pusher -> Seq(Request)]
    BY <1>5, <2>3, GoPushType DEF FetchSucceeds
  <2>5. QED
    BY <1>5, <2>2, <2>4 DEF FetchSucceeds
<1>6. CASE FetchPanics(w)
  <2>1. cur[w].url \in URL
    BY <1>6, HeldRequest DEF FetchPanics
  <2>2. QED
    BY <1>6, <2>1 DEF FetchPanics
<1>7. CASE Unvisit(w)
  BY <1>7 DEF Unvisit
<1>8. CASE LockFailures(w)
  <2>1. Unique(cur[w]) \in URL
    BY <1>8, HeldRequest DEF LockFailures
  <2>2. QED
    BY <1>8, <2>1 DEF LockFailures
<1>9. CASE Repush(w)
  BY <1>9 DEF Repush
<1>10. CASE SendResult(w)
  <2>1. cur[w] \in Request
    BY <1>10, HeldRequest DEF SendResult
  <2>2. QED
    BY <1>10, <2>1 DEF SendResult
<1>11. QED
  BY <1>1, <1>2, <1>3, <1>4, <1>5, <1>6, <1>7, <1>8, <1>9, <1>10
  DEF CreateWork, Fetch, SetFailure

LEMMA TypeStep == TypeOK /\ [Next]_vars => TypeOK'
<1> SUFFICES ASSUME TypeOK, [Next]_vars PROVE TypeOK'
  OBVIOUS
<1> USE DEF seedVars, workerVars, crawlerVars, history
<1>1. CASE SeedTask
  <2>1. /\ seeds' \in Seq(Task) /\ Head(seeds) \in Task
    BY <1>1, HeadTailTypes DEF SeedTask, TypeOK
  <2>2. Requests(Head(seeds), Roots[Head(seeds)], 0) \in Seq(Request)
    BY <2>1, RequestsType, EngineAssumption
  <2>3. roots' \in Seq(Request)
    BY <1>1, <2>2, ConcatType DEF SeedTask, TypeOK
  <2>4. QED
    BY <1>1, <2>1, <2>3, SameScheduler
    DEF SeedTask, TypeOK, WorkerTypeOK, HistoryTypeOK
<1>2. CASE StartScheduler
  <2>1. pushers' \in [Pusher -> Seq(Request)]
    BY <1>2, GoPushType DEF StartScheduler, TypeOK
  <2>2. QED
    BY <1>2, <2>1, SameScheduler
    DEF StartScheduler, TypeOK, WorkerTypeOK, HistoryTypeOK
<1>3. CASE SchedulerStep
  BY <1>3, TakeTypes DEF SchedulerStep, TypeOK, WorkerTypeOK, HistoryTypeOK
<1>4. CASE HandleResult
  <2>1. handling.url \in URL
    BY <1>4, OfferedTypes DEF HandleResult, TypeOK
  <2>2. saved' \in [URL -> Nat]
    BY <1>4, <2>1, Increment DEF HandleResult, TypeOK, HistoryTypeOK
  <2>3. up' \in BOOLEAN
    BY <1>4 DEF HandleResult, TypeOK
  <2>4. QED
    BY <1>4, <2>2, <2>3, SameScheduler
    DEF HandleResult, TypeOK, WorkerTypeOK, HistoryTypeOK
<1>5. ASSUME NEW p \in Pusher, PushRequest(p) PROVE TypeOK'
  <2>1. Head(pushers[p]) \in Request /\ Tail(pushers[p]) \in Seq(Request)
    BY <1>5, HeadTailTypes DEF PushRequest, TypeOK
  <2>2. SchedulerTypeOK'
    BY <1>5, <2>1, ReceiveTypes DEF PushRequest, TypeOK
  <2>3. Head(pushers[p]).url \in URL
    BY <2>1, OfferedTypes
  <2>4. found' \in [URL -> Nat]
    BY <1>5, <2>3, Increment DEF PushRequest, TypeOK, HistoryTypeOK
  <2>5. QED
    BY <1>5, <2>1, <2>2, <2>4
    DEF PushRequest, TypeOK, WorkerTypeOK, HistoryTypeOK
<1>6. ASSUME NEW w \in Worker, CreateWork(w) PROVE TypeOK'
  BY <1>6, WorkerStepTypes, WorkerStepData DEF TypeOK
<1>7. CASE UNCHANGED vars
  BY <1>7 DEF vars, TypeOK, SchedulerTypeOK, WorkerTypeOK, HistoryTypeOK
<1>8. QED
  BY <1>1, <1>2, <1>3, <1>4, <1>5, <1>6, <1>7 DEF Next

\* The engine keeps its types; in particular no worker ever holds a request
\* over the depth limit of its task.
THEOREM TypeCorrect == Spec => []TypeOK
<1>1. Init => TypeOK
  <2> SUFFICES ASSUME Init PROVE TypeOK
    OBVIOUS
  <2>1. SchedulerTypeOK
    BY EmptySeq DEF Init, SchedulerInit, SchedulerTypeOK
  <2>2. roots \in Seq(Request) /\ pushers \in [Pusher -> Seq(Request)]
    BY EmptySeq DEF Init
  <2>3. WorkerTypeOK
    BY DEF Init, WorkerTypeOK, Locations
  <2>4. HistoryTypeOK
    BY DEF Init, Zero, HistoryTypeOK
  <2>5. QED
    BY <2>1, <2>2, <2>3, <2>4, EngineAssumption DEF Init, TypeOK
<1>2. QED
  BY <1>1, TypeStep, PTL DEF Spec

-----------------------------------------------------------------------------
(***************************************************************************)
(* No page is lost.  The argument follows the mark of a page in Visited:   *)
(* a request may be skipped on its account, so the mark must always be     *)
(* backed by something that settles the page (VisitedSound); a failure may *)
(* go without a retry, so a recorded failure must be a second one          *)
(* (FailureCounts).                                                        *)
(***************************************************************************)

\* Worker w backs the mark of page u, or has a request for page u.
Carries(w, u) ==
    \/ At(w, {"fetch", "unvisit"}, u)
    \/ At(w, {"check", "store", "lock", "repush"}, u) /\ cur[w].task \in Reload

Works(w, u) ==
    At(w, {"check", "store", "fetch", "unvisit", "lock", "repush"}, u)

Evidence(u) == \/ Settled(u)
               \/ \E r \in Queued : r.url = u /\ r.task \in Reload
               \/ \E w \in Worker : Carries(w, u)

Kept(u) == \/ Settled(u)
           \/ \E r \in Queued : r.url = u
           \/ \E w \in Worker : Works(w, u)

LEMMA Restated == /\ VisitedSound <=> \A u \in visited : Evidence(u)
                  /\ NothingLost <=> \A u \in URL : found[u] > 0 => Kept(u)
                  /\ \A u : Evidence(u) => Kept(u)
<1>1. VisitedSound <=> \A u \in visited : Evidence(u)
  BY DEF VisitedSound, Evidence, Carries, ReloadInFlight
<1>2. NothingLost <=> \A u \in URL : found[u] > 0 => Kept(u)
  BY DEF NothingLost, InFlight, Kept, Works
<1>3. \A w, u : Carries(w, u) => Works(w, u)
  BY DEF Carries, Works, At
<1>4. QED
  BY <1>1, <1>2, <1>3 DEF Evidence, Kept

\* Attempts are never taken back.
SettledStays == \A u \in URL : Settled(u) => Settled(u)'

LEMMA SettledFrame ==
    ASSUME UNCHANGED <<fetched, failed, panicked>>
    PROVE  SettledStays
  BY DEF SettledStays, Settled

LEMMA SettledStep ==
    ASSUME TypeOK, [Next]_vars
    PROVE  SettledStays
<1>1. CASE UNCHANGED <<fetched, failed, panicked>>
  BY <1>1, SettledFrame
<1>2. ASSUME NEW w \in Worker, FetchFails(w) PROVE SettledStays
  <2>1. \A u \in URL : failed'[u] >= failed[u]
    BY <1>2 DEF FetchFails, TypeOK, HistoryTypeOK
  <2>2. \A u \in URL : failed[u] \in Nat /\ failed'[u] \in Nat
    BY <1>2 DEF FetchFails, TypeOK, HistoryTypeOK
  <2>3. UNCHANGED <<fetched, panicked>>
    BY <1>2 DEF FetchFails
  <2>4. QED
    BY <2>1, <2>2, <2>3 DEF SettledStays, Settled
<1>3. ASSUME NEW w \in Worker, FetchSucceeds(w) PROVE SettledStays
  <2>1. \A u \in URL : fetched[u] > 0 => fetched'[u] > 0
    BY <1>3 DEF FetchSucceeds, TypeOK, HistoryTypeOK
  <2>2. UNCHANGED <<failed, panicked>>
    BY <1>3 DEF FetchSucceeds
  <2>3. QED
    BY <2>1, <2>2 DEF SettledStays, Settled
<1>4. ASSUME NEW w \in Worker, FetchPanics(w) PROVE SettledStays
  BY <1>4 DEF FetchPanics, SettledStays, Settled
<1>5. QED
  <2>1. [Next]_vars => \/ UNCHANGED <<fetched, failed, panicked>>
                       \/ \E w \in Worker : Fetch(w)
    BY DEF Next, vars, history, SeedTask, StartScheduler, SchedulerStep,
           HandleResult, PushRequest, CreateWork, PullRequest, CheckVisited,
           StoreVisited, SetFailure, Unvisit, LockFailures, Repush, SendResult
  <2>2. QED
    BY <1>1, <1>2, <1>3, <1>4, <2>1 DEF Fetch

\* What a step must respect for the evidence about other pages to last.
LEMMA QueueFrame ==
    ASSUME SettledStays, Queued \subseteq Queued', pc' = pc, cur' = cur,
           NEW u \in URL
    PROVE  /\ Evidence(u) => Evidence(u)'
           /\ Kept(u) => Kept(u)'
  BY DEF SettledStays, Evidence, Kept, Carries, Works, At

\* Only worker w moves, and the queue loses nothing.
OnlyMoves(w) == \A v \in Worker : v # w => pc'[v] = pc[v] /\ cur'[v] = cur[v]

LEMMA WorkerFrame ==
    ASSUME SettledStays, Queued \subseteq Queued', NEW w \in Worker,
           OnlyMoves(w), NEW u \in URL
    PROVE  /\ Evidence(u) /\ ~Carries(w, u) => Evidence(u)'
           /\ Kept(u) /\ ~Works(w, u) => Kept(u)'
  BY DEF SettledStays, Evidence, Kept, Carries, Works, At, OnlyMoves

LEMMA MovesFrame ==
    ASSUME WorkerTypeOK, NEW w \in Worker
    PROVE  /\ Continue(w) => OnlyMoves(w)
           /\ \A l : Goto(w, l) /\ UNCHANGED cur => OnlyMoves(w) /\ pc'[w] = l
  BY DEF WorkerTypeOK, Continue, Goto, OnlyMoves

\* A worker move settles the accounts when whatever evidence w carried is
\* carried on, or is no longer called for.
LEMMA WorkerStep ==
    ASSUME TypeOK, VisitedSound, NothingLost, TypeOK', SettledStays,
           Queued \subseteq Queued', NEW w \in Worker, OnlyMoves(w),
           found' = found,
           \A u \in visited' : u \in visited \/ Evidence(u)',
           \A u \in URL : Carries(w, u) => Evidence(u)' \/ u \notin visited',
           \A u \in URL : Works(w, u) => Kept(u)'
    PROVE  VisitedSound' /\ NothingLost'
<1>1. \A u \in visited' : Evidence(u)'
  <2> SUFFICES ASSUME NEW u \in visited' PROVE Evidence(u)'
    OBVIOUS
  <2>1. u \in URL
    BY DEF TypeOK
  <2>2. CASE u \in visited
    BY <2>1, <2>2, WorkerFrame, Restated
  <2>3. QED
    BY <2>2
<1>2. \A u \in URL : found'[u] > 0 => Kept(u)'
  BY WorkerFrame, Restated
<1>3. /\ VisitedSound' <=> \A u \in visited' : Evidence(u)'
      /\ NothingLost' <=> \A u \in URL : found'[u] > 0 => Kept(u)'
  BY DEF VisitedSound, NothingLost, Evidence, Carries, ReloadInFlight,
         InFlight, Kept, Works
<1>4. QED
  BY <1>1, <1>2, <1>3

IInv == TypeOK /\ FailureCounts /\ VisitedSound /\ NothingLost

LEMMA FailureFrame ==
    ASSUME FailureCounts, UNCHANGED <<failures, failed>>,
           \A v \in Worker : Failing(v)' => Failing(v) /\ cur'[v] = cur[v]
    PROVE  FailureCounts'
  BY DEF FailureCounts

\* The two steps of a worker that FailureFrame does not cover.
LEMMA FetchFailsCounts ==
    ASSUME TypeOK, FailureCounts, NEW w \in Worker, FetchFails(w)
    PROVE  FailureCounts'
<1> DEFINE x == cur[w].url
<1>1. /\ pc[w] = "fetch" /\ x \in URL /\ ~Failing(w)
      /\ cur' = cur /\ failures' = failures
      /\ \A v \in Worker : v # w => (Failing(v)' <=> Failing(v))
  BY HeldRequest DEF FetchFails, Goto, TypeOK, WorkerTypeOK, Failing, crawlerVars
<1>2. /\ \A u \in URL : failed[u] \in Nat
      /\ \A u \in URL : failed'[u] = IF u = x THEN failed[u] + 1 ELSE failed[u]
  BY <1>1 DEF FetchFails, TypeOK, HistoryTypeOK
<1>3. \A u \in URL : failed'[u] >= failed[u] /\ failed'[x] >= 1
  BY <1>1, <1>2
<1>4. \A v \in Worker : Failing(v) => cur[v].url \in URL
  BY HeldRequest DEF Failing, TypeOK
<1>5. \A v \in Worker : v # w /\ Failing(v) /\ cur[v].url = x => failed'[x] >= 2
  BY <1>1, <1>2, <1>4 DEF FailureCounts
<1>6. x \in failures => failed'[x] >= 2
  BY <1>1, <1>2 DEF FailureCounts
<1>7. failures \subseteq URL
  BY DEF TypeOK
<1>8. \A u \in URL : /\ failed[u] >= 1 => failed'[u] >= 1
                     /\ failed[u] >= 2 => failed'[u] >= 2
  BY <1>2
<1>9. \A v \in Worker : Failing(v)' => failed'[cur'[v].url] >= 1
  BY <1>1, <1>3, <1>4, <1>8 DEF FailureCounts
<1>10. \A v, y \in Worker :
          v # y /\ Failing(v)' /\ Failing(y)' /\ cur'[v].url = cur'[y].url
             => failed'[cur'[v].url] >= 2
  BY <1>1, <1>4, <1>5, <1>8 DEF FailureCounts
<1>11. \A u \in failures' : failed'[u] >= 1
  BY <1>1, <1>7, <1>8 DEF FailureCounts
<1>12. \A v \in Worker : Failing(v)' /\ cur'[v].url \in failures'
                            => failed'[cur'[v].url] >= 2
  BY <1>1, <1>4, <1>6, <1>8 DEF FailureCounts
<1>13. QED
  BY <1>9, <1>10, <1>11, <1>12 DEF FailureCounts

LEMMA LockFailuresCounts ==
    ASSUME TypeOK, FailureCounts, NEW w \in Worker, LockFailures(w)
    PROVE  FailureCounts'
<1>1. /\ Failing(w) /\ ~Failing(w)' /\ failed' = failed
      /\ failures' \subseteq failures \cup {cur[w].url}
      /\ \A v \in Worker : v # w => /\ Failing(v)' <=> Failing(v)
                                    /\ cur'[v] = cur[v]
  BY DEF LockFailures, Continue, Goto, TypeOK, WorkerTypeOK, Failing, Unique,
         history
<1>2. QED
  BY <1>1 DEF FailureCounts

LEMMA FailureStep ==
    ASSUME TypeOK, FailureCounts, [Next]_vars
    PROVE  FailureCounts'
<1>1. ASSUME NEW w \in Worker, FetchFails(w) PROVE FailureCounts'
  BY <1>1, FetchFailsCounts
<1>2. ASSUME NEW w \in Worker, LockFailures(w) PROVE FailureCounts'
  BY <1>2, LockFailuresCounts
<1>3. CASE UNCHANGED <<workerVars, failures, failed>>
  BY <1>3, FailureFrame DEF workerVars, Failing
<1>4. ASSUME NEW w \in Worker,
             \/ PullRequest(w) \/ CheckVisited(w) \/ StoreVisited(w)
             \/ FetchSucceeds(w) \/ FetchPanics(w)
             \/ Unvisit(w) \/ Repush(w) \/ SendResult(w)
      PROVE  FailureCounts'
  <2>1. UNCHANGED <<failures, failed>>
    BY <1>4 DEF PullRequest, CheckVisited, StoreVisited, FetchSucceeds,
                FetchPanics, Unvisit, Repush, SendResult, crawlerVars, history
  <2>2. \A v \in Worker : Failing(v)' => Failing(v) /\ cur'[v] = cur[v]
    BY <1>4 DEF PullRequest, CheckVisited, StoreVisited, FetchSucceeds,
                FetchPanics, Unvisit, Repush, SendResult, Continue, Goto,
                TypeOK, WorkerTypeOK, Failing
  <2>3. QED
    BY <2>1, <2>2, FailureFrame
<1>5. QED
  <2>1. [Next]_vars =>
           \/ UNCHANGED <<workerVars, failures, failed>>
           \/ \E w \in Worker : CreateWork(w)
    BY DEF Next, vars, SeedTask, StartScheduler, SchedulerStep, HandleResult,
           PushRequest, workerVars, crawlerVars, history
  <2>2. QED
    BY <1>1, <1>2, <1>3, <1>4, <2>1 DEF CreateWork, Fetch, SetFailure

\* A step of worker w that leaves it at location l with its request.
LEMMA AtNew ==
    ASSUME TypeOK, NEW w \in Worker, NEW l, Goto(w, l), UNCHANGED cur,
           NEW L, l \in L, NEW u, u = cur[w].url
    PROVE  At(w, L, u)'
  BY DEF TypeOK, WorkerTypeOK, Goto, At

LEMMA WorkerKeepsPages ==
    ASSUME IInv, TypeOK', SettledStays, NEW w \in Worker, CreateWork(w)
    PROVE  VisitedSound' /\ NothingLost'
<1> SUFFICES ASSUME NEW x, x = cur[w].url
             PROVE  VisitedSound' /\ NothingLost'
  OBVIOUS
<1> USE DEF IInv
<1>a. /\ \A u \in URL : Carries(w, u) => Works(w, u) /\ u = x
      /\ \A u \in URL : Works(w, u) => u = x /\ pc[w] # "pull"
  BY DEF Carries, Works, At
<1>b. pc[w] # "pull" => x \in URL /\ cur[w] \in Request /\ Check(cur[w])
  BY HeldRequest DEF TypeOK
<1>c. \A u \in URL : At(w, {"fetch", "unvisit"}, u)' => Evidence(u)' /\ Kept(u)'
  BY DEF Evidence, Kept, Carries, Works, At
<1>d. \A u \in URL : Works(w, u)' => Kept(u)'
  BY DEF Kept
<1>e. \A u \in URL : Carries(w, u)' => Evidence(u)'
  BY DEF Evidence
<1>f. \A u \in URL : Settled(u)' => Evidence(u)' /\ Kept(u)'
  BY DEF Evidence, Kept
<1>1. CASE PullRequest(w)
  <2>1. /\ pc[w] = "pull" /\ pc'[w] = "check" /\ cur'[w] = req
        /\ OnlyMoves(w) /\ visited' = visited /\ found' = found
        /\ Queued \subseteq Queued' \cup {req} /\ req # NoReq
    BY <1>1, DispatchQueued
    DEF PullRequest, Goto, TypeOK, WorkerTypeOK, OnlyMoves, crawlerVars,
        history, Dispatch
  <2>2. \A u \in URL : Evidence(u) => Evidence(u)'
    <3> SUFFICES ASSUME NEW u \in URL, Evidence(u) PROVE Evidence(u)'
      OBVIOUS
    <3>1. CASE Settled(u)
      BY <3>1, <1>f DEF SettledStays
    <3>2. ASSUME NEW r \in Queued, r.url = u, r.task \in Reload
          PROVE  Evidence(u)'
      <4>1. CASE r \in Queued'
        BY <3>2, <4>1 DEF Evidence
      <4>2. CASE r = req
        BY <2>1, <3>2, <4>2, <1>e DEF Carries, At
      <4>3. QED
        BY <2>1, <4>1, <4>2
    <3>3. ASSUME NEW v \in Worker, Carries(v, u) PROVE Evidence(u)'
      BY <2>1, <3>3 DEF Carries, At, OnlyMoves, Evidence
    <3>4. QED
      BY <3>1, <3>2, <3>3 DEF Evidence
  <2>3. \A u \in URL : Kept(u) => Kept(u)'
    <3> SUFFICES ASSUME NEW u \in URL, Kept(u) PROVE Kept(u)'
      OBVIOUS
    <3>1. CASE Settled(u)
      BY <3>1, <1>f DEF SettledStays
    <3>2. ASSUME NEW r \in Queued, r.url = u PROVE Kept(u)'
      <4>1. CASE r \in Queued'
        BY <3>2, <4>1 DEF Kept
      <4>2. CASE r = req
        BY <2>1, <3>2, <4>2, <1>d DEF Works, At
      <4>3. QED
        BY <2>1, <4>1, <4>2
    <3>3. ASSUME NEW v \in Worker, Works(v, u) PROVE Kept(u)'
      BY <2>1, <3>3 DEF Works, At, OnlyMoves, Kept
    <3>4. QED
      BY <3>1, <3>2, <3>3 DEF Kept
  <2>4. visited \subseteq URL
    BY DEF TypeOK
  <2>5. QED
    BY <2>1, <2>2, <2>3, <2>4, Restated
    DEF VisitedSound, NothingLost, Evidence, Carries, ReloadInFlight,
        InFlight, Kept, Works
<1>2. CASE CheckVisited(w)
  <2>1. /\ OnlyMoves(w) /\ Queued' = Queued /\ found' = found
        /\ visited' = visited /\ pc[w] = "check"
    BY <1>2, MovesFrame, SameScheduler
    DEF CheckVisited, TypeOK, crawlerVars, history
  <2>2. CASE Continue(w)
    <3>1. cur[w].task \notin Reload /\ x \in visited
      BY <1>2, <1>b, <2>1, <2>2
      DEF CheckVisited, HasVisited, Unique, Continue, Goto, TypeOK, WorkerTypeOK
    <3>2. \A u \in URL : ~Carries(w, u)
      BY <2>1, <3>1 DEF Carries, At
    <3>3. Evidence(x)' /\ Kept(x)'
      <4>1. Evidence(x)
        BY <3>1, Restated
      <4>2. Evidence(x)'
        BY <1>b, <2>1, <3>2, <4>1, WorkerFrame
      <4>3. Kept(x)'
        BY <4>2 DEF Evidence, Kept, Carries, Works, At
      <4>4. QED
        BY <4>2, <4>3
    <3>4. QED
      BY <1>a, <2>1, <3>2, <3>3, WorkerStep
  <2>3. CASE Goto(w, "store") /\ UNCHANGED cur
    <3>1. Works(w, x)' /\ (Carries(w, x) => Carries(w, x)')
      BY <2>1, <2>3 DEF Works, Carries, At, Goto, TypeOK, WorkerTypeOK
    <3>2. QED
      BY <1>a, <1>b, <1>d, <1>e, <2>1, <3>1, WorkerStep
  <2>4. QED
    BY <1>2, <2>2, <2>3 DEF CheckVisited
<1>3. CASE StoreVisited(w)
  <2>1. /\ OnlyMoves(w) /\ Queued' = Queued /\ found' = found
        /\ visited' = visited \cup {x} /\ pc[w] = "store"
        /\ At(w, {"fetch", "unvisit"}, x)'
    BY <1>3, MovesFrame, SameScheduler, AtNew
    DEF StoreVisited, TypeOK, history, Unique
  <2>2. QED
    BY <1>a, <1>b, <1>c, <2>1, WorkerStep
<1>4. CASE FetchFails(w)
  <2>1. /\ OnlyMoves(w) /\ Queued' = Queued /\ found' = found
        /\ visited' = visited /\ pc[w] = "fetch"
        /\ At(w, {"fetch", "unvisit"}, x)'
    BY <1>4, MovesFrame, SameScheduler, AtNew
    DEF FetchFails, TypeOK, crawlerVars
  <2>2. QED
    BY <1>a, <1>b, <1>c, <2>1, WorkerStep
<1>5. CASE FetchSucceeds(w)
  <2>1. /\ OnlyMoves(w) /\ Queued' = Queued /\ found' = found
        /\ visited' = visited /\ pc[w] = "fetch"
    BY <1>5, MovesFrame, SameScheduler DEF FetchSucceeds, TypeOK, crawlerVars
  <2>2. Settled(x)'
    <3>1. fetched[x] \in Nat /\ fetched'[x] = fetched[x] + 1
      BY <1>5, <1>b, <2>1 DEF FetchSucceeds, TypeOK, HistoryTypeOK
    <3>2. QED
      BY <3>1 DEF Settled
  <2>3. QED
    BY <1>a, <1>b, <1>f, <2>1, <2>2, WorkerStep
<1>6. CASE FetchPanics(w)
  <2>1. /\ OnlyMoves(w) /\ Queued' = Queued /\ found' = found
        /\ visited' = visited /\ pc[w] = "fetch" /\ Settled(x)'
    BY <1>6, MovesFrame, SameScheduler
    DEF FetchPanics, TypeOK, crawlerVars, Settled
  <2>2. QED
    BY <1>a, <1>b, <1>f, <2>1, WorkerStep
<1>7. CASE Unvisit(w)
  <2>1. /\ OnlyMoves(w) /\ Queued' = Queued /\ found' = found
        /\ pc[w] = "unvisit" /\ pc'[w] = "lock" /\ cur' = cur
        /\ visited' = IF cur[w].task \in Reload THEN visited ELSE visited \ {x}
    BY <1>7, MovesFrame, SameScheduler DEF Unvisit, TypeOK, history, Unique
  <2>2. Works(w, x)' /\ (cur[w].task \in Reload => Carries(w, x)')
    BY <2>1 DEF Works, Carries, At
  <2>3. QED
    BY <1>a, <1>b, <1>d, <1>e, <2>1, <2>2, WorkerStep
<1>8. CASE LockFailures(w)
  <2>1. /\ OnlyMoves(w) /\ Queued' = Queued /\ found' = found
        /\ visited' = visited /\ pc[w] = "lock" /\ failed' = failed
    BY <1>8, MovesFrame, SameScheduler DEF LockFailures, TypeOK, history
  <2>2. CASE x \in failures
    <3>1. failed[x] >= 2
      BY <2>1, <2>2 DEF FailureCounts, Failing
    <3>2. Settled(x)'
      BY <2>1, <3>1 DEF Settled
    <3>3. QED
      BY <1>a, <1>b, <1>f, <2>1, <3>2, WorkerStep
  <2>3. CASE x \notin failures
    <3>1. Goto(w, "repush") /\ cur' = cur
      BY <1>8, <2>3 DEF LockFailures, Unique
    <3>2. Works(w, x)' /\ (Carries(w, x) => Carries(w, x)')
      BY <2>1, <3>1 DEF Works, Carries, At, Goto, TypeOK, WorkerTypeOK
    <3>3. QED
      BY <1>a, <1>b, <1>d, <1>e, <2>1, <3>2, WorkerStep
  <2>4. QED
    BY <2>2, <2>3
<1>9. CASE Repush(w)
  <2>1. /\ OnlyMoves(w) /\ found' = found /\ visited' = visited
        /\ pc[w] = "repush"
    BY <1>9, MovesFrame DEF Repush, TypeOK, crawlerVars, history
  <2>2. Queued \subseteq Queued' /\ cur[w] \in Queued'
    BY <1>9, <1>b, <2>1, ReceiveQueued DEF Repush, TypeOK
  <2>3. Kept(x)' /\ (Carries(w, x) => Evidence(x)')
    BY <2>1, <2>2 DEF Kept, Evidence, Carries, At
  <2>4. QED
    BY <1>a, <1>b, <2>1, <2>2, <2>3, WorkerStep
<1>10. CASE SendResult(w)
  <2>1. /\ OnlyMoves(w) /\ Queued' = Queued /\ found' = found
        /\ visited' = visited /\ pc[w] = "out"
    BY <1>10, MovesFrame, SameScheduler
    DEF SendResult, TypeOK, crawlerVars, history
  <2>2. \A u \in URL : ~Works(w, u)
    BY <2>1 DEF Works, At
  <2>3. QED
    BY <1>a, <2>1, <2>2, WorkerStep
<1>11. QED
  BY <1>1, <1>2, <1>3, <1>4, <1>5, <1>6, <1>7, <1>8, <1>9, <1>10
  DEF CreateWork, Fetch, SetFailure

\* A step of any other goroutine leaves the workers and the marks alone.
LEMMA OthersKeepPages ==
    ASSUME IInv, SettledStays, Queued \subseteq Queued',
           UNCHANGED <<workerVars, visited>>,
           \A u \in URL : found'[u] > 0 => found[u] > 0 \/ Kept(u)'
    PROVE  VisitedSound' /\ NothingLost'
<1>1. visited \subseteq URL
  BY DEF IInv, TypeOK
<1>2. \A u \in visited : Evidence(u)'
  BY <1>1, QueueFrame, Restated DEF IInv, workerVars
<1>3. \A u \in URL : found'[u] > 0 => Kept(u)'
  BY QueueFrame, Restated DEF IInv, workerVars
<1>4. QED
  BY <1>2, <1>3 DEF VisitedSound, NothingLost, Evidence, Carries,
                    ReloadInFlight, InFlight, Kept, Works

LEMMA InductiveStep == IInv /\ [Next]_vars => IInv'
<1> SUFFICES ASSUME IInv, [Next]_vars PROVE IInv'
  OBVIOUS
<1> USE DEF IInv
<1>1. TypeOK' /\ FailureCounts' /\ SettledStays
  BY TypeStep, FailureStep, SettledStep
<1>2. CASE UNCHANGED <<schedVars, workerVars, visited, found>>
  BY <1>1, <1>2, SameScheduler, OthersKeepPages
<1>3. CASE SchedulerStep
  <2>1. UNCHANGED <<workerVars, visited, found>>
    BY <1>3 DEF SchedulerStep, crawlerVars, history
  <2>2. Queued \subseteq Queued'
    BY <1>3, TakeQueued DEF SchedulerStep, TypeOK
  <2>3. QED
    BY <1>1, <2>1, <2>2, OthersKeepPages
<1>4. ASSUME NEW p \in Pusher, PushRequest(p) PROVE IInv'
  <2> SUFFICES ASSUME NEW r, r = Head(pushers[p]) PROVE IInv'
    OBVIOUS
  <2>1. r \in Request /\ r.url \in URL
    BY <1>4, HeadTailTypes, OfferedTypes DEF PushRequest, TypeOK
  <2>2. Queued \subseteq Queued' /\ (Check(r) => r \in Queued')
    BY <1>4, <2>1, ReceiveQueued DEF PushRequest, TypeOK
  <2>3. UNCHANGED <<workerVars, visited>>
    BY <1>4 DEF PushRequest, crawlerVars
  <2>4. \A u \in URL : found'[u] > 0 => found[u] > 0 \/ (u = r.url /\ Check(r))
    BY <1>4, <2>1 DEF PushRequest, TypeOK, HistoryTypeOK
  <2>5. \A u \in URL : found'[u] > 0 => found[u] > 0 \/ Kept(u)'
    BY <2>2, <2>4 DEF Kept
  <2>6. QED
    BY <1>1, <2>2, <2>3, <2>5, OthersKeepPages
<1>5. ASSUME NEW w \in Worker, CreateWork(w) PROVE IInv'
  BY <1>1, <1>5, WorkerKeepsPages
<1>6. QED
  <2>1. [Next]_vars =>
           \/ UNCHANGED <<schedVars, workerVars, visited, found>>
           \/ SchedulerStep
           \/ \E p \in Pusher : PushRequest(p)
           \/ \E w \in Worker : CreateWork(w)
    BY DEF Next, vars, SeedTask, StartScheduler, HandleResult, schedVars,
           workerVars, crawlerVars, history
  <2>2. QED
    BY <1>2, <1>3, <1>4, <1>5, <2>1

LEMMA InductiveInvariant == Spec => []IInv
<1>1. Init => FailureCounts /\ VisitedSound /\ NothingLost
  BY DEF Init, FailureCounts, VisitedSound, NothingLost, Failing, Zero
<1>2. Init /\ TypeOK => IInv
  BY <1>1 DEF IInv
<1>3. QED
  BY <1>2, TypeCorrect, InductiveStep, PTL DEF Spec

\* While a page is marked visited, something backs the mark.
THEOREM MarksAreBacked == Spec => []VisitedSound
<1>1. IInv => VisitedSound
  BY DEF IInv
<1>2. QED
  BY <1>1, InductiveInvariant, PTL

\* However many workers race, fail and retry, no page that was pushed within
\* its depth limit is forgotten before it is fetched, has failed twice or has
\* taken a worker down.
THEOREM NoPageLost == Spec => []NothingLost
<1>1. IInv => NothingLost
  BY DEF IInv
<1>2. QED
  BY <1>1, InductiveInvariant, PTL
=============================================================================
