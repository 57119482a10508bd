------------------------------- MODULE Engine -------------------------------
(***************************************************************************)
(* engine.Crawler: the seeding goroutine, the scheduler, WorkCount workers *)
(* (CreateWork), the goroutines that Push what a page links to, and        *)
(* HandleResult on the main goroutine.                                     *)
(*                                                                         *)
(* A worker's pc names the statement it is about to execute:               *)
(*   pull     Pull(), blocked until the scheduler sends                    *)
(*   check    Check and HasVisited                                         *)
(*   store    StoreVisited                                                 *)
(*   fetch    Fetch, then ParseFunc                                        *)
(*   unvisit  SetFailure, the part under VisitedLock                       *)
(*   lock     SetFailure, failureLock.Lock() and the test of failures      *)
(*   repush   SetFailure, Push with failureLock held                       *)
(*   out      s.out <- result                                              *)
(*   dead     recovered from a panic; the goroutine is gone                *)
(* VisitedLock is held over single steps only, and failureLock is held     *)
(* exactly by a worker at "repush".                                        *)
(***************************************************************************)
EXTENDS Scheduler, SequencesExt

CONSTANTS Worker,      \* the WorkCount goroutines
          Pusher,      \* names for the goroutines started by "go Push"
          Seeds,       \* options.Seeds: a sequence of tasks
          Registered,  \* the tasks Store.Hash knows
          RootFails,   \* the tasks whose Rule.Root returns an error
          Roots,       \* by task, the links its Rule.Root returns
          Links,       \* by page, the links its ParseFunc returns
          Unparsable,  \* the pages whose ParseFunc returns an error
          Panicking,   \* the pages whose Fetch or ParseFunc panics
          HasItem,     \* the pages that yield a DataCell
          Reload,      \* the tasks whose pages may be fetched again
          Stored       \* the tasks registered with a Storage

Link == [url : URL, high : BOOLEAN]

ASSUME EngineAssumption == /\ Seeds \in Seq(Task)
                           /\ Roots \in [Task -> Seq(Link)]
                           /\ Links \in [URL -> Seq(Link)]
                           /\ Worker # {} /\ IsFiniteSet(Worker)

VARIABLES seeds,     \* the seed tasks not looked at yet
          roots,     \* the root requests collected so far
          started,   \* the scheduler and the push of the roots are started
          pushers,   \* by Push goroutine, the requests not handed over yet
          pc,        \* by worker, where it is
          cur,       \* by worker, the request it works on
          visited,   \* Crawler.Visited: the keys set to true
          failures,  \* Crawler.failures: its keys
          handling,  \* the result HandleResult is at, or NoReq
          up,        \* the process runs
          found,     \* history: by page, requests pushed for it, but retries
          fetched,   \* history: by page, the fetches that gave a full body
          failed,    \* history: by page, the fetches that did not
          panicked,  \* history: the pages a worker died on
          saved      \* history: by page, the DataCells handed to a Storage

history == <<found, fetched, failed, panicked, saved>>
workerVars == <<pc, cur>>
crawlerVars == <<visited, failures>>
seedVars == <<seeds, roots, started>>
vars == <<req, priReqQueue, reqQueue, seeds, roots, started, pushers, pc, cur,
          visited, failures, handling, up, found, fetched, failed, panicked,
          saved>>

Request0(t, l, d) == [task |-> t, url |-> l.url, depth |-> d, high |-> l.high]

\* Requests of task t at depth d for a sequence of links.
Requests(t, links, d) == [i \in 1 .. Len(links) |-> Request0(t, links[i], d)]

Zero == [u \in URL |-> 0]

Init == /\ SchedulerInit
        /\ seeds = Seeds
        /\ roots = <<>>
        /\ started = FALSE
        /\ pushers = [p \in Pusher |-> <<>>]
        /\ pc = [w \in Worker |-> "pull"]
        /\ cur = [w \in Worker |-> NoReq]
        /\ visited = {}
        /\ failures = {}
        /\ handling = NoReq
        /\ up = TRUE
        /\ found = Zero
        /\ fetched = Zero
        /\ failed = Zero
        /\ panicked = {}
        /\ saved = Zero

\* go s.scheduler.Push(rs...): a goroutine that is not in use takes it.
GoPush(rs) == \E p \in Pusher :
                 /\ p = CHOOSE q \in Pusher : pushers[q] = <<>>
                 /\ pushers[p] = <<>>
                 /\ pushers' = [pushers EXCEPT ![p] = rs]

-----------------------------------------------------------------------------
\* One round of the loop of Crawler.Schedule.
SeedTask ==
    /\ ~started
    /\ seeds # <<>>
    /\ seeds' = Tail(seeds)
    /\ LET seed == Head(seeds) IN
         roots' = IF seed \in Registered \ RootFails
                  THEN roots \o Requests(seed, Roots[seed], 0)
                  ELSE roots
    /\ UNCHANGED <<schedVars, started, pushers, workerVars, crawlerVars,
                   handling, up, history>>

\* The end of Crawler.Schedule.
StartScheduler ==
    /\ ~started
    /\ seeds = <<>>
    /\ started' = TRUE
    /\ GoPush(roots)
    /\ UNCHANGED <<schedVars, seeds, roots, workerVars, crawlerVars, handling,
                   up, history>>

SchedulerStep ==
    /\ started
    /\ Take
    /\ UNCHANGED <<seedVars, pushers, workerVars, crawlerVars, handling, up,
                   history>>

\* A Push goroutine hands over its next request.
PushRequest(p) ==
    /\ pushers[p] # <<>>
    /\ LET r == Head(pushers[p]) IN
         /\ Receive(r)
         /\ found' = IF Check(r) THEN [found EXCEPT ![r.url] = @ + 1] ELSE found
    /\ pushers' = [pushers EXCEPT ![p] = Tail(@)]
    /\ UNCHANGED <<seedVars, workerVars, crawlerVars, handling, up, fetched,
                   failed, panicked, saved>>

-----------------------------------------------------------------------------
Goto(w, l) == pc' = [pc EXCEPT ![w] = l]

\* continue: back to the top of the loop, with the request forgotten.
Continue(w) == /\ Goto(w, "pull")
               /\ cur' = [cur EXCEPT ![w] = NoReq]

\* req := s.scheduler.Pull()
PullRequest(w) ==
    /\ pc[w] = "pull"
    /\ Dispatch
    /\ cur' = [cur EXCEPT ![w] = req]
    /\ Goto(w, "check")
    /\ UNCHANGED <<seedVars, pushers, crawlerVars, handling, up, history>>

\* HasVisited, read under VisitedLock.
HasVisited(r) == Unique(r) \in visited

CheckVisited(w) ==
    /\ pc[w] = "check"
    /\ IF ~Check(cur[w]) \/ (cur[w].task \notin Reload /\ HasVisited(cur[w]))
       THEN Continue(w)
       ELSE Goto(w, "store") /\ UNCHANGED cur
    /\ UNCHANGED <<schedVars, seedVars, pushers, crawlerVars, handling, up,
                   history>>

StoreVisited(w) ==
    /\ pc[w] = "store"
    /\ visited' = visited \cup {Unique(cur[w])}
    /\ Goto(w, "fetch")
    /\ UNCHANGED <<schedVars, seedVars, pushers, cur, failures, handling, up,
                   history>>

\* An error, or a body under 6000 bytes.
FetchFails(w) ==
    /\ pc[w] = "fetch"
    /\ failed' = [failed EXCEPT ![cur[w].url] = @ + 1]
    /\ Goto(w, "unvisit")
    /\ UNCHANGED <<schedVars, seedVars, pushers, cur, crawlerVars, handling, up,
                   found, fetched, panicked, saved>>

\* The body is there and ParseFunc runs: what the page links to is pushed by
\* a goroutine of its own, whatever the request's depth.
FetchSucceeds(w) ==
    /\ pc[w] = "fetch"
    /\ cur[w].url \notin Panicking
    /\ fetched' = [fetched EXCEPT ![cur[w].url] = @ + 1]
    /\ IF cur[w].url \in Unparsable
       THEN Continue(w) /\ UNCHANGED pushers
       ELSE /\ Goto(w, "out")
            /\ UNCHANGED cur
            /\ IF Links[cur[w].url] = <<>>
               THEN UNCHANGED pushers
               ELSE GoPush(Requests(cur[w].task, Links[cur[w].url],
                                    cur[w].depth + 1))
    /\ UNCHANGED <<schedVars, seedVars, crawlerVars, handling, up, found, failed,
                   panicked, saved>>

\* The deferred recover ends the goroutine and nothing starts another.
FetchPanics(w) ==
    /\ pc[w] = "fetch"
    /\ cur[w].url \in Panicking
    /\ panicked' = panicked \cup {cur[w].url}
    /\ Goto(w, "dead")
    /\ UNCHANGED <<schedVars, seedVars, pushers, cur, crawlerVars, handling, up,
                   found, fetched, failed, saved>>

-----------------------------------------------------------------------------
\* Mutant: a failed page stays visited.
UnvisitForgets(w) ==
    /\ pc[w] = "unvisit"
    /\ Goto(w, "lock")
    /\ UNCHANGED <<schedVars, seedVars, pushers, cur, crawlerVars, handling, up,
                   history>>

\* SetFailure, first part: delete(e.Visited, unique) unless the task reloads.
Unvisit(w) ==
    /\ pc[w] = "unvisit"
    /\ visited' = IF cur[w].task \in Reload THEN visited
                  ELSE visited \ {Unique(cur[w])}
    /\ Goto(w, "lock")
    /\ UNCHANGED <<schedVars, seedVars, pushers, cur, failures, handling, up,
                   history>>

\* Mutant: a failure is retried and not recorded.
LockFailuresUnrecorded(w) ==
    /\ pc[w] = "lock"
    /\ \A v \in Worker : pc[v] # "repush"
    /\ Goto(w, "repush")
    /\ UNCHANGED <<schedVars, seedVars, pushers, cur, crawlerVars, handling, up,
                   history>>

\* SetFailure, failureLock taken: only the first failure of a page is retried.
LockFailures(w) ==
    /\ pc[w] = "lock"
    /\ \A v \in Worker : pc[v] # "repush"
    /\ IF Unique(cur[w]) \in failures
       THEN Continue(w) /\ UNCHANGED failures
       ELSE /\ failures' = failures \cup {Unique(cur[w])}
            /\ Goto(w, "repush")
            /\ UNCHANGED cur
    /\ UNCHANGED <<schedVars, seedVars, pushers, visited, handling, up, history>>

\* SetFailure, the retry: the worker itself pushes, failureLock held.
Repush(w) ==
    /\ pc[w] = "repush"
    /\ Receive(cur[w])
    /\ Continue(w)
    /\ UNCHANGED <<seedVars, pushers, crawlerVars, handling, up, history>>

-----------------------------------------------------------------------------
\* Mutant: the result is dropped when HandleResult is busy.
SendResultDrops(w) ==
    /\ pc[w] = "out"
    /\ handling' = IF handling = NoReq THEN cur[w] ELSE handling
    /\ Continue(w)
    /\ UNCHANGED <<schedVars, seedVars, pushers, crawlerVars, up, history>>

\* s.out <- result meets result := <-s.out.
SendResult(w) ==
    /\ pc[w] = "out"
    /\ handling = NoReq
    /\ handling' = cur[w]
    /\ Continue(w)
    /\ UNCHANGED <<schedVars, seedVars, pushers, crawlerVars, up, history>>

\* The body of HandleResult.  The Storage is the registered task's; Save on a
\* nil Storage panics on the main goroutine, which ends the process.
HandleResult ==
    /\ handling # NoReq
    /\ handling' = NoReq
    /\ IF handling.url \in HasItem
       THEN IF handling.task \in Stored
            THEN /\ saved' = [saved EXCEPT ![handling.url] = @ + 1]
                 /\ UNCHANGED up
            ELSE up' = FALSE /\ UNCHANGED saved
       ELSE UNCHANGED <<up, saved>>
    /\ UNCHANGED <<schedVars, seedVars, pushers, workerVars, crawlerVars, found,
                   fetched, failed, panicked>>

-----------------------------------------------------------------------------
Fetch(w) == FetchFails(w) \/ FetchSucceeds(w) \/ FetchPanics(w)

SetFailure(w) == Unvisit(w) \/ LockFailures(w) \/ Repush(w)

CreateWork(w) == \/ PullRequest(w) \/ CheckVisited(w) \/ StoreVisited(w)
                 \/ Fetch(w) \/ SetFailure(w) \/ SendResult(w)

Next == /\ up
        /\ \/ SeedTask \/ StartScheduler \/ SchedulerStep \/ HandleResult
           \/ \E p \in Pusher : PushRequest(p)
           \/ \E w \in Worker : CreateWork(w)

\* The Go runtime runs every goroutine that can take a step; the workers race
\* for the one request the scheduler offers.
Fairness == /\ WF_vars(up /\ (SeedTask \/ StartScheduler))
            /\ WF_vars(up /\ SchedulerStep)
            /\ WF_vars(up /\ HandleResult)
            /\ \A p \in Pusher : WF_vars(up /\ PushRequest(p))
            /\ \A w \in Worker : WF_vars(up /\ CreateWork(w))

Spec == Init /\ [][Next]_vars
FairSpec == Spec /\ Fairness

-----------------------------------------------------------------------------
Locations == {"pull", "check", "store", "fetch", "unvisit", "lock", "repush",
              "out", "dead"}

WorkerTypeOK == /\ pc \in [Worker -> Locations]
                /\ cur \in [Worker -> Offered \cup {NoReq}]
                /\ \A w \in Worker : pc[w] # "pull" => cur[w] # NoReq
                /\ \A w, v \in Worker :
                      pc[w] = "repush" /\ pc[v] = "repush" => w = v

HistoryTypeOK == /\ found \in [URL -> Nat]
                 /\ fetched \in [URL -> Nat]
                 /\ failed \in [URL -> Nat]
                 /\ panicked \in SUBSET URL
                 /\ saved \in [URL -> Nat]

\* The types.  A worker holds a request, within its depth limit, everywhere
\* but at "pull"; and no two workers are inside failureLock.
TypeOK == /\ SchedulerTypeOK
          /\ seeds \in Seq(Task)
          /\ roots \in Seq(Request)
          /\ started \in BOOLEAN
          /\ pushers \in [Pusher -> Seq(Request)]
          /\ WorkerTypeOK
          /\ visited \in SUBSET URL
          /\ failures \in SUBSET URL
          /\ handling \in Request \cup {NoReq}
          /\ up \in BOOLEAN
          /\ HistoryTypeOK

\* The requests the scheduler holds and will not refuse.
Queued == {r \in ToSet(priReqQueue) \cup ToSet(reqQueue) \cup {req} :
              r # NoReq /\ Check(r)}

\* Worker w is at one of the locations L, on page u.
At(w, L, u) == pc[w] \in L /\ cur[w].url = u

\* The engine is done with a page: it was fetched, its retry failed as well,
\* or it took a worker down.
Settled(u) == fetched[u] > 0 \/ failed[u] >= 2 \/ u \in panicked

InFlight(u) ==
    \/ \E r \in Queued : r.url = u
    \/ \E w \in Worker :
          At(w, {"check", "store", "fetch", "unvisit", "lock", "repush"}, u)

Failing(w) == pc[w] \in {"unvisit", "lock"}

\* What makes failures trustworthy, with several workers failing on one page
\* at once: a page in failures has failed, and if a worker is about to look it
\* up there it has failed twice.
FailureCounts ==
    /\ \A w \in Worker : Failing(w) => failed[cur[w].url] >= 1
    /\ \A w, v \in Worker :
          w # v /\ Failing(w) /\ Failing(v) /\ cur[w].url = cur[v].url
             => failed[cur[w].url] >= 2
    /\ \A u \in failures : failed[u] >= 1
    /\ \A w \in Worker : Failing(w) /\ cur[w].url \in failures
                            => failed[cur[w].url] >= 2

\* No page is lost: as long as the engine is not done with a page it was
\* given, a request for it is queued or in the hands of a worker.  Requests
\* are skipped because their page is marked visited, failures take the mark
\* off and are retried once, and the mark is shared by workers that hold
\* different requests for one page, of different tasks.
NothingLost == \A u \in URL : found[u] > 0 => Settled(u) \/ InFlight(u)

ReloadInFlight(u) ==
    \/ \E r \in Queued : r.url = u /\ r.task \in Reload
    \/ \E w \in Worker : /\ At(w, {"check", "store", "lock", "repush"}, u)
                         /\ cur[w].task \in Reload

\* The mark can be trusted: while a page is marked visited, the engine is done
\* with it, a worker is fetching it or about to take the mark off, or a
\* request that ignores the mark is under way.
VisitedSound ==
    \A u \in visited :
       \/ Settled(u)
       \/ \E w \in Worker : At(w, {"fetch", "unvisit"}, u)
       \/ ReloadInFlight(u)

Count(b) == IF b THEN 1 ELSE 0

\* Retries are bounded: the attempts at a page, the ones that ended a worker
\* included, never exceed the requests that asked for it by more than the one
\* retry, whatever the order in which concurrent attempts fail.
AttemptBound ==
    \A u \in URL :
       fetched[u] + failed[u] + Cardinality({w \in Worker : At(w, {"dead"}, u)})
          <= found[u] + Count(u \in failures)

\* What Visited is for: a page of tasks that do not reload is fetched once.
FetchedOnce == Reload = {} => \A u \in URL : fetched[u] <= 1

-----------------------------------------------------------------------------
\* Every page the engine is given is settled in the end: no interleaving of
\* workers that race for the marks, fail, and push their retries with
\* failureLock held stops the crawl short.
PagesSettle == \A u \in URL : found[u] > 0 ~> Settled(u)

\* Every DataCell reaches its Storage, exactly once per successful fetch: no
\* result is dropped between the workers and HandleResult.
ItemsSaved ==
    <>[](\A u \in HasItem \ Unparsable : saved[u] = fetched[u])

\* The engine comes to rest: nothing queued, every live worker in Pull.
ComesToRest ==
    <>[](/\ Queued = {}
         /\ \A p \in Pusher : pushers[p] = <<>>
         /\ \A w \in Worker : pc[w] \in {"pull", "dead"})
=============================================================================
