# gocrawler in TLA+

A verification project for gocrawler: a crawl engine (scheduler, workers,
deduplication, retries), the limiters, fetchers and proxies it works through, the
tasks and rules it runs, the SQL storage behind it, the two commands, and a
master that assigns crawl tasks ("resources") to workers under an etcd election.
The modules are translated from the Go code.

## The system

| Component | State | Operations | Works with |
|---|---|---|---|
| Requests (`spider/request.go`) | task, URL, depth, priority | `Check`, `Unique`, `Fetch` | all of the engine |
| Scheduler (`engine/schedule.go`) | `req`, `priReqQueue`, `reqQueue` | `Push`, `Pull`, `Schedule` | two unbuffered channels |
| Engine (`engine/schedule.go`) | `Visited`, `failures`, their locks, `out` | `Run`, `Schedule`, `CreateWork`, `SetFailure`, `HandleResult` | scheduler, fetchers, rules, storage |
| Task store (`engine/schedule.go`) | `Hash`, `list` | `Add`, `AddJSTask`, `GetFields` | engine, SQL storage |
| SQL storage (`storage/sqlstorage`) | `dataDocker`, `Table` | `Save`, `Flush` | called by `HandleResult`, calls `sqldb` |
| SQL database (`sqldb`) | tables, rows (outside) | `CreateTable`, `Insert`, `DropTable` | SQL storage |
| Master (`master/master.go`) | `workNodes`, `resources`, `ready`, `leaderID` | `New`, `AddSeed`, `Campaign`, `elect`, `loadResource`, `updateWorkNodes`, `AddResource`, `DeleteResource` | etcd, the registry of workers |
| Rate limiter (`limiter`) | token buckets | `Wait`, `Limit`, `Multi`, `Per` | a request's `Fetch` |
| Fetchers (`collect`) | `http.DefaultTransport` | `BaseFetch.Get`, `BrowserFetch.Get` | a request's `Fetch`, proxies |
| Proxy rotation (`proxy`) | a uint32 counter | `GetProxy` | the transport of all fetchers |
| Douban rules (`parse`), temporary data (`spider/temp.go`) | - | `Root`, the `ParseFunc`s | workers |
| Commands (`cmd/worker`, `cmd/master`) | what listens, the registration | `Run`, the servers | etcd's registry, which a master reads |
| ID generator, generated gRPC, logging, version | - | - | see *Not modelled* |

How it runs: `Crawler.Run` starts the seeding goroutine, `WorkCount` workers and
stays in `HandleResult`.  The seeding goroutine asks each seed task for its root
requests, starts the scheduler and a goroutine that pushes the roots.  A worker
pulls a request, skips it if its page is marked visited, marks it, fetches,
parses, starts a goroutine that pushes what the page links to, and hands the
result to `HandleResult`.  A failed page loses its mark and is pushed once more
by the worker itself.  A fetch waits for the limiters of its task, sleeps, and
goes through the one transport of the process.  A worker process serves pprof,
HTTP and gRPC, and keeps itself in the registry.  A master process reads the registry, adds the seed
resources, and campaigns; once elected it loads all resources and is `ready`.

What is hard here: three kinds of goroutines around unbuffered channels; a
worker that pushes to the scheduler it pulls from, with a lock held; a visited
mark that is tested, set and taken off in separate critical sections; a buffer
that is flushed by a call whose errors are dropped; limiters whose tokens
are taken one after the other by workers that then sleep; a transport that one
request changes under all others; registered and configured instances of a task
that are not the same; processes that are restarted under the lease of their
former selves; masters that write to etcd before, during and after elections,
with leases that run out under them.  `PROJECT.json` lists these hazards by line.

What makes each part correct: the scheduler loses, repeats and reorders
nothing, and always receives; the engine settles every page it is given, with a
bounded number of attempts, and saves every item; the storage keeps what it
accepted until it is inserted; the limits of a task hold together; what a rule
asks for exists and what it extracts has a column; a process that runs is in the
registry and one that is gone is not; a ready master is the elected one and
knows what etcd holds, and a standby takes over.

## Modules

| Module | Models | Code |
|---|---|---|
| `Spider` | a request, `Check`, `Unique` | `spider/request.go` |
| `Scheduler` | the loop of `Schedule.Schedule` | `engine/schedule.go` 141-243 |
| `TwoLanes` | abstract: two FIFO lanes with bounded overtaking | what `Scheduler` promises |
| `SchedulerClients` | the scheduler between any pushers and pullers; refines `TwoLanes` | `Push`, `Pull` |
| `Engine` | the crawl: extends `Scheduler` with seeding, workers, pushes, results | `engine/schedule.go` 155-386 |
| `SQLStore` | `Save`, `Flush`, and the database under them | `storage/sqlstorage`, `sqldb` |
| `RateLimit` | the limiters of a task as token buckets | `limiter/limiter.go` |
| `ProxySwitch` | the rotation with a counter of fixed width | `proxy/proxy.go` |
| `Fetching` | `Fetch` by several workers; composes the two above | `spider/request.go`, `collect/collect.go` |
| `Rules` | the three compiled tasks: roots, rule trees, `ParseFunc`s | `parse`, `spider/parse.go`, `spider/temp.go` |
| `Tasks` | the store, the configuration, the walk from the roots to the books; extends `Rules` | `engine/schedule.go` 22-139, `cmd/worker/worker.go` 266-303, `spider/option.go` |
| `Processes` | both commands, their servers, and the registry of services | `cmd/worker/worker.go`, `cmd/master/master.go` |
| `Succession` | abstract: a line of candidates of which the head may lead | what the election promises the masters |
| `Master` | several masters, etcd, the election, the registry as masters see it; refines `Succession` | `master/master.go` |
| `SchedulerProofs`, `EngineProofs`, `EngineAttempts`, `SQLStoreProofs`, `FetchingProofs`, `TasksProofs`, `ProcessesProofs`, `MasterProofs` | theorems and proofs | |
| `MCScheduler`, `MCEngine`, `MCSQLStore`, `MCFetching`, `MCTasks`, `MCProcesses`, `MCMaster` | small instances for TLC | |

A crawl is looked at from three sides, each with the others in one step: `Engine`
has the interleavings of the goroutines and any links, `Fetching` what happens
inside a fetch, `Tasks` the real tasks and rules.

### Scheduler

A send on an unbuffered channel and its receive are one step; `Receive` and
`Dispatch` are the scheduler's halves, which `SchedulerClients` and `Engine`
compose with a pusher's or a worker's.  `Take` is the part of the loop above
the `select`: it picks a request and drops it again when it is over the depth
limit.  It touches no other goroutine's state, and `AtSelect` tells from the
three variables whether the goroutine is at the `select`.  In `ch <- req`
with both queues empty `ch` is nil, so `Dispatch` needs `req # NoReq`.

### Engine

A worker's `pc` stands at the statement that touches shared state next.
`VisitedLock` is held for one step at a time.  `failureLock` is held across the
push of the retry, which blocks; `LockFailures` waits while a worker is at
`repush`.  `Fetch` may fail at any time (an error, or a body under 6000 bytes);
parsing errors and panics are constants, by page.  The history variables count
requests pushed, fetches and saves by page.  `Stored` are the tasks whose
*registered* instance has a Storage: `HandleResult` looks the task up in
`Store.Hash`, which `ParseTaskConfig` does not fill.

The method of every request is GET, so a URL stands for the hash of URL and
method.  A retry keeps its depth, priority and task.

### SQLStore

`HandleResult` is the one caller, on one goroutine, so `Save` is a step.  Each
statement may fail, and may have had its effect when it does: the tables are
MyISAM, so an insert may leave some rows.  `Flush` writes the whole buffer with
the table and the columns of its first cell, and does not empty it.

### Fetching, RateLimit, ProxySwitch

A bucket of `golang.org/x/time/rate` is told by the time at which it is full
again: taking a token moves that time on by `Per`, and the token is good once
the debt fits the bucket.  `Wait` takes its token at once, also for a moment in
the future, and only then the next limiter is asked; the order is by rate,
slowest first.  No deadline is set, so `Wait` does not fail.  `Get` sets `Proxy` in
`http.DefaultTransport`, which is never unset and which the plain fetcher uses
as well: `proxied` is one variable of the process.  That write races with the
transport's reads; both outcomes of a race are there, since a `Trip` may come
before or after a `Get`.  A round trip asks for a proxy, a redirect is another
round trip.  `BrowserFetch` takes a response whatever its status.  A body is
a length; `Decoded` is the length after decoding, which may grow, and `Guessed`
says that `Peek` of 1024 bytes failed.  `Fetch` of a task without limits, or
without a fetcher, is a nil dereference: the worker is `dead`.

### Rules, Tasks

`Register` is the `init` function of package `engine`, `ParseTaskConfig` what
`cmd/worker` makes of `config.toml`, `Schedule` what `Crawler.Schedule` does with
the seeds.  `Name` are the names that the two Go tasks and the script task declare;
`AddJSTask` leaves out that of the script task, so two of the three are registered
under the empty name.  `Rules` keeps of a page what its expressions find.  The
columns of the book rule (`ItemFields`) and the keys of the map that its
`ParseFunc` makes (`Extracted`) are two lists, as in the code.  `TmpData` is the
set of keys that are set; the panics of a missing rule and of `Get` on a nil map
are actions of `Tasks`.  Its `HandleResult` looks up the registered task's
Storage, which nothing sets, so a cell ends the process.  A request is worked on in
one step.

### Processes

The main goroutine of a process, and the goroutines that serve pprof and HTTP.
`Listen` ends the process when the address is taken on its host: pprof panics,
the gateway logs a fatal error, `service.Run` returns an error.  `Addr` and `Id`
are computed from the flags as the code does: workers share the default address
of pprof and the default id, masters have the id of the configuration whatever
`--id` says.  `crawler master` is the command of `cmd/cmd.go`, which has no
flags and is refused with any.  From `service.Run` on the process registers at
every interval, which is go-micro's: it keeps the lease of its node alive if it
holds one, in memory or at its key in etcd, and else puts the node under a new
lease.  A `Stop` deletes the key, a `Crash` leaves it to its lease.  A worker
builds the engine and does not run it.

### Master

One step per etcd call of the main line and of the `elect` goroutines.  An
election is etcd's: a queue of keys, each under the lease of a session; a
candidate waits for the keys older than its own and does not watch its own.
`AddResource` and `DeleteResource` hold `rlock` throughout.  A registry event is
counted from the moment the watch exists.  The timer of the `select` fires only
if the `select` waited 20 seconds; the first calls of an `elect` goroutine take
less (etcd answers), so no `Tick` while one is at `start`.  etcd has one member
(`docker-compose.yml`), so serializable reads are up to date.

The module models `Master` as a package.  At this commit `New` returns an empty
`Master` and the command registers neither its handlers nor seeds; `MasterSafety`
has calls of `AddResource` and `DeleteResource` all the same, as the handlers of
the package would make them.

## Runs

Runs expected to pass:

| Run | Properties | Shows |
|---|---|---|
| `Scheduler` | `TypeOK`, `OvertakenIsNext`, `TwoLanesSpec`, `PushReturns`, `Drains` | the scheduler implements the two lanes; a `Push` returns although no puller ever comes back; any one puller that goes on empties it |
| `Engine` | `TypeOK`, `NothingLost`, `VisitedSound`, `AttemptBound`, `ItemsSaved`, `PagesSettle`, `ComesToRest` | no page is lost, marks are backed, retries are bounded, each item is saved once per fetch, every page is settled, though a worker dies |
| `SQLStoreBatches` | `TypeOK`, `AcceptedKept`, `CrashLossBound` | an accepted cell is buffered or inserted; what a crash costs |
| `Fetching` | `TypeOK`, `Throttled`, `AcceptedDecoded`, `RotationEven`, `ProxiesStick`, `NoTokenLost` | the limits of a task hold together, no token is lost, no page is read with a guessed encoding, the rotation is even but for wrap-arounds, a proxy once set is set for all |
| `Tasks` | `TypeOK`, `RulesClosed`, `WorkersLast`, `FieldsMatch`, `WalkEnds` | what is asked for exists, what is extracted has a column, a task without limits or a fetcher costs one worker, the walk ends |
| `Processes` | `TypeOK`, `Visible`, `NoGhosts`, `AddressesClash`, `ComesBack` | a process with an id of its own is found and comes back, a dead one is forgotten, two that share an address do not go on together |
| `MasterSafety` | `TypeOK`, `ReadyLeads`, `MemoryTracksEtcd`, `WorkersKnown`, `SuccessionSpec`, `TakesOverUnlessErrors` | a ready master with a live lease heads the election and its resources are those of etcd; the sessions lead in the order in which they came, one at a time; it knows the workers, unless it missed an event before it watched or the registry failed; short of errors and lost leases a standby becomes ready |

Runs expected to find a violation, each a disagreement between the code and
what a document, comment or test of the repository says:

| Run | Property | The code |
|---|---|---|
| `EngineDuplicate` | `FetchedOnce` | two workers fetch one page: test and mark are two critical sections |
| `SQLStoreFlush` | `FlushEmptiesBuffer` | a `Flush` that inserted its whole batch leaves it in the buffer |
| `MasterStale` | `StaleLeaderStepsDown` | failing elections keep the timer from firing |
| `TasksNames` | `SeedsGetTheirTask` | the script task is registered without its name, in place of the group task, and a seed of that name gets no rules |
| `TasksStorage` | `CellsSaved` | the registered task has no Storage, only the seed has: the first book ends the process |

Other disagreements with the documents, or with what one would expect, need no
run to be seen.  The models contain these:

- A normal request already in `req` goes out before a high one (`TwoLanes`
  allows exactly that).
- `updateWorkNodes` sets every load to 0, so after a restart or an event of the
  registry `Assign` counts what was assigned as none (`master.go:271`, `:348`).
- An elected master whose `loadResource` failed is not ready, does not try
  again and keeps its key (`master.go:188`).
- The script of the group task names the key `URL` where `AddJsReqs` looks for
  `Url`: its roots are refused without an error (`groupjs.go:16`, `schedule.go:36`).
- `New` assigns the seeds before any election; workers that come or go between
  `New` and the watch are missed; `AddResource` finds a resource by prefix
  (`master.go:363`); `reAssign` has no caller.
- Per divides by `EventCount`, which may be left out (`limiter.go:16`).
- `BrowserFetch` does not look at the status (`collect.go:69`).
- Workers without `--id` share a key of the registry (`worker.go:53`), and so do
  all masters (`cmd/master/master.go:152`); the error of `master.New` is dropped
  (`cmd/master/master.go:112`); `docker-compose.yml` starts a master with flags
  the command does not have (`cmd.go:10`).

The models leave these out: the flag `pprof` of a master overwrites the default of
its gRPC address, from which its election id is made (`cmd/master/master.go:55`);
`LimitConfig.Bucket` is read and not used (`spider/task.go:27`).

### Bounds

- Scheduler: three pushers with seven requests of both priorities, one over the
  depth limit in each lane, and two pullers.  Each lane fills, refused requests
  stand before good ones, and a high request arrives while a normal one is in
  hand.
- Engine: two tasks, of which one reloads, four pages, two workers, depth
  limit 1.  Task *t* crawls *a*, which links to *c* and, with high priority, to
  *b*; task *s* crawls *b*, which links to *d*: so *b* is asked for by both tasks,
  with both priorities and at both depths, and *d* is beyond the limit for *t*.
  *c* takes a worker down, *d* cannot be parsed.  One more seed is not registered
  and one has roots that fail.  In `EngineDuplicate` no task reloads and no page
  takes a worker down.  Two workers are what a race needs; that one of them
  is alone is no case for a run: `OneWorkerFetchesOnce` proves it.  Four names for
  Push goroutines are enough: in every reachable state of the passing run one of
  them is free, so no fetch waits for a name.
- SQLStore: five cells of two tasks and three rules, of two widths, batches of
  two, one restart; a cell's buffer can be mixed in both ways that matter (same
  width but other columns, other width).  `MaxRestarts` bounds the restarts.
- Fetching: two workers and four tasks: one with two limits of different rates
  and a browser, one with one limit and the plain fetcher, one with neither, one
  with limits only.  `Burst` is the code's 1.  Three proxies and a counter of the
  values 0 to 3 (`Modulus = 4`, 2^32 in the code): three does not divide four, so the rotation
  stumbles when the counter wraps, which the six round trips of `MaxFetches = 3`
  with `MaxTrips = 2` reach.  `Sizes` are the last length
  whose encoding is guessed and the one whose growth just misses a page if half
  of it were enough.  `MaxIdle` lets time pass before the first token.
- Tasks: ten configurations, among them the two of `config.toml`, the script task
  under the name it is declared with, one without a name, without limits, with another fetcher, with a limit of no events, with
  depth 1; up to two of them at a time (`MaxSeeds`), two links, two workers.  A
  page may hold any subset of the links, so pages link to themselves and each
  other; the depth limits are those of the code.  `TasksNames` needs two of the
  configurations, the book task and the script task.
- Processes: two workers on two hosts that share the default id; two workers on
  one host that share the default address of pprof; two masters.  A lease lasts
  four ticks and is renewed every tick, where the code has 60 and 15 seconds;
  `MaxLaunches = 2` gives one restart or one each, and `MaxErrors = 4` lets a lease
  run out.
- Master: two masters, one worker node and one resource; `Bound` limits each
  kind of outside event to one (changes of the registry, lost leases, crashes,
  failed calls) and `MaxCalls` the calls to one.
  `inc` counts starts and grows with crashes only.

Deadlock is not checked where the crawl, the clients, the fetches or the bounded
outside events come to an end.  In `Processes` time goes on.

### Fairness

The Go runtime runs every goroutine that can run: weak fairness of each
goroutine's next step, of the scheduler's, and of `HandleResult`.  A worker that
waits in `Pull` competes for the one request offered: weak fairness of all its
steps together gives it no claim on a particular one.  `PushReturns`
assumes nothing of the pullers, `Drains` that one of them goes on.  In `Master`
the main line and the `elect` goroutines of a master run, and etcd drops the
keys of the dead; nothing makes clients call, workers change or leases expire.
The timer has no fairness of its own: a `Tick` is one of the main line's steps.
In `Tasks` the main goroutine goes on, as do the workers while there is something
to take, and `HandleResult`.  In `Processes` the goroutine of pprof and the
registration go on, and so does time; a process need not start, and may stop or
crash at any time.  `Fetching` has safety properties only.

## Proofs

`SchedulerProofs` proves, for any sets of pushers and pullers, any programs and
any depth limits:

- `TypeCorrect`: `Spec => []TypeOK`.  The type invariant is inductive (`StepTypes`).
- `Overtaken`: `Spec => []OvertakenIsNext`, inductive with the types
  (`StepOvertaken`): while nothing is in hand, the loop takes a high request first.
- `Refinement`: `Spec => TwoLanesSpec`.  Every step is a step of `TwoLanes` or
  a stutter, under the mapping that puts the request in hand at the head of its
  lane; the guard on overtaking needs `OvertakenIsNext`.

`EngineProofs` proves, for any workers, tasks, pages and link structure:

- `TypeCorrect`: `Spec => []TypeOK`, including that `failureLock` is exclusive.
- `MarksAreBacked`: `Spec => []VisitedSound`.
- `NoPageLost`: `Spec => []NothingLost`.

The last two need each other and one more fact, `FailureCounts`, and are proved
together from `IInv == TypeOK /\ FailureCounts /\ VisitedSound /\ NothingLost`.
The argument: a request that is skipped leaves its page to the mark, so the
mark must be backed (`VisitedSound`); the backing is a worker that may fail,
take the mark off and then find its page in `failures`, and give up; that is
sound only if being in `failures` means another failure happened before, even
when several workers fail on one page at once (`FailureCounts`).

`EngineAttempts` proves two bounds on what the same races cost:

- `AttemptsPaid`: `Spec => []AttemptBound`, from `Tally`, which counts as
  attempts also those that can still come without another push: what the scheduler
  has in store for the page (`InStore`) and the workers that have not come to
  their attempt yet, are about to push the retry, or died of it (`Busy`).  Then
  every step moves an attempt from one summand to another, a push pays for one more,
  and the first failure of a page for the retry.
- `OneWorkerFetchesOnce`: with one worker, `Spec => []FetchedOnce`.  `Once` adds
  that the page of a good fetch keeps its mark.  `EngineDuplicate` shows that one
  more worker is enough to break it.

`SQLStoreProofs` proves, for any cells, tables, rules, widths and batch size:

- `TypeCorrect`: `Spec => []TypeOK`: a table in the cache exists.
- `NoCellLost`: `Spec => []AcceptedKept`.  Together with `TypeOK` it is
  inductive: rows are only added, and a cell leaves the buffer with a restart
  only.
- `CrashCost`: `Spec => []CrashLossBound`, from `FlushedBound`: while statements
  succeed, the buffer is no longer than a batch, or all it holds but one cell is
  in the database (with `BatchCount` 0 every `Save` flushes before it adds).

`FetchingProofs` proves, for any workers, tasks, limits, fetchers, proxies, sizes and
counter width, and any number of fetches:

- `Sticks`: `Spec => []ProxiesStick`, from `Direct`, which adds that no proxy is
  used before the transport has one.
- `NotGuessed`: `Spec => []AcceptedDecoded`.  A body under 1024 bytes, three times
  as long at most when decoded, stays under 6000.
- `TypeCorrect`: `Spec => []TypeOK`, with `Stages`: a worker that asks no limiter
  has the first one next.
- `EvenRounds`: `Spec => []RotationEven`.  `Even` is the exact form: less its turn
  in the round that is on (`Turn`), a proxy is ahead of another by no more than
  the rounds that a wrapping counter broke off.
- `TokensLast`: `Spec => []NoTokenLost`, and `LimitsHold`: `Spec => []Throttled`.
  Both follow from `Buckets`, which says `Held` of each bucket: with `K` tokens
  used and the workers `Q` waiting, the bucket is full again no earlier than
  after `K + |Q|` tokens' time, and no later than that of `Burst + |Q|` tokens from
  now; a waiting worker wakes no earlier than, but for `Burst`, the tokens used and
  those of the workers that wake with or before it take, and its distance to the
  full bucket is bounded by the number of those that wake after it.  `HeldTaken`, `HeldAwaited`,
  `HeldFewer` and `HeldTick` say that a token taken at once, one taken in advance,
  the end of a wait, and time, keep it.  A fetch that has begun has a token of
  every limiter, whatever their order; that each limit of a task has a place in the
  order by rate is `MultiOrder`.

`TasksProofs` proves, for any configurations, links and number of workers:

- `WorkersGoOn`: `Spec => []WorkersLast`.
- `CellsFit`: `Spec => []FieldsMatch`.
- `RulesStayInside`: `Spec => []RulesClosed`, from `Listed`, what is registered
  when, and `ClosedRule` and `ClosedRoot` on the rule trees.
- `TypeCorrect`: `Spec => []TypeOK`, from `Typed` and the invariants of the others:
  that a request is of a rule of its tree needs `Walking`.

The first two follow from `IInv == Prepared /\ Walking /\ Costs`.  `Prepared`
says by phase of the main goroutine what is registered and configured; `Walking`
that every open request is of a book task, names a rule it has and carries what
that rule reads, and that every cell is of the rule with the fields.  The
lemma `BookRules` shows that a rule only asks for such requests.  `Costs` adds to
the workers lost those that still can be: `Doomed`, the open requests of tasks
without limits or a fetcher.  Together they are no more than these tasks: each has
one root, the worker that takes it dies before it asks for another page, and no
other request takes a worker down.

`ProcessesProofs` proves, for any processes, hosts, flags, lease time and interval,
and without any bound on launches and errors:

- `TypeCorrect`: `Spec => []TypeOK`.
- `GhostsGo`: `Spec => []NoGhosts`.
- `StaysVisible`: `Spec => []Visible`.

They follow from `IInv == TypeOK /\ KeysBacked /\ MemoryBacked /\ Accounted`: what
etcd holds and what a process remembers is under a lease that some process asked
for, for the same node, and the time left of a lease, the time since the last
success and the attempts missed since then add up.  Sharing an id breaks
that, which is why `Visible` excepts it; a restart under the old lease does
not.

`MasterProofs` proves, for any masters, workers, resources and seeds, and any bounds on
crashes, errors, lost leases, changes of the registry and calls:

- `TypeCorrect`: `Spec => []TypeOK`: a ready master is at rest, its own leader.
- `ReadyMastersLead`: `Spec => []ReadyLeads`, and from it `OneLeader`: of two masters
  that are ready at once, one has lost its lease.
- `Successors`: `Spec => SuccessionSpec`.  Every step is one of the line of
  `Succession` or a stutter: the queue of keys is the line, and a session leads while
  its master is ready and its lease alive.  A lease that runs out is a `Leave`, a
  crash of the leader a `Resign`, the end of `loadResource` a `Lead`; a `Tick` that
  makes a master give up is a stutter, since its lease is gone by then.
- `MemoryIsEtcd`: `Spec => []MemoryTracksEtcd`.
- `WorkersAreKnown`: `Spec => []WorkersKnown`.

They rest on one inductive invariant, `IInv == Types /\ Campaigns /\ Memory
/\ Known`.  `Types` adds that a master that loads takes itself for the leader.
`Campaigns` is about the election: no session has two keys (`Distinct`); a master
that is down or seeding has no session and no campaign (`Absent`); while its lease
holds, a master that waits in `elect` has its key in the queue behind keys it
waits for only (`Waits`), and one that is ready, loads, or has won and not yet
said so is at the head (`Elections`).  It needs both: the head is given to
the master that waits for nobody, and nobody gets in before a key.  A former
self's key stands under another lease, which is why a restart can not inherit
the head.  `Memory` adds to the property that the reply `loadResource` is about to
take is what etcd still says (`ReplyTracksEtcd`); `Known` says of every running
master what `WorkersKnown` says of one that campaigns.

No assumption is made but those on the types of the constants
(`SpiderAssumption`, `NoReqAssumption`, `EngineAssumption`,
`ClientsAssumption`, `SQLStoreAssumption`, `RateLimitAssumption`,
`ProxySwitchAssumption`, `FetchingAssumption`, `TasksAssumption`,
`ProcessesAssumption`: lease time and interval are positive, as they are in
`config.toml`; `MasterAssumption`: the name of a resource extends itself), which
TLC evaluates in the runs.  Workers, and the resources of the masters, are
finitely many; the counter of the rotation has more than one value.  The theorems
about limits hold for `Burst` of any size and limits in any order of their rates.

Every invariant of the passing runs is proved.  Model-checked only are the
properties under fairness (`PushReturns`, `Drains`, `PagesSettle`, `ComesToRest`,
`ItemsSaved`, `WalkEnds`, `AddressesClash`, `ComesBack`,
`TakesOverUnlessErrors`): they rest on `ENABLED`, which this prover does not
reason about.  The five that do not hold are refuted by TLC;
one of them, `FetchedOnce`, is proved for one worker.

To be provable, the order of a `MultiLimiter` is stated as what sorting
gives, some order of the limits with the slowest first, where the
code calls `sort.Slice`.

## Not modelled

- `generator`: a pure conversion, called with `podIP` only, which nothing sets.
- `extensions/randomua.go` and the Cookie: data that nothing decides on.
- `cmd/grpc-client`, the Greeter and the request bucket around it (`cmd/master/master.go`
  139): a test client and an example around generated code.
- `Engine` with `SQLStore` behind it: `HandleResult` finds no Storage at this commit
  (`TasksStorage`), and where there is one `Save` is a call on its one goroutine, as
  `SQLStore` has it.
- The engine inside a worker process: `cmd/worker` builds it and does not run it.
- `proto`, `log`, `version`, `kubernetes`: generated code, output, deployment.
- `reAssign`, the scheduler's `Output`, `DropTable`, `AddJsReq`: without a caller.

## Plan

Done: `Spider`, `Scheduler`, `TwoLanes`, `SchedulerClients`, `Engine`, `SQLStore`,
`Master`, in this order because a crawl rests on the scheduler, and the proofs
of the scheduler, the engine and the storage; then `RateLimit`, `ProxySwitch`,
`Fetching`, `Rules`, `Tasks`, `Processes` and the proofs of the last four; then
the proofs of `Master` and of every invariant that was model-checked only, and
`Succession`.  Next:

1. An abstract specification of the buckets (so many tokens in so much time) that
   `Fetching` implements, in place of the two invariants about them.
2. The action properties that these invariants come down to in one step: a key of
   the registry changes hands only with its id.
3. `TwoLanes` for the scheduler inside `Engine`, whose pushers are not given their
   requests beforehand.
