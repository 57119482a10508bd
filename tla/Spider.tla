------------------------------- MODULE Spider -------------------------------
(***************************************************************************)
(* Package spider: what a crawl request is, when it is refused, and what   *)
(* identifies it.  The HTTP method is always GET in this program, so the   *)
(* URL alone stands for the pair the code hashes.  A body, a rule name and *)
(* the temporary data of a request are left out: nothing decides on them.  *)
(***************************************************************************)
EXTENDS Naturals

CONSTANTS Task,       \* the crawl tasks
          URL,        \* the pages
          MaxDepth,   \* Task.MaxDepth, by task
          NoReq       \* the nil request

ASSUME SpiderAssumption == MaxDepth \in [Task -> Nat]

\* A request; "high" stands for Priority > 0, the only test made of it.
Request == [task : Task, url : URL, depth : Nat, high : BOOLEAN]

ASSUME NoReqAssumption == NoReq \notin Request

\* Mutant: the depth limit is off by one.
CheckOffByOne(r) == r.depth <= MaxDepth[r.task] + 1

\* Request.Check: TRUE when it returns no error.
Check(r) == r.depth <= MaxDepth[r.task]

\* Request.Unique: the key of Visited and failures.  It leaves out the task.
Unique(r) == r.url
=============================================================================
