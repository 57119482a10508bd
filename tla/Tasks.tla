-------------------------------- MODULE Tasks --------------------------------
(***************************************************************************)
(* The task store, the tasks of the configuration, and the walk of the     *)
(* rules from the roots to the books: what is asked of whom with which     *)
(* rule, and what becomes of it.  A request is worked on in one step: the  *)
(* interleavings of the workers are Engine's, the waits are Fetching's.    *)
(***************************************************************************)
EXTENDS Rules, Sequences

CONSTANTS Configs,     \* the TaskConfigs a configuration is made of
          MaxSeeds,    \* bound: the tasks of a configuration
          WorkCount    \* the workers

TaskConfig == [Name : STRING, WaitTime : Nat, Reload : BOOLEAN, MaxDepth : Nat,
               Fetcher : STRING, Limits : Seq(Nat)]

ASSUME TasksAssumption == /\ \A c \in Configs : c \in TaskConfig
                          /\ MaxSeeds \in Nat
                          /\ WorkCount \in Nat

VARIABLES Hash,        \* Store.Hash: by name, the registered task
          list,        \* Store.list
          config,      \* the tasks of config.toml
          pc,          \* of the main goroutine: "init", "parse", "seed" or "run"
          seeds,       \* options.Seeds
          open,        \* the requests between Push and Pull
          Visited, failures,
          out,         \* the cells that workers are about to send
          workers,     \* how many workers are alive
          dead         \* the process is gone, by a panic

walkVars == <<open, Visited, failures, out, workers>>
vars == <<Hash, list, config, pc, seeds, walkVars, dead>>

Config == UNION {[1 .. n -> Configs] : n \in 1 .. MaxSeeds}

Init == /\ Hash = <<>>
        /\ list = <<>>
        /\ config \in Config
        /\ pc = "init"
        /\ seeds = <<>>
        /\ open = {}
        /\ Visited = {}
        /\ failures = {}
        /\ out = {}
        /\ workers = WorkCount
        /\ dead = FALSE

Nameless == ""

\* CrawlerStore.Add, of a task without a name too.
Add(hash, name, task) ==
    [n \in DOMAIN hash \cup {name} |-> IF n = name THEN task ELSE hash[n]]

\* By task, the Name in its definition; that of the Go group is commented out.
Name == [group |-> Nameless, book |-> "douban_book_list", js |-> "js_find_douban_sun_room"]

\* AddJSTask: the Property of the model is left out, and its Name with it.
AddJSTask(hash, task) == Add(hash, Nameless, task)

\* The init function of package engine.
Register ==
    /\ pc = "init"
    /\ Hash' = AddJSTask(Add(Add(Hash, Name["group"], "group"), Name["book"], "book"), "js")
    /\ list' = <<"group", "book", "js">>
    /\ pc' = "parse"
    /\ UNCHANGED <<config, seeds, walkVars, dead>>

\* spider.NewTask with the options of ParseTaskConfig.
NewTask(c) == [Name |-> c.Name, WaitTime |-> 5, Reload |-> c.Reload, MaxDepth |-> 5,
               Storage |-> TRUE, Limit |-> FALSE, Fetcher |-> FALSE, Rule |-> "none"]

\* Mutant: what is absent is taken for a zero.
OverwrittenBy(value, default) == value

\* A number that the configuration leaves out has its default.
OrElse(value, default) == IF value > 0 THEN value ELSE default

\* The task ParseTaskConfig makes of c.
Seed(c) == [NewTask(c) EXCEPT !.WaitTime = OrElse(c.WaitTime, @),
                              !.MaxDepth = OrElse(c.MaxDepth, @),
                              !.Limit = c.Limits # <<>>,
                              !.Fetcher = c.Fetcher = "browser"]

\* Per divides by the EventCount.
PerPanics(c) == \E i \in DOMAIN c.Limits : c.Limits[i] = 0

ParseTaskConfig ==
    /\ pc = "parse" /\ ~dead
    /\ IF \E i \in DOMAIN config : PerPanics(config[i])
       THEN dead' = TRUE /\ UNCHANGED <<pc, seeds>>
       ELSE /\ seeds' = [i \in DOMAIN config |-> Seed(config[i])]
            /\ pc' = "seed"
            /\ UNCHANGED dead
    /\ UNCHANGED <<Hash, list, config, walkVars>>

\* The request of seed i for the request r of its Root.
Seeded(i, r) == [seed |-> i, url |-> r.url, depth |-> r.depth, priority |-> r.priority,
                 rule |-> r.rule, temp |-> r.temp]

\* Crawler.Schedule: the seeds the store knows get their Rule, and their roots
\* are pushed.
Schedule ==
    /\ pc = "seed"
    /\ seeds' = [i \in DOMAIN seeds |->
                   IF seeds[i].Name \in DOMAIN Hash
                   THEN [seeds[i] EXCEPT !.Rule = Hash[seeds[i].Name]] ELSE seeds[i]]
    /\ open' = UNION {{Seeded(i, r) : r \in Root(Hash[seeds[i].Name])} :
                        i \in {j \in DOMAIN seeds : seeds[j].Name \in DOMAIN Hash}}
    /\ pc' = "run"
    /\ UNCHANGED <<Hash, list, config, Visited, failures, out, workers, dead>>

-----------------------------------------------------------------------------
Refused(r) == \/ r.depth > seeds[r.seed].MaxDepth
              \/ ~seeds[r.seed].Reload /\ r.url \in Visited

\* A worker takes request r; it is not one that waits to send.
Takes(r) == /\ pc = "run" /\ ~dead
            /\ r \in open
            /\ Cardinality(out) < workers

\* The depth limit, or a page that was visited.
Refuse(r) ==
    /\ Takes(r)
    /\ Refused(r)
    /\ open' = open \ {r}
    /\ UNCHANGED <<Hash, list, config, pc, seeds, Visited, failures, out, workers, dead>>

\* Fetch has no Limit to wait for, or no Fetcher.
FetchPanics(r) == ~seeds[r.seed].Limit \/ ~seeds[r.seed].Fetcher

\* The task has no such rule, or its ParseFunc panics.
RulePanics(r) == r.rule \notin DOMAIN Trunk(seeds[r.seed].Rule) \/ ParsePanics(r)

\* The worker recovers outside its loop: it is gone.
Panic(r) ==
    /\ Takes(r)
    /\ ~Refused(r)
    /\ FetchPanics(r) \/ RulePanics(r)
    /\ open' = open \ {r}
    /\ Visited' = Visited \cup {r.url}
    /\ workers' = workers - 1
    /\ UNCHANGED <<Hash, list, config, pc, seeds, failures, out, dead>>

\* Fetch fails or the body is short: SetFailure, which pushes r once more.
Fail(r) ==
    /\ Takes(r)
    /\ ~Refused(r)
    /\ ~FetchPanics(r)
    /\ Visited' = IF seeds[r.seed].Reload THEN Visited \cup {r.url} ELSE Visited \ {r.url}
    /\ failures' = failures \cup {r.url}
    /\ open' = IF r.url \in failures THEN open \ {r} ELSE open
    /\ UNCHANGED <<Hash, list, config, pc, seeds, out, workers, dead>>

\* The page is parsed, its requests are pushed, its result is sent.
Parse(r, page) ==
    /\ Takes(r)
    /\ ~Refused(r)
    /\ ~FetchPanics(r) /\ ~RulePanics(r)
    /\ LET result == ParseFunc(seeds[r.seed].Rule, r, page) IN
         /\ open' = (open \ {r}) \cup result.requests
         /\ out' = out \cup result.cells
    /\ Visited' = Visited \cup {r.url}
    /\ UNCHANGED <<Hash, list, config, pc, seeds, failures, workers, dead>>

\* The registered tasks that have a Storage.
RegisteredStorage == {}

\* The Storage of the registered task of the cell's name.
StorageOf(cell) == Hash[seeds[cell.seed].Name] \in RegisteredStorage

\* HandleResult: Save is called of a nil Storage.
HandleResult(cell) ==
    /\ ~dead
    /\ cell \in out
    /\ out' = out \ {cell}
    /\ dead' = ~StorageOf(cell)
    /\ UNCHANGED <<Hash, list, config, pc, seeds, open, Visited, failures, workers>>

Work == \E r \in open : \/ Refuse(r) \/ Panic(r) \/ Fail(r)
                        \/ \E page \in Page : Parse(r, page)

Next == Register \/ ParseTaskConfig \/ Schedule \/ Work \/ \E cell \in out : HandleResult(cell)

\* The main goroutine goes on, and a worker takes what there is to take.
Fairness == /\ WF_vars(Register \/ ParseTaskConfig \/ Schedule)
            /\ WF_vars(Work)
            /\ WF_vars(\E cell \in out : HandleResult(cell))

Spec == Init /\ [][Next]_vars
FairSpec == Spec /\ Fairness

-----------------------------------------------------------------------------
URL == Link \cup {r.url : r \in BookRoot \cup GroupRoot}

Request == [seed : DOMAIN seeds, url : URL, depth : Nat, priority : {0, 1, 100},
            rule : DOMAIN BookTrunk, temp : SUBSET {"book_name"}]

\* The types.  A seed sleeps and goes somewhere: its WaitTime and its MaxDepth
\* are not 0, whatever the configuration says or leaves out.
TypeOK ==
    /\ DOMAIN Hash \subseteq {Nameless, "douban_book_list"}
    /\ \A name \in DOMAIN Hash : \E i \in DOMAIN list : list[i] = Hash[name]
    /\ \A i \in DOMAIN list : list[i] \in {"group", "book", "js"}
    /\ pc \in {"init", "parse", "seed", "run"}
    /\ \A i \in DOMAIN seeds : /\ {seeds[i].WaitTime, seeds[i].MaxDepth} \subseteq Nat \ {0}
                             /\ seeds[i].Rule \in {"group", "book", "js", "none"}
    /\ open \subseteq Request
    /\ Visited \subseteq URL
    /\ failures \subseteq URL
    /\ \A cell \in out : cell.seed \in DOMAIN seeds
    /\ workers \in 0 .. WorkCount
    /\ dead \in BOOLEAN

\* The rule trees are closed: whatever a page holds, a rule of a registered task
\* only asks for rules that task has, and so do the roots.
RulesClosed ==
    \A i \in DOMAIN list :
       LET t == list[i] IN
       /\ \A r \in Root(t) : r.rule \in DOMAIN Trunk(t)
       /\ \A rule \in DOMAIN Trunk(t), page \in Page :
             LET r == Seeded(1, RootRequest("", rule)) IN
             \A q \in ParseFunc(t, r, page).requests : q.rule \in DOMAIN Trunk(t)

\* A configured task that is crawled without limits or without a fetcher.
Broken == {i \in DOMAIN seeds :
             seeds[i].Rule # "none" /\ ~(seeds[i].Limit /\ seeds[i].Fetcher)}

\* A task without limits or without a fetcher costs one worker, that of its
\* root, and no other task costs any: what panics is not asked for again, and
\* every request carries what the rule it names reads.
WorkersLast == WorkCount - workers <= Cardinality(Broken)

GetFields(name, rule) == Trunk(Hash[name])[rule]

\* A cell has a value for every column of the table that is made for it, and
\* a column for every value: Flush puts nothing in a column that has no value
\* and drops a value that has no column, both without an error.  The columns
\* are those of the task that is registered under the seed's name.
FieldsMatch == \A cell \in out : cell.data = GetFields(seeds[cell.seed].Name, cell.rule)

\* A configured task is crawled by the rules of the registered task of its name:
\* no registration takes the key of another, and each is under its own name.
SeedsGetTheirTask ==
    pc = "run" => \A i \in DOMAIN seeds, j \in DOMAIN list :
                     seeds[i].Name = Name[list[j]] => seeds[i].Rule = list[j]

\* A book of a task that was configured with a Storage is saved: HandleResult
\* takes it and the process goes on.
CellsSaved ==
    [][\A cell \in out \ out' : seeds[cell.seed].Storage => ~dead']_vars

\* The walk ends, also of tasks that may visit a page again: the requests run
\* out, or those who would work on them do.
WalkEnds == <>[](open = {} \/ workers = 0 \/ dead)
=============================================================================
