------------------------------ MODULE TasksProofs ------------------------------
(***************************************************************************)
(* For any configurations, pages and number of workers: whoever is asked   *)
(* to work on a request finds what it needs, unless the configuration left *)
(* out limits or a fetcher, which costs one worker; what is extracted fits *)
(* its table; a rule of a registered task asks for rules of that task      *)
(* only; and the types are right.                                          *)
(***************************************************************************)
EXTENDS Tasks, FiniteSetTheorems, TLAPS

\* The rules of the book task.
LEMMA Trunks ==
  /\ Trunk("book") = BookTrunk
  /\ DOMAIN BookTrunk = {"tag", "book list", "book detail"}
  /\ BookTrunk["book detail"] = ItemFields
BY DEF Trunk, BookTrunk

\* The request can be worked on by the book task.
Sound(r) == /\ r.rule \in DOMAIN BookTrunk
            /\ r.rule = "book detail" => "book_name" \in r.temp

OfBooks(i) == /\ i \in DOMAIN seeds
              /\ seeds[i].Name = "douban_book_list"
              /\ seeds[i].Rule = "book"

\* By the phases of the main goroutine.
Prepared ==
    /\ pc \in {"init", "parse", "seed", "run"}
    /\ pc = "init" => Hash = <<>>
    /\ pc # "init" => /\ DOMAIN Hash = {"", "douban_book_list"}
                      /\ Hash[""] = "js" /\ Hash["douban_book_list"] = "book"
    /\ pc = "seed" => seeds = [i \in DOMAIN config |-> Seed(config[i])]
    /\ pc # "run" => open = {} /\ out = {} /\ workers = WorkCount

Walking ==
    /\ \A r \in open : Sound(r) /\ OfBooks(r.seed)
    /\ \A cell \in out : OfBooks(cell.seed) /\ cell.rule = "book detail" /\ cell.data = Extracted

\* The requests that take a worker down.
Doomed == {r \in open : r.seed \in Broken}

\* What such requests cost, those included that are still to come.
Costs ==
    /\ IsFiniteSet(DOMAIN config) /\ IsFiniteSet(DOMAIN seeds)
    /\ IsFiniteSet(Doomed) /\ workers \in Int
    /\ WorkCount - workers + Cardinality(Doomed) <= Cardinality(Broken)

IInv == Prepared /\ Walking /\ Costs

\* What a rule of the book task asks for can be worked on.
LEMMA BookRules ==
  ASSUME NEW r, Sound(r), NEW page \in Page
  PROVE  /\ \A q \in ParseFunc("book", r, page).requests : Sound(q) /\ q.seed = r.seed
         /\ \A cell \in ParseFunc("book", r, page).cells :
               cell.seed = r.seed /\ cell.rule = "book detail" /\ cell.data = Extracted
<1>1. CASE r.rule = "tag"
  <2>1. ParseFunc("book", r, page) = Result(Follow(r, page, "book list", 0, {}), {})
    BY <1>1 DEF ParseFunc, ParseTag
  <2>2. ASSUME NEW q \in Follow(r, page, "book list", 0, {})
        PROVE  Sound(q) /\ q.seed = r.seed
    <3>1. PICK u \in page.links :
             q = [seed |-> r.seed, url |-> u, depth |-> r.depth + 1, priority |-> 0,
                  rule |-> "book list", temp |-> {}]
      BY DEF Follow
    <3> QED BY <3>1, Trunks DEF Sound
  <2>3. /\ ParseFunc("book", r, page).requests = Follow(r, page, "book list", 0, {})
        /\ ParseFunc("book", r, page).cells = {}
    <3> DEFINE followed == Follow(r, page, "book list", 0, {})
               result == ParseFunc("book", r, page)
    <3>1. result = Result(followed, {})
      BY <2>1
    <3> HIDE DEF followed, result
    <3>2. result.requests = followed /\ result.cells = {}
      BY <3>1 DEF Result
    <3> QED BY <3>2 DEF followed, result
  <2> QED BY <2>2, <2>3
<1>2. CASE r.rule = "book list"
  <2>1. ParseFunc("book", r, page)
           = Result(Follow(r, page, "book detail", 100, {"book_name"}), {})
    BY <1>2 DEF ParseFunc, ParseBookList
  <2>2. ASSUME NEW q \in Follow(r, page, "book detail", 100, {"book_name"})
        PROVE  Sound(q) /\ q.seed = r.seed
    <3>1. PICK u \in page.links :
             q = [seed |-> r.seed, url |-> u, depth |-> r.depth + 1, priority |-> 100,
                  rule |-> "book detail", temp |-> {"book_name"}]
      BY DEF Follow
    <3>2. q.seed = r.seed /\ q.rule = "book detail" /\ q.temp = {"book_name"}
      BY <3>1
    <3> QED BY <3>2, Trunks DEF Sound
  <2>3. /\ ParseFunc("book", r, page).requests
              = Follow(r, page, "book detail", 100, {"book_name"})
        /\ ParseFunc("book", r, page).cells = {}
    <3> DEFINE followed == Follow(r, page, "book detail", 100, {"book_name"})
               result == ParseFunc("book", r, page)
    <3>1. result = Result(followed, {})
      BY <2>1
    <3> HIDE DEF followed, result
    <3>2. result.requests = followed /\ result.cells = {}
      BY <3>1 DEF Result
    <3> QED BY <3>2 DEF followed, result
  <2> QED BY <2>2, <2>3
<1>3. CASE r.rule = "book detail"
  <2>1. ParseFunc("book", r, page) = Result({}, {Output(r, Extracted)})
    BY <1>3 DEF ParseFunc, ParseBookDetail
  <2>2. /\ ParseFunc("book", r, page).requests = {}
        /\ ParseFunc("book", r, page).cells = {Output(r, Extracted)}
    BY <2>1 DEF Result
  <2>3. /\ Output(r, Extracted).seed = r.seed
        /\ Output(r, Extracted).rule = "book detail"
        /\ Output(r, Extracted).data = Extracted
    BY <1>3 DEF Output
  <2> QED BY <2>2, <2>3
<1> QED BY <1>1, <1>2, <1>3, Trunks DEF Sound

\* The broken tasks are finitely many, as the configured ones are.
LEMMA BrokenFinite ==
  ASSUME IsFiniteSet(DOMAIN seeds)
  PROVE  IsFiniteSet(Broken) /\ Cardinality(Broken) \in Nat
<1>1. Broken \in SUBSET DOMAIN seeds
  BY DEF Broken
<1> QED BY <1>1, FS_Subset, FS_CardinalityType

\* Nothing costs anything before a request is pushed.
LEMMA CostsNothing ==
  ASSUME IsFiniteSet(DOMAIN config), IsFiniteSet(DOMAIN seeds), open = {}, workers = WorkCount
  PROVE  Costs
<1>1. Doomed = {}
  BY DEF Doomed
<1>2. IsFiniteSet(Doomed) /\ Cardinality(Doomed) = 0
  BY <1>1, FS_EmptySet
<1> QED BY <1>2, BrokenFinite, TasksAssumption DEF Costs

\* No more of them, and nobody is lost.
LEMMA CostsFewer ==
  ASSUME Costs, UNCHANGED <<config, seeds, workers>>, Doomed' \subseteq Doomed
  PROVE  Costs'
<1>1. Doomed' \in SUBSET Doomed /\ Broken' = Broken
  BY DEF Broken
<1>2. IsFiniteSet(Doomed') /\ Cardinality(Doomed') <= Cardinality(Doomed)
  BY <1>1, FS_Subset DEF Costs
<1>3. Cardinality(Doomed) \in Nat /\ Cardinality(Doomed') \in Nat /\ Cardinality(Broken) \in Nat
  BY <1>2, FS_CardinalityType, BrokenFinite DEF Costs
<1> QED BY <1>1, <1>2, <1>3, TasksAssumption DEF Costs

-----------------------------------------------------------------------------
\* The store holds the book task, and the group task of the scripts.
LEMMA RegisterSound ==
  ASSUME IInv, Register
  PROVE  IInv'
<1>1. pc = "init" /\ pc' = "parse" /\ Hash = <<>> /\ open = {} /\ out = {} /\ workers = WorkCount
  BY DEF IInv, Prepared, Register
<1>2. UNCHANGED <<open, out, workers, seeds, config>>
  BY DEF Register, walkVars
<1>3. /\ DOMAIN Hash' = {"", "douban_book_list"}
      /\ Hash'[""] = "js" /\ Hash'["douban_book_list"] = "book"
  <2> DEFINE one == Add(Hash, Name["group"], "group")
             two == Add(one, Name["book"], "book")
  <2>0. Name["group"] = "" /\ Name["book"] = "douban_book_list"
    BY DEF Name, Nameless
  <2>1. DOMAIN one = {""}
    <3>1. DOMAIN Hash = {}
      BY <1>1
    <3> QED BY <2>0, <3>1 DEF Add
  <2>2. DOMAIN two = {"", "douban_book_list"} /\ two["douban_book_list"] = "book"
    BY <2>0, <2>1 DEF Add
  <2>3. Hash' = Add(two, "", "js")
    BY DEF Register, AddJSTask, Nameless
  <2> HIDE DEF two
  <2> QED BY <2>2, <2>3 DEF Add
<1>4. Prepared'
  BY <1>1, <1>2, <1>3 DEF Prepared
<1>5. Walking'
  BY <1>1, <1>2 DEF Walking
<1>6. Costs'
  <2>1. Doomed' \subseteq Doomed
    BY <1>1, <1>2 DEF Doomed
  <2> QED BY <1>2, <2>1, CostsFewer DEF IInv
<1> QED BY <1>4, <1>5, <1>6 DEF IInv

\* Nothing is asked for before the seeds are scheduled.
LEMMA ParseTaskConfigSound ==
  ASSUME IInv, ParseTaskConfig
  PROVE  IInv'
<1>1. pc = "parse" /\ open = {} /\ out = {} /\ workers = WorkCount
  BY DEF IInv, Prepared, ParseTaskConfig
<1>2. UNCHANGED <<open, out, workers, Hash, config>>
  BY DEF ParseTaskConfig, walkVars
<1>3. Prepared'
  BY <1>1, <1>2 DEF IInv, Prepared, ParseTaskConfig
<1>4. Walking'
  BY <1>1, <1>2 DEF Walking
<1>5. Costs'
  <2>1. IsFiniteSet(DOMAIN config)' /\ IsFiniteSet(DOMAIN seeds)'
    <3>1. IsFiniteSet(DOMAIN config) /\ IsFiniteSet(DOMAIN seeds) /\ config' = config
      BY <1>2 DEF IInv, Costs
    <3>2. DOMAIN seeds' = DOMAIN seeds \/ DOMAIN seeds' = DOMAIN config
      BY DEF ParseTaskConfig
    <3> QED BY <3>1, <3>2
  <2>2. open' = {} /\ workers' = WorkCount
    BY <1>1, <1>2
  <2>3. (IsFiniteSet(DOMAIN config) /\ IsFiniteSet(DOMAIN seeds) /\ open = {} /\ workers = WorkCount
           => Costs)'
    BY CostsNothing, PTL
  <2> QED BY <2>1, <2>2, <2>3
<1> QED BY <1>3, <1>4, <1>5 DEF IInv

\* The requests of the roots are the book task's: the scripts ask for none.
LEMMA ScheduleSound ==
  ASSUME IInv, Schedule
  PROVE  IInv'
<1>1. /\ pc = "seed" /\ pc' = "run"
      /\ seeds = [i \in DOMAIN config |-> Seed(config[i])]
      /\ out = {} /\ workers = WorkCount
      /\ DOMAIN Hash = {"", "douban_book_list"}
      /\ Hash[""] = "js" /\ Hash["douban_book_list"] = "book"
  BY DEF IInv, Prepared, Schedule
<1>2. UNCHANGED <<Hash, config, out, workers>>
  BY DEF Schedule
<1>3. Prepared'
  BY <1>1, <1>2 DEF Prepared
<1>4. Root("js") = {}
  BY DEF Root, AddJsReqs, JSRootScript
<1>5. ASSUME NEW i \in DOMAIN seeds, seeds[i].Name \in DOMAIN Hash,
             NEW r \in Root(Hash[seeds[i].Name])
      PROVE  Sound(Seeded(i, r)) /\ OfBooks(i)'
  <2>1. seeds[i].Name = "douban_book_list"
    BY <1>1, <1>4, <1>5
  <2>2. seeds'[i] = [seeds[i] EXCEPT !.Rule = "book"]
    BY <1>1, <1>5, <2>1 DEF Schedule
  <2>3. seeds[i] = Seed(config[i])
    BY <1>1
  <2>4. seeds'[i].Name = "douban_book_list" /\ seeds'[i].Rule = "book"
    BY <2>1, <2>2, <2>3 DEF Seed, NewTask
  <2>5. i \in DOMAIN seeds'
    BY DEF Schedule
  <2>6. r.rule = "tag"
    <3>1. Root("book") = {RootRequest("book.douban.com", "tag")}
      BY DEF Root, BookRoot
    <3>2. r = RootRequest("book.douban.com", "tag")
      BY <1>1, <1>5, <2>1, <3>1
    <3> QED BY <3>2 DEF RootRequest
  <2>7. Seeded(i, r).rule = "tag"
    BY <2>6 DEF Seeded
  <2> QED BY <2>4, <2>5, <2>7, Trunks DEF OfBooks, Sound
<1>6. ASSUME NEW q \in open'
      PROVE  Sound(q) /\ OfBooks(q.seed)'
  <2>1. PICK i \in DOMAIN seeds : /\ seeds[i].Name \in DOMAIN Hash
                                  /\ \E r \in Root(Hash[seeds[i].Name]) : q = Seeded(i, r)
    BY <1>6 DEF Schedule
  <2>2. PICK r \in Root(Hash[seeds[i].Name]) : q = Seeded(i, r)
    BY <2>1
  <2>3. q.seed = i
    BY <2>2 DEF Seeded
  <2> QED BY <1>5, <2>1, <2>2, <2>3
<1>7. Walking'
  <2>1. out' = {}
    BY <1>1, <1>2
  <2>2. (\A q \in open : Sound(q) /\ OfBooks(q.seed))'
    BY <1>6 DEF Sound
  <2>3. (\A cell \in out : OfBooks(cell.seed) /\ cell.rule = "book detail" /\ cell.data = Extracted)'
    BY <2>1
  <2> QED BY <2>2, <2>3 DEF Walking
<1>8. Costs'
  <2> DEFINE seedOf == [q \in Doomed' |-> q.seed]
  <2>1. ASSUME NEW q \in Doomed'
        PROVE  q = Seeded(q.seed, RootRequest("book.douban.com", "tag"))
    <3>1. q \in open'
      BY DEF Doomed
    <3>2. PICK i \in DOMAIN seeds : /\ seeds[i].Name \in DOMAIN Hash
                                    /\ \E r \in Root(Hash[seeds[i].Name]) : q = Seeded(i, r)
      BY <3>1 DEF Schedule
    <3>3. PICK r \in Root(Hash[seeds[i].Name]) : q = Seeded(i, r)
      BY <3>2
    <3>4. Hash[seeds[i].Name] = "book"
      BY <1>1, <1>4, <3>2, <3>3
    <3>5. r = RootRequest("book.douban.com", "tag")
      BY <3>3, <3>4 DEF Root, BookRoot
    <3>6. q.seed = i
      BY <3>3 DEF Seeded
    <3> QED BY <3>3, <3>5, <3>6
  <2>2. \A q \in Doomed' : q.seed \in Broken'
    BY DEF Doomed
  <2>3. seedOf \in [Doomed' -> Broken']
    BY <2>2
  <2>4. \A p, q \in Doomed' : seedOf[p] = seedOf[q] => p = q
    BY <2>1
  <2> HIDE DEF seedOf
  <2>5. seedOf \in Injection(Doomed', Broken')
    BY <2>3, <2>4 DEF Injection, IsInjective
  <2>6. IsFiniteSet(DOMAIN config)' /\ IsFiniteSet(DOMAIN seeds)'
    <3>1. DOMAIN seeds' = DOMAIN seeds /\ config' = config
      BY DEF Schedule
    <3> QED BY <3>1 DEF IInv, Costs
  <2>7. IsFiniteSet(Broken') /\ Cardinality(Broken') \in Nat
    <3>1. Broken' \in SUBSET DOMAIN seeds'
      BY DEF Broken
    <3> QED BY <2>6, <3>1, FS_Subset, FS_CardinalityType
  <2>8. IsFiniteSet(Doomed') /\ Cardinality(Doomed') <= Cardinality(Broken')
    BY <2>5, <2>7, FS_Injection
  <2>9. workers' = WorkCount /\ WorkCount \in Nat /\ Cardinality(Doomed') \in Nat
    BY <1>1, <1>2, <2>8, FS_CardinalityType, TasksAssumption
  <2> QED BY <2>6, <2>7, <2>8, <2>9 DEF Costs
<1> QED BY <1>3, <1>7, <1>8 DEF IInv

\* A worker that panics had no limits or no fetcher, and its request is gone.
LEMMA WorkSound ==
  ASSUME IInv, Work
  PROVE  IInv'
<1>1. PICK r \in open : \/ Refuse(r) \/ Panic(r) \/ Fail(r)
                        \/ \E page \in Page : Parse(r, page)
  BY DEF Work
<1>2. /\ pc = "run" /\ Sound(r) /\ OfBooks(r.seed)
      /\ UNCHANGED <<Hash, config, pc, seeds>>
  BY <1>1 DEF IInv, Walking, Takes, Refuse, Panic, Fail, Parse
<1>3. Prepared'
  BY <1>2 DEF IInv, Prepared
<1>4. CASE Refuse(r) \/ Fail(r)
  <2>1. open' \subseteq open /\ out' = out /\ workers' = workers
    BY <1>4 DEF Refuse, Fail
  <2>2. Walking'
    BY <1>2, <2>1 DEF IInv, Walking, OfBooks, Sound
  <2>3. Doomed' \subseteq Doomed
    BY <1>2, <2>1 DEF Doomed, Broken
  <2>4. Costs'
    BY <1>2, <2>1, <2>3, CostsFewer DEF IInv
  <2> QED BY <1>3, <2>2, <2>4 DEF IInv
<1>5. CASE Panic(r)
  <2>1. open' = open \ {r} /\ out' = out /\ workers' = workers - 1
    BY <1>5 DEF Panic
  <2>2. Walking'
    BY <1>2, <2>1 DEF IInv, Walking, OfBooks, Sound
  <2>3. ~RulePanics(r)
    BY <1>2, Trunks DEF RulePanics, ParsePanics, Sound, OfBooks
  <2>4. FetchPanics(r)
    BY <1>5, <2>3 DEF Panic
  <2>5. r \in Doomed
    BY <1>2, <2>4 DEF Doomed, Broken, FetchPanics, OfBooks
  <2>6. Doomed' = Doomed \ {r} /\ Broken' = Broken
    BY <1>2, <2>1 DEF Doomed, Broken
  <2>7. IsFiniteSet(Doomed') /\ Cardinality(Doomed') = Cardinality(Doomed) - 1
    BY <2>5, <2>6, FS_RemoveElement DEF IInv, Costs
  <2>8. Cardinality(Doomed) \in Nat /\ Cardinality(Broken) \in Nat
    BY FS_CardinalityType, BrokenFinite DEF IInv, Costs
  <2>9. Costs'
    BY <1>2, <2>1, <2>6, <2>7, <2>8, TasksAssumption DEF IInv, Costs
  <2> QED BY <1>3, <2>2, <2>9 DEF IInv
<1>6. ASSUME NEW page \in Page, Parse(r, page)
      PROVE  IInv'
  <2> DEFINE result == ParseFunc("book", r, page)
  <2>1. /\ open' = (open \ {r}) \cup result.requests
        /\ out' = out \cup result.cells
        /\ workers' = workers
    BY <1>2, <1>6 DEF Parse, OfBooks
  <2>2. /\ \A q \in result.requests : Sound(q) /\ q.seed = r.seed
        /\ \A cell \in result.cells :
              cell.seed = r.seed /\ cell.rule = "book detail" /\ cell.data = Extracted
    BY <1>2, BookRules
  <2> HIDE DEF result
  <2>3. \A q \in open' : Sound(q) /\ OfBooks(q.seed)
    BY <1>2, <2>1, <2>2 DEF IInv, Walking
  <2>4. \A cell \in out' : OfBooks(cell.seed) /\ cell.rule = "book detail" /\ cell.data = Extracted
    BY <1>2, <2>1, <2>2 DEF IInv, Walking
  <2>5. \A i : OfBooks(i)' <=> OfBooks(i)
    BY <1>2 DEF OfBooks
  <2>6. Walking'
    BY <2>3, <2>4, <2>5 DEF Walking, Sound
  <2>7. r.seed \notin Broken /\ Broken' = Broken
    BY <1>2, <1>6 DEF Parse, FetchPanics, Broken
  <2>8. Doomed' \subseteq Doomed
    BY <2>1, <2>2, <2>7 DEF Doomed
  <2>9. Costs'
    BY <1>2, <2>1, <2>8, CostsFewer DEF IInv
  <2> QED BY <1>3, <2>6, <2>9 DEF IInv
<1> QED BY <1>1, <1>4, <1>5, <1>6

\* HandleResult takes a cell, and may end the process.
LEMMA HandleResultSound ==
  ASSUME IInv, NEW cell \in out, HandleResult(cell)
  PROVE  IInv'
<1>1. /\ UNCHANGED <<Hash, config, pc, seeds, open, workers>>
      /\ out' \subseteq out
  BY DEF HandleResult
<1>2. Costs'
  <2>1. Doomed' \subseteq Doomed
    BY <1>1 DEF Doomed, Broken
  <2> QED BY <1>1, <2>1, CostsFewer DEF IInv
<1> QED
  BY <1>1, <1>2 DEF IInv, Prepared, Walking, OfBooks, Sound

\* The inductive invariant holds of every behaviour.
LEMMA Always == Spec => []IInv
<1>1. Init => IInv
  <2> SUFFICES ASSUME Init PROVE IInv
    OBVIOUS
  <2>1. Prepared /\ Walking
    BY DEF Init, Prepared, Walking
  <2>2. IsFiniteSet(DOMAIN config)
    <3>1. PICK n \in 1 .. MaxSeeds : config \in [1 .. n -> Configs]
      BY DEF Init, Config
    <3>2. DOMAIN config = 1 .. n /\ n \in Int
      BY <3>1, TasksAssumption
    <3> QED BY <3>2, FS_Interval
  <2>3. IsFiniteSet(DOMAIN seeds)
    <3>1. DOMAIN <<>> = {}
      OBVIOUS
    <3> QED BY <3>1, FS_EmptySet DEF Init
  <2>4. Costs
    BY <2>2, <2>3, CostsNothing DEF Init
  <2> QED BY <2>1, <2>4 DEF IInv
<1>2. IInv /\ [Next]_vars => IInv'
  <2> SUFFICES ASSUME IInv, [Next]_vars PROVE IInv'
    OBVIOUS
  <2>1. CASE UNCHANGED vars
    BY <2>1 DEF vars, walkVars, IInv, Prepared, Walking, Costs, Doomed, Broken, OfBooks, Sound
  <2> QED
    BY <2>1, RegisterSound, ParseTaskConfigSound, ScheduleSound, WorkSound, HandleResultSound
       DEF Next
<1> QED BY <1>1, <1>2, PTL DEF Spec

\* Whatever is configured and whatever pages hold, no more workers are lost than
\* there are tasks without limits or fetcher.
THEOREM WorkersGoOn == Spec => []WorkersLast
<1>1. IInv => WorkersLast
  <2> SUFFICES ASSUME IInv PROVE WorkersLast
    OBVIOUS
  <2>1. Cardinality(Doomed) \in Nat /\ Cardinality(Broken) \in Nat
    BY FS_CardinalityType, BrokenFinite DEF IInv, Costs
  <2> QED BY <2>1, TasksAssumption DEF IInv, Costs, WorkersLast
<1> QED BY <1>1, Always, PTL

\* What is extracted has the columns of the table that is made for it.
THEOREM CellsFit == Spec => []FieldsMatch
<1>1. IInv => FieldsMatch
  <2> SUFFICES ASSUME IInv, NEW cell \in out
               PROVE  cell.data = GetFields(seeds[cell.seed].Name, cell.rule)
    BY DEF FieldsMatch
  <2>1. /\ OfBooks(cell.seed) /\ cell.rule = "book detail" /\ cell.data = Extracted
        /\ Hash["douban_book_list"] = "book"
    BY DEF IInv, Walking, Prepared
  <2> QED BY <2>1, Trunks DEF GetFields, OfBooks, ItemFields, Extracted
<1> QED BY <1>1, Always, PTL

-----------------------------------------------------------------------------
\* The requests of Follow name the rule they are given.
LEMMA FollowedRule ==
  ASSUME NEW r, NEW page \in Page, NEW rule, NEW priority, NEW temp,
         NEW q \in Follow(r, page, rule, priority, temp)
  PROVE  q.rule = rule
<1>1. PICK u \in page.links :
         q = [seed |-> r.seed, url |-> u, depth |-> r.depth + 1, priority |-> priority,
              rule |-> rule, temp |-> temp]
  BY DEF Follow
<1> QED BY <1>1

\* The parts of a ParseResult.
LEMMA ResultParts ==
  ASSUME NEW requests, NEW cells
  PROVE  Result(requests, cells).requests = requests /\ Result(requests, cells).cells = cells
BY DEF Result

\* A rule of a registered task asks for rules of that task only.
LEMMA ClosedRule ==
  ASSUME NEW t \in {"group", "book", "js"}, NEW rule \in DOMAIN Trunk(t), NEW page \in Page,
         NEW r, r.rule = rule, NEW q \in ParseFunc(t, r, page).requests
  PROVE  q.rule \in DOMAIN Trunk(t)
<1>1. CASE t = "book"
  <2>1. DOMAIN Trunk(t) = {"tag", "book list", "book detail"}
    BY <1>1, Trunks
  <2>2. CASE rule = "tag"
    <3>1. ParseFunc(t, r, page) = Result(Follow(r, page, "book list", 0, {}), {})
      BY <1>1, <2>2 DEF ParseFunc, ParseTag
    <3>2. q \in Follow(r, page, "book list", 0, {})
      BY <3>1, ResultParts
    <3> QED BY <2>1, <3>2, FollowedRule
  <2>3. CASE rule = "book list"
    <3>1. ParseFunc(t, r, page)
             = Result(Follow(r, page, "book detail", 100, {"book_name"}), {})
      BY <1>1, <2>3 DEF ParseFunc, ParseBookList
    <3>2. q \in Follow(r, page, "book detail", 100, {"book_name"})
      BY <3>1, ResultParts
    <3> QED BY <2>1, <3>2, FollowedRule
  <2>4. CASE rule = "book detail"
    <3>1. ParseFunc(t, r, page) = Result({}, {Output(r, Extracted)})
      BY <1>1, <2>4 DEF ParseFunc, ParseBookDetail
    <3> QED BY <3>1, ResultParts
  <2> QED BY <2>1, <2>2, <2>3, <2>4
<1>2. CASE t = "group"
  <2>1. DOMAIN Trunk(t) = {"topics", "sun room"}
    BY <1>2 DEF Trunk, GroupTrunk
  <2>2. CASE rule = "topics"
    <3>1. ParseFunc(t, r, page) = Result(Follow(r, page, "sun room", 0, {}), {})
      BY <1>2, <2>2 DEF ParseFunc, ParseURL
    <3>2. q \in Follow(r, page, "sun room", 0, {})
      BY <3>1, ResultParts
    <3> QED BY <2>1, <3>2, FollowedRule
  <2>3. CASE rule = "sun room"
    <3>1. ParseFunc(t, r, page) = Result({}, {})
      BY <1>2, <2>3 DEF ParseFunc, GetSunRoom
    <3> QED BY <3>1, ResultParts
  <2> QED BY <2>1, <2>2, <2>3
<1>3. CASE t = "js"
  <2>1. DOMAIN Trunk(t) = {"topics", "sun room"}
    BY <1>3 DEF Trunk, JSTrunk
  <2>2. CASE rule = "topics"
    <3>1. ParseFunc(t, r, page) = Result(Follow(r, page, "sun room", 0, {}), {})
      BY <1>3, <2>2 DEF ParseFunc, JSParse, ParseJSReg
    <3>2. q \in Follow(r, page, "sun room", 0, {})
      BY <3>1, ResultParts
    <3> QED BY <2>1, <3>2, FollowedRule
  <2>3. CASE rule = "sun room"
    <3>1. ParseFunc(t, r, page) = Result({}, {})
      BY <1>3, <2>3 DEF ParseFunc, JSParse, OutputJS
    <3> QED BY <3>1, ResultParts
  <2> QED BY <2>1, <2>2, <2>3
<1> QED BY <1>1, <1>2, <1>3

\* The roots of a registered task ask for its rules; the scripts have none.
LEMMA ClosedRoot ==
  ASSUME NEW t \in {"group", "book", "js"}, NEW r \in Root(t)
  PROVE  r.rule \in DOMAIN Trunk(t)
<1>1. CASE t = "book"
  <2>1. r = RootRequest("book.douban.com", "tag")
    BY <1>1 DEF Root, BookRoot
  <2>2. r.rule = "tag"
    BY <2>1 DEF RootRequest
  <2> QED BY <1>1, <2>2, Trunks
<1>2. CASE t = "group"
  <2>1. r = RootRequest("group/szsh?start=0", "topics")
    BY <1>2 DEF Root, GroupRoot
  <2>2. r.rule = "topics"
    BY <2>1 DEF RootRequest
  <2> QED BY <1>2, <2>2 DEF Trunk, GroupTrunk
<1>3. CASE t = "js"
  BY <1>3 DEF Root, AddJsReqs, JSRootScript
<1> QED BY <1>1, <1>2, <1>3

\* What is registered does not change once it is.
Listed == \/ pc = "init" /\ list = <<>>
          \/ pc # "init" /\ list = <<"group", "book", "js">>

\* Only Register adds to the list.
LEMMA ListedStep == Listed /\ [Next]_vars => Listed'
<1> SUFFICES ASSUME Listed, [Next]_vars PROVE Listed'
  OBVIOUS
<1>1. CASE Register
  BY <1>1 DEF Register, Listed
<1>2. CASE ParseTaskConfig
  BY <1>2 DEF ParseTaskConfig, Listed
<1>3. CASE Schedule
  BY <1>3 DEF Schedule, Listed
<1>4. CASE Work
  BY <1>4 DEF Work, Refuse, Panic, Fail, Parse, Listed
<1>5. ASSUME NEW cell \in out, HandleResult(cell) PROVE Listed'
  BY <1>5 DEF HandleResult, Listed
<1>6. CASE UNCHANGED vars
  BY <1>6 DEF vars, Listed
<1> QED BY <1>1, <1>2, <1>3, <1>4, <1>5, <1>6 DEF Next

\* The list has the three tasks of the init function.
LEMMA ListedTasks ==
  ASSUME Listed, NEW i \in DOMAIN list PROVE list[i] \in {"group", "book", "js"}
<1>1. CASE list = <<>>
  BY <1>1
<1>2. CASE list = <<"group", "book", "js">>
  <2>1. i \in 1 .. 3
    BY <1>2
  <2> QED BY <1>2, <2>1
<1> QED BY <1>1, <1>2 DEF Listed

\* The rule trees are closed, whatever a page holds.
THEOREM RulesStayInside == Spec => []RulesClosed
<1>1. Init => Listed
  BY DEF Init, Listed
<1>2. Listed => RulesClosed
  <2> SUFFICES ASSUME Listed, NEW i \in DOMAIN list
               PROVE  /\ \A r \in Root(list[i]) : r.rule \in DOMAIN Trunk(list[i])
                      /\ \A rule \in DOMAIN Trunk(list[i]), page \in Page :
                            LET r == Seeded(1, RootRequest("", rule)) IN
                            \A q \in ParseFunc(list[i], r, page).requests :
                               q.rule \in DOMAIN Trunk(list[i])
    BY DEF RulesClosed
  <2>1. list[i] \in {"group", "book", "js"}
    BY ListedTasks
  <2>2. \A rule : Seeded(1, RootRequest("", rule)).rule = rule
    BY DEF Seeded, RootRequest
  <2> QED BY <2>1, <2>2, ClosedRoot, ClosedRule
<1> QED BY <1>1, <1>2, ListedStep, PTL DEF Spec

-----------------------------------------------------------------------------
\* A task that can be waited for and gone down in.
SeedOK(s) == /\ {s.WaitTime, s.MaxDepth} \subseteq Nat \ {0}
             /\ s.Rule \in {"group", "book", "js", "none"}

\* What TypeOK needs beside IInv and Listed.
Typed ==
    /\ config \in Config
    /\ \A i \in DOMAIN seeds : SeedOK(seeds[i])
    /\ open \subseteq Request
    /\ Visited \subseteq URL
    /\ failures \subseteq URL
    /\ IsFiniteSet(out)
    /\ workers \in 0 .. WorkCount
    /\ dead \in BOOLEAN

\* What ParseTaskConfig makes of a configured task has its defaults.
LEMMA SeedTyped ==
  ASSUME NEW c \in TaskConfig
  PROVE  SeedOK(Seed(c))
<1>1. c.WaitTime \in Nat /\ c.MaxDepth \in Nat
  BY DEF TaskConfig
<1>2. OrElse(c.WaitTime, 5) \in Nat \ {0} /\ OrElse(c.MaxDepth, 5) \in Nat \ {0}
  BY <1>1 DEF OrElse
<1>3. /\ Seed(c).WaitTime = OrElse(c.WaitTime, 5)
      /\ Seed(c).MaxDepth = OrElse(c.MaxDepth, 5)
      /\ Seed(c).Rule = "none"
  BY DEF Seed, NewTask
<1> QED BY <1>2, <1>3 DEF SeedOK

\* Init has the types.
LEMMA TypedInit == Init => Typed
<1> SUFFICES ASSUME Init PROVE Typed
  OBVIOUS
<1>1. IsFiniteSet(out)
  BY FS_EmptySet DEF Init
<1>2. DOMAIN seeds = {}
  <2>1. DOMAIN <<>> = {}
    OBVIOUS
  <2> QED BY <2>1 DEF Init
<1>3. workers \in 0 .. WorkCount
  BY TasksAssumption DEF Init
<1> QED BY <1>1, <1>2, <1>3 DEF Init, Typed

\* What the book task asks for is typed.
LEMMA BookTyped ==
  ASSUME NEW r \in Request, Sound(r), NEW page \in Page
  PROVE  /\ ParseFunc("book", r, page).requests \subseteq Request
         /\ IsFiniteSet(ParseFunc("book", r, page).cells)
<1>1. ASSUME NEW rule \in DOMAIN BookTrunk, NEW priority \in {0, 100}, NEW temp \in SUBSET {"book_name"},
             NEW q \in Follow(r, page, rule, priority, temp)
      PROVE  q \in Request
  <2>1. PICK u \in page.links :
           q = [seed |-> r.seed, url |-> u, depth |-> r.depth + 1, priority |-> priority,
                rule |-> rule, temp |-> temp]
    BY DEF Follow
  <2>2. r.seed \in DOMAIN seeds /\ r.depth \in Nat
    BY DEF Request
  <2>3. r.depth + 1 \in Nat /\ priority \in {0, 1, 100}
    BY <2>2
  <2>4. u \in URL
    BY DEF URL, Page
  <2> QED BY <2>1, <2>2, <2>3, <2>4 DEF Request
<1>2. IsFiniteSet({}) /\ \A x : IsFiniteSet({x})
  BY FS_EmptySet, FS_Singleton
<1>3. CASE r.rule = "tag"
  <2>1. ParseFunc("book", r, page) = Result(Follow(r, page, "book list", 0, {}), {})
    BY <1>3 DEF ParseFunc, ParseTag
  <2>2. /\ ParseFunc("book", r, page).requests = Follow(r, page, "book list", 0, {})
        /\ ParseFunc("book", r, page).cells = {}
    BY <2>1, ResultParts, Zenon
  <2>3. "book list" \in DOMAIN BookTrunk /\ 0 \in {0, 100} /\ {} \in SUBSET {"book_name"}
    BY Trunks
  <2>4. \A q \in Follow(r, page, "book list", 0, {}) : q \in Request
    BY <1>1, <2>3, Zenon
  <2> QED BY <1>2, <2>2, <2>4
<1>4. CASE r.rule = "book list"
  <2>1. ParseFunc("book", r, page)
           = Result(Follow(r, page, "book detail", 100, {"book_name"}), {})
    BY <1>4 DEF ParseFunc, ParseBookList
  <2>2. /\ ParseFunc("book", r, page).requests
              = Follow(r, page, "book detail", 100, {"book_name"})
        /\ ParseFunc("book", r, page).cells = {}
    <3> DEFINE followed == Follow(r, page, "book detail", 100, {"book_name"})
               result == ParseFunc("book", r, page)
    <3>1. result = Result(followed, {})
      BY <2>1
    <3> HIDE DEF followed, result
    <3>2. result.requests = followed /\ result.cells = {}
      BY <3>1, ResultParts
    <3> QED BY <3>2 DEF followed, result
  <2>3. "book detail" \in DOMAIN BookTrunk /\ 100 \in {0, 100} /\ {"book_name"} \in SUBSET {"book_name"}
    BY Trunks
  <2>4. \A q \in Follow(r, page, "book detail", 100, {"book_name"}) : q \in Request
    BY <1>1, <2>3, Zenon
  <2> QED BY <1>2, <2>2, <2>4
<1>5. CASE r.rule = "book detail"
  <2>1. ParseFunc("book", r, page) = Result({}, {Output(r, Extracted)})
    BY <1>5 DEF ParseFunc, ParseBookDetail
  <2>2. /\ ParseFunc("book", r, page).requests = {}
        /\ ParseFunc("book", r, page).cells = {Output(r, Extracted)}
    BY <2>1, ResultParts, Zenon
  <2> QED BY <1>2, <2>2
<1> QED BY <1>3, <1>4, <1>5, Trunks DEF Sound

\* The seeds are those of the configuration.
LEMMA ParseTaskConfigTyped ==
  ASSUME IInv, Typed, ParseTaskConfig
  PROVE  Typed'
<1>1. UNCHANGED <<config, open, Visited, failures, out, workers>>
  BY DEF ParseTaskConfig, walkVars
<1>2. dead' \in BOOLEAN
  BY DEF ParseTaskConfig, Typed
<1>3. open = {}
  BY DEF IInv, Prepared, ParseTaskConfig
<1>4. seeds' = seeds \/ seeds' = [i \in DOMAIN config |-> Seed(config[i])]
  BY DEF ParseTaskConfig
<1>5. \A i \in DOMAIN config : config[i] \in TaskConfig
  <2>1. PICK n \in 1 .. MaxSeeds : config \in [1 .. n -> Configs]
    BY DEF Typed, Config
  <2> QED BY <2>1, TasksAssumption
<1>6. \A i \in DOMAIN seeds' : SeedOK(seeds'[i])
  <2>1. CASE seeds' = seeds
    BY <2>1 DEF Typed
  <2>2. CASE seeds' = [i \in DOMAIN config |-> Seed(config[i])]
    BY <1>5, <2>2, SeedTyped
  <2> QED BY <1>4, <2>1, <2>2
<1>7. open' \subseteq Request'
  BY <1>1, <1>3
<1> QED BY <1>1, <1>2, <1>6, <1>7 DEF Typed, Config, SeedOK

\* The seeds get a registered Rule, and the root of the books is pushed.
LEMMA ScheduleTyped ==
  ASSUME IInv, IInv', Typed, Schedule
  PROVE  Typed'
<1>1. UNCHANGED <<config, Visited, failures, out, workers, dead>> /\ DOMAIN seeds' = DOMAIN seeds
  BY DEF Schedule
<1>2. /\ DOMAIN Hash = {"", "douban_book_list"}
      /\ Hash[""] = "js" /\ Hash["douban_book_list"] = "book"
  BY DEF IInv, Prepared, Schedule
<1>3. ASSUME NEW i \in DOMAIN seeds PROVE SeedOK(seeds'[i])
  <2>1. SeedOK(seeds[i])
    BY DEF Typed
  <2>2. CASE seeds[i].Name \in DOMAIN Hash
    <3>1. seeds'[i] = [seeds[i] EXCEPT !.Rule = Hash[seeds[i].Name]]
      BY <2>2 DEF Schedule
    <3>2. Hash[seeds[i].Name] \in {"book", "js"}
      BY <1>2, <2>2
    <3>3. seeds[i] = Seed(config[i])
      BY DEF IInv, Prepared, Schedule
    <3>4. /\ seeds'[i].Rule = Hash[seeds[i].Name]
          /\ seeds'[i].WaitTime = seeds[i].WaitTime
          /\ seeds'[i].MaxDepth = seeds[i].MaxDepth
      BY <3>1, <3>3 DEF Seed, NewTask
    <3> QED BY <2>1, <3>2, <3>4 DEF SeedOK
  <2>3. CASE seeds[i].Name \notin DOMAIN Hash
    <3>1. seeds'[i] = seeds[i]
      BY <2>3 DEF Schedule
    <3> QED BY <2>1, <3>1
  <2> QED BY <2>2, <2>3
<1>4. ASSUME NEW q \in open' PROVE q \in Request'
  <2>1. PICK i \in DOMAIN seeds : /\ seeds[i].Name \in DOMAIN Hash
                                  /\ \E r \in Root(Hash[seeds[i].Name]) : q = Seeded(i, r)
    BY <1>4 DEF Schedule
  <2>2. PICK r \in Root(Hash[seeds[i].Name]) : q = Seeded(i, r)
    BY <2>1
  <2>3. Root("js") = {} /\ Root("book") = {RootRequest("book.douban.com", "tag")}
    BY DEF Root, AddJsReqs, JSRootScript, BookRoot
  <2>4. r = RootRequest("book.douban.com", "tag")
    BY <1>2, <2>1, <2>2, <2>3
  <2>5. q = [seed |-> i, url |-> "book.douban.com", depth |-> 0, priority |-> 1,
             rule |-> "tag", temp |-> {}]
    BY <2>2, <2>4 DEF Seeded, RootRequest
  <2>6. i \in DOMAIN seeds' /\ 1 \in {0, 1, 100} /\ {} \in SUBSET {"book_name"}
        /\ "tag" \in DOMAIN BookTrunk
    BY <1>1, Trunks
  <2>7. "book.douban.com" \in URL
    <3>1. PICK b \in BookRoot : b.url = "book.douban.com"
      BY DEF BookRoot, RootRequest
    <3> QED BY <3>1 DEF URL
  <2> QED BY <2>5, <2>6, <2>7 DEF Request
<1>5. (\A i \in DOMAIN seeds : SeedOK(seeds[i]))'
  BY <1>1, <1>3 DEF SeedOK
<1>6. open' \subseteq Request'
  BY <1>4
<1> QED BY <1>1, <1>5, <1>6 DEF Typed, Config

\* A request that is worked on leaves typed ones; a worker that is lost was alive.
LEMMA WorkTyped ==
  ASSUME IInv, Typed, Work
  PROVE  Typed'
<1>1. PICK r \in open : \/ Refuse(r) \/ Panic(r) \/ Fail(r)
                        \/ \E page \in Page : Parse(r, page)
  BY DEF Work
<1>2. /\ r \in Request /\ Sound(r) /\ OfBooks(r.seed)
      /\ UNCHANGED <<config, seeds, dead>>
  BY <1>1 DEF IInv, Walking, Typed, Refuse, Panic, Fail, Parse
<1>3. r.url \in URL
  BY <1>2 DEF Request
<1>4. Request' = Request
  BY <1>2 DEF Request
<1>5. Visited' \subseteq URL /\ failures' \subseteq URL
  BY <1>1, <1>3 DEF Refuse, Panic, Fail, Parse, Typed
<1>6. CASE Refuse(r) \/ Fail(r)
  <2>1. open' \subseteq open /\ out' = out /\ workers' = workers
    BY <1>6 DEF Refuse, Fail
  <2> QED BY <1>2, <1>4, <1>5, <2>1 DEF Typed, Config
<1>7. CASE Panic(r)
  <2>1. open' \subseteq open /\ out' = out /\ workers' = workers - 1
    BY <1>7 DEF Panic
  <2>2. workers > 0
    <3>1. Cardinality(out) \in Nat /\ workers \in Nat
      BY FS_CardinalityType, TasksAssumption DEF Typed
    <3>2. Cardinality(out) < workers
      BY <1>7 DEF Panic, Takes
    <3> QED BY <3>1, <3>2
  <2>3. workers' \in 0 .. WorkCount
    BY <2>1, <2>2, TasksAssumption DEF Typed
  <2> QED BY <1>2, <1>4, <1>5, <2>1, <2>3 DEF Typed, Config
<1>8. ASSUME NEW page \in Page, Parse(r, page)
      PROVE  Typed'
  <2> DEFINE result == ParseFunc("book", r, page)
  <2>1. /\ open' = (open \ {r}) \cup result.requests
        /\ out' = out \cup result.cells
        /\ workers' = workers
    BY <1>2, <1>8 DEF Parse, OfBooks
  <2>2. result.requests \subseteq Request /\ IsFiniteSet(result.cells)
    BY <1>2, BookTyped
  <2> HIDE DEF result
  <2>3. open' \subseteq Request
    BY <2>1, <2>2 DEF Typed
  <2>4. IsFiniteSet(out')
    BY <2>1, <2>2, FS_Union DEF Typed
  <2> QED BY <1>2, <1>4, <1>5, <2>1, <2>3, <2>4 DEF Typed, Config
<1> QED BY <1>1, <1>6, <1>7, <1>8

\* Every step keeps the types.
LEMMA TypedStep == IInv /\ IInv' /\ Typed /\ [Next]_vars => Typed'
<1> SUFFICES ASSUME IInv, IInv', Typed, [Next]_vars PROVE Typed'
  OBVIOUS
<1>1. CASE Register
  BY <1>1 DEF Register, walkVars, Typed, Config, Request, SeedOK
<1>2. ASSUME NEW cell \in out, HandleResult(cell) PROVE Typed'
  <2>1. IsFiniteSet(out')
    BY <1>2, FS_RemoveElement DEF HandleResult, Typed
  <2>2. dead' \in BOOLEAN
    BY <1>2 DEF HandleResult, StorageOf
  <2> QED BY <1>2, <2>1, <2>2 DEF HandleResult, Typed, Config, Request, SeedOK
<1>3. CASE UNCHANGED vars
  BY <1>3 DEF vars, walkVars, Typed, Config, Request, SeedOK
<1> QED BY <1>1, <1>2, <1>3, ParseTaskConfigTyped, ScheduleTyped, WorkTyped DEF Next

\* The types hold of every behaviour: whatever is configured, a seed's WaitTime
\* and MaxDepth are not 0, and no more workers are lost than there were.
THEOREM TypeCorrect == Spec => []TypeOK
<1>1. Init => Listed
  BY DEF Init, Listed
<1>2. IInv /\ Listed /\ Typed => TypeOK
  <2> SUFFICES ASSUME IInv, Listed, Typed PROVE TypeOK
    OBVIOUS
  <2>1. DOMAIN Hash \subseteq {Nameless, "douban_book_list"}
        /\ \A name \in DOMAIN Hash : \E i \in DOMAIN list : list[i] = Hash[name]
    <3>1. CASE pc = "init"
      <4>1. DOMAIN Hash = {}
        <5>1. DOMAIN <<>> = {}
          OBVIOUS
        <5> QED BY <3>1, <5>1 DEF IInv, Prepared
      <4> QED BY <4>1
    <3>2. CASE pc # "init"
      <4>1. list = <<"group", "book", "js">>
        BY <3>2 DEF Listed
      <4>2. /\ 2 \in DOMAIN list /\ list[2] = "book"
            /\ 3 \in DOMAIN list /\ list[3] = "js"
        BY <4>1
      <4>3. /\ DOMAIN Hash = {"", "douban_book_list"}
            /\ Hash[""] = "js" /\ Hash["douban_book_list"] = "book"
        BY <3>2 DEF IInv, Prepared
      <4>4. \A name \in DOMAIN Hash : Hash[name] = list[2] \/ Hash[name] = list[3]
        BY <4>2, <4>3
      <4>5. \A name \in DOMAIN Hash : \E i \in DOMAIN list : list[i] = Hash[name]
        BY <4>2, <4>4
      <4>6. DOMAIN Hash \subseteq {Nameless, "douban_book_list"}
        BY <4>3 DEF Nameless
      <4> QED BY <4>5, <4>6
    <3> QED BY <3>1, <3>2
  <2>2. \A i \in DOMAIN list : list[i] \in {"group", "book", "js"}
    BY ListedTasks
  <2>3. pc \in {"init", "parse", "seed", "run"}
        /\ \A cell \in out : cell.seed \in DOMAIN seeds
    BY DEF IInv, Prepared, Walking, OfBooks
  <2> QED BY <2>1, <2>2, <2>3 DEF Typed, SeedOK, TypeOK
<1> QED BY <1>1, <1>2, Always, ListedStep, TypedInit, TypedStep, PTL DEF Spec
=============================================================================
