-------------------------------- MODULE Rules --------------------------------
(***************************************************************************)
(* The crawl tasks compiled into the program: parse/doubanbook, and the    *)
(* group task twice, in Go (parse/doubangroup) and as scripts              *)
(* (parse/doubangroupjs).  Rule names are given in English.                *)
(***************************************************************************)
EXTENDS Integers, FiniteSets

CONSTANT Link        \* the URLs pages link to

\* What the expressions of a rule find in a body.  Whether they find the fields of a
\* book decides nothing: a field that is not found is empty.
Page == [links : SUBSET Link]

\* What the detail rule declares: the columns of its table.
ItemFields == {"title", "author", "pages", "press", "score", "price", "intro"}

\* The ItemFields of the rules, by task.
BookTrunk == [rule \in {"tag", "book list", "book detail"} |->
                IF rule = "book detail" THEN ItemFields ELSE {}]
GroupTrunk == [rule \in {"topics", "sun room"} |-> {}]
JSTrunk == [rule \in {"topics", "sun room"} |-> {}]

\* By registered task, Rule.Trunk: the rules it has.
Trunk(t) == CASE t = "book" -> BookTrunk [] t = "group" -> GroupTrunk [] t = "js" -> JSTrunk

\* A root request; temp is TmpData, the keys that are set.
RootRequest(url, rule) == [url |-> url, depth |-> 0, priority |-> 1, rule |-> rule, temp |-> {}]

BookRoot == {RootRequest("book.douban.com", "tag")}
GroupRoot == {RootRequest("group/szsh?start=0", "topics")}

\* What the script hands to AddJsReqs.
JSRootScript == {[URL |-> "group/szsh?start=25", Priority |-> 1, RuleName |-> "topics"]}

\* One object without a Url, and there are no requests at all.
AddJsReqs(jreqs) ==
    IF \E j \in jreqs : "Url" \notin DOMAIN j THEN {}
    ELSE {[RootRequest(j.Url, j.RuleName) EXCEPT !.priority = j.Priority] : j \in jreqs}

\* By registered task, Rule.Root.
Root(t) == CASE t = "book" -> BookRoot [] t = "group" -> GroupRoot
             [] t = "js" -> AddJsReqs(JSRootScript)

\* A request for each link of the page of r.
Follow(r, page, rule, priority, temp) ==
    {[seed |-> r.seed, url |-> u, depth |-> r.depth + 1, priority |-> priority,
      rule |-> rule, temp |-> temp] : u \in page.links}

\* A ParseResult, without the strings among its items: they are only logged.
Result(requests, cells) == [requests |-> requests, cells |-> cells]

\* Context.Output.
Output(r, data) == [seed |-> r.seed, rule |-> r.rule, url |-> r.url, data |-> data]

\* Context.ParseJSReg and Context.OutputJS.
ParseJSReg(r, page, rule) == Result(Follow(r, page, rule, 0, {}), {})
OutputJS(r, page) == Result({}, {})

ParseTag(r, page) == Result(Follow(r, page, "book list", 0, {}), {})

\* Mutant: the list's next page is followed too, as the page it is on.
ParseBookListPages(r, page) ==
    Result({[r EXCEPT !.url = u] : u \in page.links}
           \cup Follow(r, page, "book detail", 100, {"book_name"}), {})

\* Mutant: the name of the book is not handed on.
ParseBookListNameless(r, page) ==
    Result(Follow(r, page, "book detail", 100, {}), {})

\* The name of the book goes along in TmpData.
ParseBookList(r, page) ==
    Result(Follow(r, page, "book detail", 100, {"book_name"}), {})

\* Mutant: the press is extracted under another name.
ExtractedMisnamed == {"title", "author", "pages", "publisher", "score", "price", "intro"}

\* What ParseBookDetail extracts: the keys of its map, of which each has a value,
\* if an empty one.
Extracted == {"title", "author", "pages", "press", "score", "price", "intro"}

ParseBookDetail(r, page) == Result({}, {Output(r, Extracted)})

\* Mutant: the rule of the topics is misnamed.
ParseURLMisnamed(r, page) == Result(Follow(r, page, "sunroom", 0, {}), {})

ParseURL(r, page) == Result(Follow(r, page, "sun room", 0, {}), {})
GetSunRoom(r, page) == Result({}, {})

\* The scripts of the rules, which AddJSTask turns into ParseFuncs.
JSParse(r, page) == IF r.rule = "topics" THEN ParseJSReg(r, page, "sun room")
                    ELSE OutputJS(r, page)

\* Does ParseFunc panic?  Get is called of the nil TmpData.
ParsePanics(r) == r.rule = "book detail" /\ "book_name" \notin r.temp

\* ParseFunc of the rule of r in registered task t.
ParseFunc(t, r, page) ==
    CASE r.rule = "tag" -> ParseTag(r, page)
      [] r.rule = "book list" -> ParseBookList(r, page)
      [] r.rule = "book detail" -> ParseBookDetail(r, page)
      [] t = "group" /\ r.rule = "topics" -> ParseURL(r, page)
      [] t = "group" /\ r.rule = "sun room" -> GetSunRoom(r, page)
      [] t = "js" -> JSParse(r, page)
=============================================================================
