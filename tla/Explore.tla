------------------------------- MODULE Explore -------------------------------
(***************************************************************************)
(* The pages that look into a case's rows: Events, Mails and Timeline, the *)
(* panel of one entity, and the marks on rows (views/EventsView.tsx,       *)
(* MailsView.tsx, TimelineView.tsx, components/EntityPanel.tsx,            *)
(* RowMarkBar.tsx, StackPanel.tsx, TimeHistogram.tsx, data/rowMarks.ts).   *)
(* A page asks its queries when its filter, its case or the imports        *)
(* change, and stops the ones before; at most MAX_WORKERS run at a time    *)
(* and the others wait in line (data/queryClient.ts).  An answer may be on *)
(* its way when its query is stopped: the page drops it (alive).           *)
(***************************************************************************)
EXTENDS Queries

CONSTANTS
    Books,       \* the cases of the browser
    RowsIn,      \* [Books -> the sequence of its rows, [events, mails]: one more content after each import]
    FoundIn,     \* [Books -> the findings: their rows and entities]
    Entities,    \* the entities a panel is opened for, [kind, value]
    MAX_WORKERS, \* queries that run at a time
    LIMIT_ROWS,  \* rows of a page
    EXPORT_PAGE, EXPORT_MAX, \* rows a page of a timeline export reads, and all of them hold
    FACET_ROWS,  \* values a facet loads
    ENTITY_ROWS, \* rows of a panel
    Facet, Texts, Ranges, Stacked, Added, Searches, Asked, \* what the analyst picks, types and has saved
    MaxActs      \* bound: what the analyst does, the imports and the failures

Lists == {"events", "mails"}
\* what a list is sorted by, beside the time
Sortable == {"user"} \cup ({f.sort.field : f \in Searches} \ {"ts"})

ASSUME CapsAssumption == HARD_CAP \in Nat /\ LIMIT_ROWS \in Nat
ASSUME RowsAssumption ==
    \A k \in Books : /\ Len(RowsIn[k]) \in Nat \ {0}
                     /\ \A n \in 1 .. Len(RowsIn[k]), page \in Lists : IsRows(RowsIn[k][n][page], Sortable)
ASSUME PicksAssumption ==
    /\ Facet \subseteq [page : Lists, field : Columns, value : Int, to : Int, negate : BOOLEAN]
    /\ Texts \subseteq Int /\ Ranges \subseteq Int \X Int
    /\ Added \subseteq Cond /\ Stacked \subseteq Seq(Cond) /\ Searches \subseteq Filter /\ Asked \subseteq Filter
    /\ Entities \subseteq [kind : {"user", "host", "ip", "address", "domain"}, value : Int]

VARIABLES
    scope,   \* the case open, the page on the screen, and for the ghost's sake the rows it was opened on
    content, \* [Books -> how much is imported]
    filters, \* the filter of each list page; it stays when the page closes
    list,    \* the list page or the timeline
    panel,   \* the panel of an entity
    asks,    \* the queries under way, in the order they were asked
    direct,  \* the other reads under way: marks, marked rows, a row to show, a facet, a pivot, an export
    marks,   \* [<<case, page, row>> -> [verdict, tags]]
    aside,   \* what the other reads brought: the values of a facet, an export, a pivot
    acts     \* how many acts so far

exploreVars == <<scope, content, filters, list, panel, asks, direct, marks, aside, acts>>

Newest == [field |-> "ts", desc |-> TRUE]
RowsNow(k, page, n) == RowsIn[k][n][page]
Act == acts < MaxActs /\ acts' = acts + 1

EmptyList == [rows |-> <<>>, truncated |-> FALSE, sampled |-> 0, total |-> -1, bars |-> {}, stack |-> <<>>, loading |-> FALSE,
              error |-> FALSE, asOf |-> 0, selected |-> {}, picked |-> {}, marked |-> {}, only |-> FALSE, range |-> <<0, 0>>]
NoPanel == [entity |-> {}, stage |-> "closed", events |-> <<>>, mails |-> <<>>, found |-> {}, counts |-> {}, groups |-> {}]

-----------------------------------------------------------------------------
(* Queries and their answers *)

Query(who, what, page, f, k) == [who |-> who, what |-> what, page |-> page, filter |-> f, kase |-> k, answer |-> {}, alive |-> TRUE]
\* a stopped query that has no answer yet ends with its worker; an answer on its way is not wanted any more
Stopped(q, who) ==
    LET left == Kept(q, {i \in DOMAIN q : q[i].who # who \/ q[i].answer # {}})
    IN  [i \in DOMAIN left |-> IF left[i].who = who THEN [left[i] EXCEPT !.alive = FALSE] ELSE left[i]]
Unanswered(q) == {i \in DOMAIN q : q[i].answer = {}}
\* the queries that have a worker: the first in line
Running(q) == {i \in Unanswered(q) : Cardinality({j \in Unanswered(q) : j <= i}) <= MAX_WORKERS}

AnswerAt(a, n) ==
    LET rows == RowsNow(a.kase, a.page, n)
        limit == IF a.who = "panel" THEN ENTITY_ROWS ELSE LIMIT_ROWS
    IN  [asOf |-> n,
         value |-> CASE a.what = "search" -> IF a.page = "events" THEN searchEvents(rows, a.filter, limit, HARD_CAP)
                                             ELSE searchMails(rows, a.filter, limit)
                     [] a.what = "count" -> IF a.page = "events" THEN countEvents(rows, a.filter) ELSE countMails(rows, a.filter)
                     [] a.what = "bars" -> timeline(rows, a.filter)
                     [] a.what = "stack" -> stackEvents(rows, a.filter, "user", "rare", 2)
                     [] OTHER -> aggregate(rows, a.filter, a.what, 6)]
AnswerOf(a) == AnswerAt(a, content[a.kase])
Failure == [failed |-> TRUE]
Answered(i, answer) == asks' = [asks EXCEPT ![i].answer = {answer}]

Work == \E i \in Running(asks) : Answered(i, AnswerOf(asks[i])) /\ UNCHANGED <<scope, content, filters, list, panel, direct, marks, acts, aside>>
Fail == Act /\ \E i \in Running(asks) : Answered(i, Failure) /\ UNCHANGED <<scope, content, filters, list, panel, direct, marks, aside>>

-----------------------------------------------------------------------------
(* What a page asks *)

PageAsks(page, fs, k) ==
    IF page = "other" THEN <<>>
    ELSE IF page = "timeline" THEN <<Query("page", "bars", "events", fs["events"], k), Query("page", "bars", "mails", fs["mails"], k)>>
    ELSE <<Query("page", "search", page, fs[page], k), Query("page", "count", page, fs[page], k), Query("page", "bars", page, fs[page], k)>>
Reading(l) == [l EXCEPT !.loading = TRUE, !.error = FALSE, !.total = -1]

DirectRead(what, k, ids) == [what |-> what, kase |-> k, rows |-> ids, filter |-> NoFilter(Newest)]
MarksRead(k, rows) == DirectRead("marks", k, {r.id : r \in ToSet(rows)})
OnlyRead(k) == DirectRead("only", k, {})
RowRead(k, page, id) == DirectRead(page, k, {id})
\* a newer read of the marks makes the one before void; the others are not guarded
ReadsOf(k, l, only) ==
    {d \in direct : d.what # "marks"} \cup (IF l.rows = <<>> THEN {} ELSE {MarksRead(k, l.rows)}) \cup (IF only THEN {OnlyRead(k)} ELSE {})

\* "marked only" is a condition on the rows' ids; when it is off, its effect takes every such condition out
WithoutIds(f) == [f EXCEPT !.conds = Kept(@, {i \in DOMAIN @ : @[i].field # "id"})]
OnlyIds(f, ids) == And(WithoutIds(f), Where("id", "in", IF ids = {} THEN {-1} ELSE ids))
\* the effect runs when the page opens, when the case changes and when a mark is written
MarkedEffect(page, fs, l) == IF page = "events" /\ ~l.only THEN [fs EXCEPT !["events"] = WithoutIds(@)] ELSE fs

ShowPage(page, k, fs, l) ==
    /\ filters' = MarkedEffect(page, fs, l)
    /\ list' = Reading(l)
    /\ asks' = Stopped(asks, "page") \o PageAsks(page, filters', k)

-----------------------------------------------------------------------------
(* Pages open, filters change, imports end *)

OpenPage(page, fs, reads, opened) ==
    /\ scope' = [scope EXCEPT !.page = page, !.opened = opened]
    /\ ShowPage(page, scope.kase, fs, EmptyList)
    /\ direct' = {d \in direct : d.what \notin {"marks", "facet"}} \cup reads
    /\ UNCHANGED <<content, marks, aside>>
setView(page) == Act /\ scope.page # page /\ OpenPage(page, filters, {}, {}) /\ UNCHANGED panel

\* a finding, a story or a graph opens its rows
openRefs(ids) ==
    /\ Act /\ scope.page = "other"
    /\ OpenPage("events", [filters EXCEPT !["events"] = And(NoFilter([field |-> "ts", desc |-> FALSE]), Where("id", "in", ids))], {}, ids)
    /\ UNCHANGED panel
\* a value anywhere opens its rows
usePivot(page, field, v) ==
    /\ Act /\ scope.page = "other"
    /\ OpenPage(page, [filters EXCEPT ![page] = And(NoFilter(Newest), Where(field, "eq", {v}))], {}, {}) /\ UNCHANGED panel

FacetEdit(page, f, pick) ==
    IF pick.field = "flags" THEN ToggleFlag(f, pick.field, pick.value, pick.negate)
    ELSE IF pick.field = "risk" THEN ToggleBand(f, pick.value, pick.to, pick.negate)
    ELSE toggleFacetValue(f, pick.field, pick.value, pick.negate)
EditsOf(page, f) ==
    {FacetEdit(page, f, p) : p \in {p \in Facet : p.page = page}} \cup TypedEdits(f, Texts) \cup ConditionEdits(f, Added)
    \cup TimeEdits(f, Ranges) \cup SavedEdits(f, Searches)
    \cup {WithSort(f, field) : field \in {"ts", "user"}} \cup (IF page = "events" THEN {pickStacked(f, s) : s \in Stacked} ELSE {})
Edit(f) ==
    /\ Act /\ scope.page \in Lists /\ f # filters[scope.page]
    /\ filters' = [filters EXCEPT ![scope.page] = f]
    /\ scope' = [scope EXCEPT !.opened = {}]
    /\ list' = Reading(list)
    /\ asks' = Stopped(asks, "page") \o PageAsks(scope.page, filters', scope.kase)
    /\ UNCHANGED <<content, panel, direct, marks, aside>>

Batch(k) ==
    /\ Act /\ content[k] < Len(RowsIn[k])
    /\ content' = [content EXCEPT ![k] = @ + 1] /\ UNCHANGED <<scope, filters, list, panel, asks, direct, marks, aside>>
\* every import is over: the page asks again
ImportsOver ==
    /\ Act /\ list' = Reading(list)
    /\ asks' = Stopped(asks, "page") \o PageAsks(scope.page, filters, scope.kase)
    /\ UNCHANGED <<scope, content, filters, panel, direct, marks, aside>>

\* faulty: whether the page still wants the answer is not asked
Wanted_Faulty(a) == TRUE
Wanted(a) == a.alive

Listed(l, a) ==
    IF a.answer = {Failure} THEN IF a.what = "search" THEN [l EXCEPT !.loading = FALSE, !.error = TRUE] ELSE IF a.what = "bars" THEN [l EXCEPT !.bars = {}] ELSE l
    ELSE LET got == (CHOOSE x \in a.answer : TRUE)
         IN  CASE a.what = "search" -> [l EXCEPT !.rows = got.value.rows, !.truncated = got.value.truncated, !.sampled = got.value.sampled,
                                                 !.loading = FALSE, !.asOf = got.asOf]
               [] a.what = "count" -> [l EXCEPT !.total = got.value]
               [] a.what = "stack" -> [l EXCEPT !.stack = got.value.rows]
               [] OTHER -> [l EXCEPT !.bars = IF scope.page = "timeline" THEN @ \cup {<<a.page, got.value>>} ELSE {<<a.page, got.value>>}]
Arrive ==
    \E i \in DOMAIN asks :
        /\ asks[i].who = "page" /\ asks[i].answer # {}
        /\ asks' = RemoveAt(asks, i)
        /\ list' = IF Wanted(asks[i]) THEN Listed(list, asks[i]) ELSE list
        /\ direct' = IF scope.page = "events" /\ list'.rows # list.rows THEN ReadsOf(scope.kase, list', FALSE) ELSE direct
        /\ UNCHANGED <<scope, content, filters, panel, marks, acts, aside>>
stack ==
    /\ Act /\ scope.page = "events" /\ asks' = Append(asks, Query("page", "stack", "events", filters["events"], scope.kase))
    /\ UNCHANGED <<scope, content, filters, list, panel, direct, marks, aside>>

\* a filter asked of the model in words; it replaces the one the page has by then, wherever the analyst is
askFilter ==
    /\ Act /\ scope.page = "events" /\ direct' = direct \cup {[DirectRead("asked", scope.kase, {}) EXCEPT !.filter = filters["events"]]}
    /\ UNCHANGED <<scope, content, filters, list, panel, asks, marks, aside>>
FilterArrives ==
    \E d \in {d \in direct : d.what = "asked"}, f \in Asked :
        /\ direct' = direct \ {d} /\ filters' = [filters EXCEPT !["events"] = AskedFilter(d.filter, f)]
        /\ IF scope.page = "events"
           THEN list' = Reading(list) /\ asks' = Stopped(asks, "page") \o PageAsks("events", filters', scope.kase)
           ELSE UNCHANGED <<list, asks>>
        /\ scope' = [scope EXCEPT !.opened = {}]
        /\ UNCHANGED <<content, panel, marks, aside, acts>>

\* what the page also reads: a facet's values, every event of the filter for a timeline, and where a text
\* is found; a newer read of a facet or a pivot replaces the one before
AsideRead(what, texts) ==
    [what |-> what, kase |-> scope.kase, rows |-> texts, filter |-> IF what = "export" THEN filters["events"] ELSE NoFilter(Newest)]
askAside(what, texts) ==
    /\ Act /\ (what = "export" => scope.page = "events") /\ (what = "facet" => scope.page \in Lists)
    /\ direct' = {d \in direct : d.what # what \/ what = "export"} \cup {AsideRead(what, texts)}
    /\ UNCHANGED <<scope, content, filters, list, panel, asks, marks, aside>>
AsideValue(d, rows) ==
    CASE d.what = "facet" -> [values |-> getFacets(rows[scope.page], "user", FACET_ROWS)]
      [] d.what = "export" -> timelineRows(rows["events"], d.filter, EXPORT_PAGE, EXPORT_MAX)
      [] OTHER -> pivot(rows["events"], rows["mails"], CHOOSE v \in d.rows : TRUE)
AsideArrives ==
    \E d \in {d \in direct : d.what \in {"facet", "export", "pivot"}} :
        /\ direct' = direct \ {d}
        /\ aside' = {x \in aside : x[1] # d.what} \cup {<<d.what, AsideValue(d, RowsIn[d.kase][content[d.kase]])>>}
        /\ UNCHANGED <<scope, content, filters, list, panel, asks, marks, acts>>

-----------------------------------------------------------------------------
(* Marks, and the row shown *)

Pick(ids) ==
    /\ scope.page = "events" /\ list.picked # ids /\ list.rows # <<>> /\ list' = [list EXCEPT !.picked = ids]
    /\ UNCHANGED <<acts, scope, content, filters, panel, asks, direct, marks, aside>>
\* only the picked rows that are still listed are marked; what a mark had stays unless the patch says otherwise
PickedRows == {<<scope.kase, "events", r.id>> : r \in {r \in ToSet(list.rows) : r.id \in list.picked}}
Marking(new) ==
    /\ Act /\ scope.page = "events" /\ PickedRows # {} /\ marks' = new
    /\ ShowPage("events", scope.kase, filters, list)
    /\ direct' = ReadsOf(scope.kase, list, list.only)
    /\ UNCHANGED <<scope, content, panel, aside>>
markRows(verdict) ==
    Marking([m \in DOMAIN marks \cup PickedRows |-> IF m \in PickedRows THEN [verdict |-> verdict, tags |-> IF m \in DOMAIN marks THEN marks[m].tags ELSE {}] ELSE marks[m]])
addTag(tag) ==
    Marking([m \in DOMAIN marks \cup PickedRows |->
        LET old == IF m \in DOMAIN marks THEN marks[m] ELSE [verdict |-> "relevant", tags |-> {}]
        IN  IF m \in PickedRows THEN [old EXCEPT !.tags = @ \cup {tag}] ELSE old])
clearRowMarks == Marking([m \in DOMAIN marks \ PickedRows |-> marks[m]])
loadRowMarks(k, ids) == {m \in DOMAIN marks : m[1] = k /\ m[2] = "events" /\ m[3] \in ids}
markedRowIds(k) == {m[3] : m \in {m \in DOMAIN marks : m[1] = k /\ m[2] = "events"}}

setMarkedOnly ==
    /\ Act /\ scope.page = "events" /\ scope' = [scope EXCEPT !.opened = {}]
    /\ \E l \in {[list EXCEPT !.only = ~@]} :
          /\ ShowPage("events", scope.kase, filters, l)
          /\ direct' = IF l.only THEN direct \cup {OnlyRead(scope.kase)} ELSE direct
    /\ UNCHANGED <<content, panel, marks, aside>>
\* a row to show, asked for by a marker of the timeline or by the panel: the panel closes
Focusing == scope.page = "timeline" \/ panel.stage \in {"counts", "groups", "done"}
setFocus(page, id) ==
    /\ Act /\ Focusing
    /\ OpenPage(page, filters, {RowRead(scope.kase, page, id)}, {}) /\ panel' = NoPanel

OnlyArrives(d) ==
    /\ d.what = "only" /\ scope.page = "events"
    /\ filters' = [filters EXCEPT !["events"] = OnlyIds(@, markedRowIds(d.kase))]
    /\ list' = Reading(list) /\ asks' = Stopped(asks, "page") \o PageAsks("events", filters', scope.kase)
ReadArrives ==
    \E d \in {d \in direct : d.what \in {"marks", "only"} \cup Lists} :
        /\ direct' = direct \ {d}
        /\ \/ OnlyArrives(d)
           \/ /\ d.what = "only" => scope.page # "events"
              /\ filters' = IF d.what = "only" THEN [filters EXCEPT !["events"] = OnlyIds(@, markedRowIds(d.kase))] ELSE filters
              /\ list' = IF d.what = "marks" /\ scope.page = "events" THEN [list EXCEPT !.marked = loadRowMarks(d.kase, d.rows)]
                         ELSE IF d.what = scope.page THEN [list EXCEPT !.selected = {<<d.kase, d.rows>>}] ELSE list
              /\ UNCHANGED asks
        /\ UNCHANGED <<scope, content, panel, marks, acts, aside>>

\* the timeline: a range chosen on the chart becomes the filter of a list page
applyRange(page, range) ==
    /\ Act /\ scope.page = "timeline"
    /\ OpenPage(page, [filters EXCEPT ![page] = WithRange(@, range)], {}, {}) /\ UNCHANGED panel

-----------------------------------------------------------------------------
(* The panel of an entity: its rows, then their number, then what is seen with it *)

\* the fields an entity is looked for in (equality stands for the prefixes and suffixes of a name)
FieldsOf == [user |-> [events |-> {"user"}, mails |-> {"to"}], host |-> [events |-> {"host"}, mails |-> {}],
             ip |-> [events |-> {"ip"}, mails |-> {"ip"}], address |-> [events |-> {}, mails |-> {"to"}], domain |-> [events |-> {"query"}, mails |-> {"from"}]]
EntityFilter(e, page) ==
    LET fields == FieldsOf[e.kind][page]
    IN  IF fields = {} THEN {}
        ELSE {[NoFilter(Newest) EXCEPT !.or = TRUE, !.conds = SetToSeq({Where(x, "eq", {e.value}) : x \in fields})]}
EntityAsks(e, what, k) == SetToSeq(UNION {{Query("panel", what, p, f, k) : f \in EntityFilter(e, p)} : p \in Lists})
\* the findings of the entity before stay until the new ones are read
Opening(entity) == [NoPanel EXCEPT !.entity = entity, !.stage = "rows", !.found = panel.found]
setEntity(e) ==
    /\ Act /\ panel' = Opening({e})
    /\ asks' = Stopped(asks, "panel") \o EntityAsks(e, "search", scope.kase)
    /\ UNCHANGED <<scope, content, filters, list, direct, marks, aside>>
closeEntity ==
    /\ Act /\ panel.stage # "closed" /\ panel' = NoPanel /\ asks' = Stopped(asks, "panel")
    /\ UNCHANGED <<scope, content, filters, list, direct, marks, aside>>

\* the page and the panel stay and ask again: its rows, the rows picked and on Events the row shown are of the case before
switchCase(k) ==
    /\ Act /\ k # scope.kase
    /\ scope' = [scope EXCEPT !.kase = k, !.opened = {}]
    /\ filters' = MarkedEffect(scope.page, filters, list)
    /\ list' = Reading(IF scope.page = "mails" THEN [list EXCEPT !.selected = {}] ELSE list)
    /\ panel' = IF panel.stage = "closed" THEN panel ELSE Opening(panel.entity)
    /\ asks' = Stopped(Stopped(asks, "page"), "panel") \o PageAsks(scope.page, filters', k)
                \o (IF panel.stage = "closed" THEN <<>> ELSE EntityAsks(CHOOSE e \in panel.entity : TRUE, "search", k))
    /\ direct' = {d \in IF scope.page = "events" THEN ReadsOf(k, list, list.only) ELSE direct : d.what # "facet"}
    /\ UNCHANGED <<content, marks, aside>>

OfPanel(q) == Kept(q, {i \in DOMAIN q : q[i].who = "panel" /\ q[i].alive})
Values(q, page) == {x.value : x \in (UNION {a.answer : a \in {a \in ToSet(q) : a.page = page}}) \ {Failure}}
EntityArrives ==
    /\ panel.stage \in {"rows", "counts", "groups"}
    /\ \A i \in DOMAIN OfPanel(asks) : OfPanel(asks)[i].answer # {}
    /\ \E e \in panel.entity, q \in {OfPanel(asks)}, rest \in {Kept(asks, {i \in DOMAIN asks : asks[i].who # "panel"})} :
        \/ /\ panel.stage = "rows"
           /\ panel' = [panel EXCEPT !.stage = "counts", !.events = Values(q, "events"), !.mails = Values(q, "mails"),
                                     !.found = {f \in FoundIn[scope.kase] : e.value \in f.entities}]
           /\ asks' = rest \o EntityAsks(e, "count", scope.kase)
        \/ /\ panel.stage = "counts"
           /\ panel' = [panel EXCEPT !.stage = "groups", !.counts = {<<a.page, a.answer>> : a \in ToSet(q)}]
           /\ \E more \in {EntityAsks(e, "host", scope.kase)} :
                  asks' = rest \o Kept(more, {i \in DOMAIN more : more[i].page = "events"})
        \/ /\ panel.stage = "groups" /\ asks' = rest
           /\ panel' = [panel EXCEPT !.stage = "done", !.groups = UNION {a.answer : a \in ToSet(q)}]
    /\ UNCHANGED <<scope, content, filters, list, direct, marks, acts, aside>>
filterEntity(page) ==
    /\ Act /\ panel.stage # "closed"
    /\ \E e \in panel.entity : \E f \in EntityFilter(e, page) : OpenPage(page, [filters EXCEPT ![page] = f], {}, {})
    /\ panel' = NoPanel

-----------------------------------------------------------------------------
(* The system *)

ExploreInit ==
    /\ \E k \in Books : scope = [kase |-> k, page |-> "other", opened |-> {}]
    /\ content = [k \in Books |-> 1] /\ filters = [p \in Lists |-> NoFilter(Newest)]
    /\ list = EmptyList /\ panel = NoPanel /\ asks = <<>> /\ direct = {} /\ marks = <<>> /\ aside = {} /\ acts = 0

EventIds == {r.id : r \in RowsNow(scope.kase, "events", content[scope.kase])}
ExploreNext ==
    \/ Work \/ Fail \/ Arrive \/ ReadArrives \/ AsideArrives \/ FilterArrives \/ EntityArrives
    \/ \E page \in Lists \cup {"timeline", "other"} : setView(page)
    \/ \E id \in EventIds : openRefs({id}) \/ \E p \in Lists : setFocus(p, id)
    \/ \E p \in {p \in Facet : ~p.negate} : usePivot(p.page, p.field, p.value)
    \/ \E g \in Ranges, p \in Lists : applyRange(p, g)
    \/ scope.page \in Lists /\ \E f \in EditsOf(scope.page, filters[scope.page]) : Edit(f)
    \/ \E k \in Books : switchCase(k) \/ Batch(k)
    \/ askAside("facet", {}) \/ askAside("export", {}) \/ \E v \in Texts : askAside("pivot", {v})
    \/ ImportsOver \/ askFilter \/ stack \/ setMarkedOnly
    \/ \E ids \in {{}, {r.id : r \in ToSet(list.rows)}} : Pick(ids)
    \/ markRows("relevant") \/ addTag("t") \/ clearRowMarks
    \/ \E e \in Entities : setEntity(e)
    \/ closeEntity \/ \E p \in Lists : filterEntity(p)

ExploreSpec == ExploreInit /\ [][ExploreNext]_exploreVars

-----------------------------------------------------------------------------
(* Properties *)

\* What a list page shows when it is at rest is the answer to its filter, in its case: every row passes the
\* filter, and a sort by time shows the newest (or the oldest) of them: no matching row that is left out comes
\* before one that is shown (queries.ts:51-55 "Sorting the first 20,000 of them showed a "newest" that was not
\* the newest"; EventsView.tsx:131 "a query nobody waits for").
PassesOn(page, f, r) == IF page = "mails" THEN mailPredicate(f, r) ELSE Passes(f, r)
LeftOut(page, f) == {r \in RowsNow(scope.kase, page, list.asOf) : r.ts # 0 /\ PassesOn(page, f, r)} \ ToSet(list.rows)
ShownIsNewest ==
    scope.page \in Lists /\ ~list.loading /\ ~list.error /\ list.asOf # 0 =>
        \E f \in {filters[scope.page]} :
            /\ \A i \in DOMAIN list.rows : list.rows[i] \in RowsNow(scope.kase, scope.page, list.asOf) /\ PassesOn(scope.page, f, list.rows[i])
            /\ f.sort.field = "ts" =>
                   \A r \in LeftOut(scope.page, f), s \in ToSet(list.rows) : s.ts # 0 => IF f.sort.desc THEN r.ts <= s.ts ELSE s.ts <= r.ts

\* What the docs say and the code does not do: see the README, Disagreements.

\* A finding opens its rows: until the analyst changes the filter or the case, Events is filtered on them
\* (queries.ts:31-35 "Opening a finding filters on its rows this way").
OpenedRowsStay == scope.page = "events" /\ scope.opened # {} => pinnedIds(filters["events"]) = scope.opened
=============================================================================
