------------------------------- MODULE Queries -------------------------------
(***************************************************************************)
(* The read queries over a case's rows (data/queries.ts), as the pages and *)
(* the assistant's tools ask them.  A case is a set of rows; the indexes   *)
(* of the browser's database are the orders the rows come in: the time     *)
(* index knows no row without a time, the event-ID index gives the order   *)
(* of ingestion, and what an index yields is cut before it is sorted.      *)
(***************************************************************************)
EXTENDS Filters, TLC

CONSTANTS
    HARD_CAP,   \* rows a sort other than by time reads, and rows a search returns, at most
    MAX_IDS,    \* event IDs the index is asked for at most
    MAX_SCAN,   \* rows a pivot scans
    MAX_GROUPS, \* values a stack returns at most
    BUCKET      \* the length of a bucket of time

\* rows of one kind: a key each, a time or none (0), one event ID at most, the fields they may be sorted by
IsRows(rows, sortable) ==
    /\ IsFiniteSet(rows)
    /\ \A r \in rows : /\ "val" \in DOMAIN r /\ {"id", "eventId"} \cup sortable \subseteq DOMAIN r.val
                       /\ r.id \in Nat /\ r.ts \in Nat /\ r.val["id"] = {r.id} /\ \A a, b \in r.val["eventId"] : a = b
                       /\ \A x \in sortable : r.val[x] \subseteq Int
    /\ \A r, s \in rows : r.id = s.id => r = s

Value(r, field) == IF field = "ts" THEN r.ts ELSE IF r.val[field] = {} THEN 0 ELSE CHOOSE v \in r.val[field] : TRUE
Leading(s, n) == SubSeq(s, 1, IF Len(s) < n THEN Len(s) ELSE n)
Ingested(rows) == Ranked(rows, {p \in rows \X rows : p[1].id < p[2].id})
\* the time index: rows without a time are not in it
ByTime(rows, desc) ==
    LET up == Ranked({r \in rows : r.ts # 0},
                     {p \in rows \X rows : p[1].ts < p[2].ts \/ (p[1].ts = p[2].ts /\ p[1].id < p[2].id)})
    IN  IF desc THEN Reverse(up) ELSE up
Undated(rows, f) == IF f.from # 0 \/ f.to # 0 THEN <<>> ELSE Ingested({r \in rows : r.ts = 0})

\* rows without a value come last, whichever way the sort goes; rows it does not tell apart stay as they came
Earlier(x, y, desc) == x # 0 /\ (y = 0 \/ (IF desc THEN x > y ELSE x < y))
SortOrder(v, desc) ==
    {p \in (DOMAIN v) \X (DOMAIN v) :
        Earlier(v[p[1]], v[p[2]], desc) \/ (p[1] < p[2] /\ ~Earlier(v[p[2]], v[p[1]], desc))}
Sorted(s, sort) == Along(s, Ranked(DOMAIN s, SortOrder([i \in DOMAIN s |-> Value(s[i], sort.field)], sort.desc)))

Answer(s, limit, truncated, sampled) == [rows |-> Leading(s, limit), truncated |-> truncated \/ Len(s) > limit, sampled |-> sampled]

Pinned(rows, f, limit) ==
    Answer(Sorted(Ingested({r \in rows : r.id \in pinnedIds(f)}), f.sort), limit, FALSE, 0)
ByEventId(rows, matches, f, limit, cap) ==
    LET read == Leading(Ingested(matches), cap)
        found == Cardinality({r \in rows : r.val["eventId"] \cap extractEventIds(f) # {}})
    IN  Answer(Sorted(read, f.sort), limit, Len(read) >= cap, IF found > cap THEN cap ELSE 0)
\* the rows without a time come after those the limit has let through
ByTimeIndex(matches, f, limit) ==
    LET dated == ByTime(matches, f.sort.desc)
    IN  [rows |-> Leading(dated, limit) \o Leading(Undated(matches, f), limit), truncated |-> Len(dated) > limit, sampled |-> 0]
ByOther(matches, f, limit, cap) ==
    LET read == Leading(Leading(ByTime(matches, FALSE), cap) \o Undated(matches, f), cap)
    IN  Answer(Sorted(read, f.sort), limit, Len(read) >= cap, IF Len(read) >= cap THEN cap ELSE 0)

Indexed(f) == extractEventIds(f) # {} /\ Cardinality(extractEventIds(f)) <= MAX_IDS
\* the event-ID index serves a sort by time only when every match fits
\* faulty: it always does
ByIndex_Faulty(rows, f, cap) == Indexed(f)
ByIndex(rows, f, cap) ==
    Indexed(f) /\ (f.sort.field # "ts" \/ Cardinality({r \in rows : r.val["eventId"] \cap extractEventIds(f) # {}}) <= cap)

searchEvents(rows, f, wanted, cap) ==
    LET limit == IF wanted < cap THEN wanted ELSE cap
        matches == {r \in rows : Passes(f, r)}
    IN  IF pinnedIds(f) # {} THEN Pinned(matches, f, limit)
        ELSE IF ByIndex(rows, f, cap) THEN ByEventId(rows, matches, f, limit, cap)
        ELSE IF f.sort.field = "ts" THEN ByTimeIndex(matches, f, limit) ELSE ByOther(matches, f, limit, cap)
countEvents(rows, f) == Cardinality({r \in rows : Passes(f, r)})

-----------------------------------------------------------------------------
(* Mails: the bodies are apart from the rows *)

\* a condition on the body, and the text, are looked for in the bodies too
mailPredicate(f, r) ==
    LET body == [r EXCEPT !.val["bodyText"] = r.body]
    IN  Passes(f, body) \/ (f.text \in r.body /\ Passes([f EXCEPT !.text = No], body))
searchMails(rows, f, wanted) ==
    LET limit == IF wanted < HARD_CAP THEN wanted ELSE HARD_CAP
        matches == {r \in rows : mailPredicate(f, r)}
        dated == Leading(ByTime(matches, f.sort.field = "ts" /\ f.sort.desc), IF f.sort.field = "ts" THEN limit + 1 ELSE HARD_CAP)
        all == dated \o Undated(matches, f)
    IN  IF pinnedIds(f) # {} THEN Pinned(matches, f, limit)
        ELSE Answer(IF f.sort.field = "ts" THEN all ELSE Sorted(all, f.sort), limit, FALSE, 0)
countMails(rows, f) == Cardinality({r \in rows : mailPredicate(f, r)})

-----------------------------------------------------------------------------
(* Totals: groups, stacks, buckets, facets, a pivot *)

Span(rows) ==
    LET times == {r.ts : r \in rows} \ {0}
    IN  IF times = {} THEN <<0, 0>> ELSE <<Min(times), Max(times)>>
\* the totals of the mails are of the rows alone: a text that is in a body only is not counted
Group(rows, v) == [value |-> v, count |-> Cardinality(rows), span |-> Span(rows)]
FieldValues(r, field) == IF r.val[field] = {} THEN {0} ELSE r.val[field]
MostFirst(groups) == SetToSortSeq(groups, LAMBDA a, b : a.count > b.count \/ (a.count = b.count /\ a.value < b.value))
aggregate(rows, f, field, limit) ==
    LET matches == {r \in rows : Passes(f, r)}
        groups == {Group({r \in matches : v \in FieldValues(r, field)}, v) : v \in UNION {FieldValues(r, field) : r \in matches}}
    IN  [groups |-> Leading(MostFirst(groups), limit), total |-> Cardinality(matches), distinct |-> Cardinality(groups)]

\* every value of a field, on how few hosts and in how few events: the rarest first, or the most common
stackEvents(rows, f, field, order, limit) ==
    LET with == {r \in rows : Passes(f, r) /\ r.val[field] # {}}
        On(v) == {r \in with : v \in r.val[field]}
        Hosts(s) == UNION {r.val["host"] : r \in s}
        row(v) == [value |-> v, count |-> Cardinality(On(v)), hosts |-> Cardinality(Hosts(On(v))), span |-> Span(On(v))]
        values == {row(v) : v \in UNION {r.val[field] : r \in with}}
        Rarer(a, b) == a.hosts < b.hosts \/ (a.hosts = b.hosts /\ a.count < b.count)
        Same(a, b) == a.hosts = b.hosts /\ a.count = b.count
        Before(a, b) == (IF order = "rare" THEN Rarer(a, b) ELSE Rarer(b, a)) \/ (Same(a, b) /\ a.value < b.value)
        shown == Leading(SetToSortSeq(values, Before), IF limit < MAX_GROUPS THEN limit ELSE MAX_GROUPS)
    IN  [rows |-> shown,
         events |-> Cardinality(with), blank |-> countEvents(rows, f) - Cardinality(with),
         distinct |-> Cardinality(values), hosts |-> Cardinality(Hosts(with)), truncated |-> Cardinality(values) > Len(shown)]

timeline(rows, f) ==
    LET dated == {r \in rows : r.ts # 0 /\ Passes(f, r)}
    IN  {[t |-> b * BUCKET, count |-> Cardinality({r \in dated : r.ts \div BUCKET = b})] : b \in {r.ts \div BUCKET : r \in dated}}
getFacets(rows, field, limit) == aggregate(rows, NoFilter([field |-> "ts", desc |-> TRUE]), field, limit).groups

\* where a value is found; the scan of the events stops and says so
pivot(events, mails, v) ==
    LET scanned == ToSet(Leading(Ingested(events), MAX_SCAN))
        Holds(r) == v \in r.text \cup r.raw
        Found(rows) == [count |-> Cardinality({r \in rows : Holds(r)}), span |-> Span({r \in rows : Holds(r)})]
    IN  [events |-> Found(scanned), mails |-> Found(mails), cut |-> Cardinality(scanned) >= MAX_SCAN]

caseSummary(files, events, mails, findings, iocs) ==
    LET Times(kind) == {<<e.first, e.last>> : e \in {e \in files : e.kind \in {kind, "package"} /\ e.first # 0}}
    IN  [evidence |-> files, events |-> Cardinality(events), mails |-> Cardinality(mails), iocs |-> Cardinality(iocs),
         findings |-> Cardinality(findings), range |-> [k \in {"evtx", "mail"} |-> Times(k)],
         ids |-> getFacets(events, "eventId", 15), flags |-> getFacets(mails, "flags", 15),
         severity |-> [s \in {f.sev : f \in findings} |-> Cardinality({f \in findings : f.sev = s})]]

-----------------------------------------------------------------------------
(* The timeline export (data/timelineRows.ts) *)

\* page after page from the time the last one ended; the rows already taken are skipped by their id, and
\* a page that brings nothing, or ends in a row without a time, ends the export
timelineRows(rows, f, page, max) ==
    LET Page(from) == searchEvents(rows, [f EXCEPT !.sort = [field |-> "ts", desc |-> FALSE], !.from = from], page, HARD_CAP)
        New(res, taken) == SelectSeq(res.rows, LAMBDA r : r.ts # 0 /\ r \notin ToSet(taken))
        Next(state, res) ==
            LET all == state.rows \o New(res, state.rows)
                end == res.rows[Len(res.rows)].ts
            IN  IF Len(all) >= max THEN [rows |-> Leading(all, max), cut |-> "max", from |-> 0]
                ELSE IF ~res.truncated THEN [rows |-> all, cut |-> "none", from |-> 0]
                ELSE IF Len(all) = Len(state.rows) \/ end = 0 THEN [rows |-> all, cut |-> "instant", from |-> 0]
                ELSE [rows |-> all, cut |-> "reading", from |-> end]
        after[n \in 0 .. Cardinality(rows) + 1] ==
            IF n = 0 THEN [rows |-> <<>>, cut |-> "reading", from |-> f.from]
            ELSE IF after[n - 1].cut # "reading" THEN after[n - 1]
            ELSE Next(after[n - 1], Page(after[n - 1].from))
    IN  after[Cardinality(rows) + 1]
=============================================================================
