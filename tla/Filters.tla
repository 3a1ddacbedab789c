------------------------------- MODULE Filters -------------------------------
(***************************************************************************)
(* The filter of the Events and Mails pages (rules/filter.ts), and how the *)
(* query bar and the facets edit it (components/FilterBar.tsx,             *)
(* data/facetToggle.ts).  A row has a set of values per field, none when   *)
(* the field is missing; what an operator finds between a value of the row *)
(* and a wanted one (a substring, a prefix, a number in a range, ...) is   *)
(* the relation Relates of that operator.  Values are numbers.             *)
(***************************************************************************)
EXTENDS Integers, FiniteSets, SequencesExt

CONSTANTS
    Columns,   \* the fields a filter may name
    Relates,   \* [operator -> the pairs <<value of the row, wanted value>> it holds for]
    ListField, \* the fields that hold a list: recipients, flags, links
    InSetting, \* the values that are on a list of the case's settings
    InHours    \* the times within business hours

ASSUME ColumnsAssumption == {"id", "ts", "eventId", "risk", "user", "host", "ip", "to", "from", "query"} \subseteq Columns

Equal(op) == op \in {"eq", "in"}

-----------------------------------------------------------------------------
(* Orders and lists.  An order is a set of pairs, a strict order of all the members. *)

\* the members of a set, the first first
Ranked(S, order) == [k \in 1 .. Cardinality(S) |-> CHOOSE x \in S : Cardinality({y \in S : <<y, x>> \in order}) = k - 1]
\* a list at some of its places, and at those alone, in the order they have
Along(s, places) == [k \in DOMAIN places |-> s[places[k]]]
Kept(s, places) == Along(s, Ranked(places, {p \in places \X places : p[1] < p[2]}))

-----------------------------------------------------------------------------
(* One condition, one filter *)

Op == {"eq", "ne", "in", "nin", "contains", "not_contains", "contains_any", "contains_all", "startswith", "not_startswith",
       "endswith", "not_endswith", "re", "not_re", "gt", "gte", "lt", "lte", "exists", "empty", "in_setting", "nin_setting",
       "levenshtein", "length", "contains_cs", "startswith_cs", "endswith_cs"}
Cond == [field : Columns, op : Op, want : SUBSET Int]
Filter == [conds : Seq(Cond), or : BOOLEAN, from : Int, to : Int, hours : {"any", "within", "outside"},
           regex : Int, text : Int, sort : [field : Columns, desc : BOOLEAN]]

No == 0 \* no text, and the value false of an "exists"

\* several wanted values, or any / all of them, match whole elements of a list: a part of an element
\* is found by a contains of one value only
Wholly(c) == c.field \in ListField /\ (c.op \in {"contains_any", "contains_all"} \/ (c.op = "contains" /\ Cardinality(c.want) > 1))
Fits(c, a, w) == IF Equal(c.op) \/ Wholly(c) THEN a = w ELSE <<a, w>> \in Relates[c.op]

Opposite ==
    [ne |-> "eq", nin |-> "in", not_contains |-> "contains_any", not_startswith |-> "startswith",
     not_endswith |-> "endswith", not_re |-> "re", nin_setting |-> "in_setting"]

Holding(has, c) ==
    \/ c.op = "exists" /\ (c.want = {No} <=> has = {})
    \/ c.op = "empty" /\ has = {}
    \/ c.op = "in_setting" /\ has \cap InSetting # {}
    \/ c.op = "eq" /\ has = {} /\ c.want = {}
    \/ c.op = "contains_all" /\ has # {} /\ \A w \in c.want : \E a \in has : Fits(c, a, w)
    \/ c.op \notin {"exists", "empty", "in_setting", "contains_all"} /\ \E a \in has, w \in c.want : Fits(c, a, w)

matchCondition(has, c) ==
    IF c.op \in DOMAIN Opposite THEN ~Holding(has, [c EXCEPT !.op = Opposite[c.op]]) ELSE Holding(has, c)

Inside(f, t) == (f.from # 0 \/ f.to # 0) => t # 0 /\ t >= f.from /\ (f.to # 0 => t <= f.to)
isOutsideHours(t) == IF t \in InHours THEN "within" ELSE "outside"

\* the predicate of a filter
Passes(f, r) ==
    /\ Inside(f, r.ts)
    /\ f.hours # "any" => r.ts # 0 /\ isOutsideHours(r.ts) = f.hours
    /\ \/ f.conds = <<>>
       \/ f.or /\ \E i \in DOMAIN f.conds : matchCondition(r.val[f.conds[i].field], f.conds[i])
       \/ ~f.or /\ \A i \in DOMAIN f.conds : matchCondition(r.val[f.conds[i].field], f.conds[i])
    /\ f.regex # No => f.regex \in r.raw
    /\ f.text # No => f.text \in r.text \cup r.raw

\* the event IDs a filter pins down, for the index; none when it does not
Pins(c, field) == c.field = field /\ Equal(c.op) /\ c.want # {}
extractEventIds(f) ==
    LET pinning == {c \in ToSet(f.conds) : Pins(c, "eventId")}
        wanted == UNION {c.want : c \in pinning}
    IN  IF pinning = {} \/ (f.or /\ pinning # ToSet(f.conds)) THEN {}
        ELSE IF f.or THEN wanted ELSE {w \in wanted : \A c \in pinning : w \in c.want}

\* the rows a filter pins by their id: the first such condition, under AND
pinnedIds(f) ==
    LET at == {i \in DOMAIN f.conds : f.conds[i].field = "id" /\ Equal(f.conds[i].op)}
    IN  IF f.or \/ at = {} THEN {} ELSE f.conds[CHOOSE i \in at : \A j \in at : i <= j].want

-----------------------------------------------------------------------------
(* Editing it *)

NoFilter(sort) ==
    [conds |-> <<>>, or |-> FALSE, from |-> 0, to |-> 0, hours |-> "any", regex |-> No, text |-> No, sort |-> sort]
Where(field, op, want) == [field |-> field, op |-> op, want |-> want]
And(f, c) == [f EXCEPT !.conds = Append(@, c)]

\* one facet value more or less: one is eq, several are in; excluded ones are ne and nin
toggleFacetValue(f, field, value, negate) ==
    LET ops == IF negate THEN <<"ne", "nin">> ELSE <<"eq", "in">>
        at == {i \in DOMAIN f.conds : f.conds[i].field = field /\ f.conds[i].op \in ToSet(ops)}
        i == CHOOSE i \in at : \A j \in at : i <= j
        next == (f.conds[i].want \cup {value}) \ (f.conds[i].want \cap {value})
    IN  IF at = {} THEN And(f, Where(field, ops[1], {value}))
        ELSE IF next = {} THEN [f EXCEPT !.conds = RemoveAt(@, i)]
        ELSE [f EXCEPT !.conds[i] = Where(field, ops[IF Cardinality(next) = 1 THEN 1 ELSE 2], next)]

\* a flag is one condition of its own: picking two asks for both
ToggleFlag(f, field, value, negate) ==
    LET c == Where(field, IF negate THEN "not_contains" ELSE "contains", {value})
    IN  IF c \in ToSet(f.conds) THEN [f EXCEPT !.conds = Kept(@, {i \in DOMAIN @ : @[i] # c})] ELSE And(f, c)

\* a band of risk replaces every condition on the risk, or takes them all out when it is picked again
ToggleBand(f, lo, hi, negate) ==
    LET c == Where("risk", IF negate THEN "lt" ELSE "gte", {lo})
        rest == [f EXCEPT !.conds = Kept(@, {i \in DOMAIN @ : @[i].field # "risk"})]
    IN  IF c \in ToSet(f.conds) THEN rest
        ELSE IF hi # 0 /\ ~negate THEN And(And(rest, c), Where("risk", "lt", {hi})) ELSE And(rest, c)

\* a stacked value sets its field, or both fields of a provider / event ID pair
pickStacked(f, set) ==
    LET fields == {c.field : c \in ToSet(set)}
    IN  [f EXCEPT !.conds = Kept(@, {i \in DOMAIN @ : ~(@[i].field \in fields /\ Equal(@[i].op))}) \o set]

WithRange(f, range) == [f EXCEPT !.from = range[1], !.to = range[2]]
WithSort(f, field) == [f EXCEPT !.sort = [field |-> field, desc |-> ~(f.sort.field = field /\ f.sort.desc)]]

\* the edits of the query bar: the text and the regular expression, the conditions and their logic, the time
\* and the business hours, a saved search and a clear, and the filter a model makes of a question
TypedEdits(f, texts) == {[f EXCEPT !.text = t] : t \in texts \cup {No}} \cup {[f EXCEPT !.regex = x] : x \in texts \cup {No}}
ConditionEdits(f, added) ==
    {And(f, c) : c \in added} \cup {[f EXCEPT !.conds = RemoveAt(@, i)] : i \in DOMAIN f.conds}
    \cup {[f EXCEPT !.or = IF Len(f.conds) > 1 THEN ~@ ELSE @]}
TimeEdits(f, ranges) ==
    {WithRange(f, g) : g \in ranges \cup {<<0, 0>>}} \cup {[f EXCEPT !.hours = IF @ = "any" THEN "outside" ELSE "any"]}
SavedEdits(f, saved) == saved \cup {NoFilter(f.sort)}
AskedFilter(f, answer) == [answer EXCEPT !.sort = f.sort]
=============================================================================
