------------------------------ MODULE RuleEngine ------------------------------
(***************************************************************************)
(* The browser's rule engine: what a rule's conditions match, how the      *)
(* matching rows become findings (one per row, per group, per burst), how  *)
(* a follow-up raises them, why a rule is silent; and the worker, which    *)
(* reads from the case only the rows and the columns it takes the rule to  *)
(* need.  The rows of the case arrive one at a time, in any order.         *)
(***************************************************************************)
EXTENDS Integers, Sequences, FiniteSets, SequencesExt, FiniteSetsExt, TLC

CONSTANTS
    Rules,          \* the rules: records, see Rule below
    Beside,         \* rules that may run with it
    RowOf,          \* the rows that can arrive: [ts, hour, f, flags], f being [Field -> SUBSET Value]
    Within,         \* [Op -> set of <<value, wanted>>]: the text and number comparisons
    Lists,          \* [setting -> SUBSET Value]: the case's lists, {} when empty
    ListField,      \* the fields that hold lists
    Heavy,          \* [column -> its fields]: columns that are dropped when no field of theirs is read
    BodyField,      \* the fields of a mail's body, joined when they are read
    GroupableField, \* the fields a collapsed rule is grouped by
    MAX_REFS,       \* rows kept on a finding
    MaxRows         \* bound: how many rows arrive

VARIABLES
    rule,           \* the rule that runs
    beside,         \* the other rules of the run: they share what is read of the case
    rows            \* the rows of the case

engineVars == <<rule, beside, rows>>

Negated == ("ne" :> "eq") @@ ("nin" :> "in") @@ ("not_contains" :> "contains_any") @@ ("not_re" :> "re")
           @@ ("not_startswith" :> "startswith") @@ ("not_endswith" :> "endswith")
TextOp == {"contains", "contains_any", "startswith", "endswith", "re", "gt", "gte", "lt", "lte",
           "levenshtein", "length", "contains_cs", "startswith_cs", "endswith_cs"}

(***************************************************************************)
(* Conditions.  A condition is a sequence of entries, all of which must    *)
(* hold: [k |-> "leaf", field, op, value], or "any_of" / "all_of" / "not"  *)
(* with the conditions in alts.                                            *)
(***************************************************************************)
getPath(row, field) == row.f[field]

(* On a list, contains matches whole elements, but for a contains of one value. *)
ContainsValue(row, c) ==
    LET actual == getPath(row, c.field)
    IN  IF c.field \in ListField /\ ~(c.op = "contains" /\ Cardinality(c.value) = 1)
        THEN actual \cap c.value # {}
        ELSE \E a \in actual, w \in c.value : a = w \/ <<a, w>> \in Within["contains"]

inSetting(actual, name) == \E a \in actual, w \in Lists[name] : a = w \/ <<a, w>> \in Within["in_setting"]

RECURSIVE matchCondition(_, _)
matchCondition(row, c) ==
    LET actual == getPath(row, c.field)
    IN  CASE c.op = "exists" -> (actual # {}) = (c.value # {"false"})
          [] c.op = "empty" -> actual = {}
          [] c.op = "eq" -> IF actual = {} THEN c.value = {} ELSE actual \cap c.value # {}
          [] c.op = "in" -> actual \cap c.value # {}
          [] c.op \in DOMAIN Negated -> ~matchCondition(row, [c EXCEPT !.op = Negated[c.op]])
          [] c.op \in {"contains", "contains_any"} -> ContainsValue(row, c)
          [] c.op = "contains_all" ->
                actual # {} /\ \A w \in c.value :
                    ContainsValue(row, [c EXCEPT !.op = "contains_any", !.value = {w}])
          [] c.op = "in_setting" -> \E name \in c.value : inSetting(actual, name)
          [] c.op = "nin_setting" -> \A name \in c.value : ~inSetting(actual, name)
          [] OTHER -> \E a \in actual, w \in c.value : <<a, w>> \in Within[c.op]

RECURSIVE compileCond(_, _)
compileCond(cond, row) ==
    \A i \in DOMAIN cond :
        LET e == cond[i]
        IN  CASE e.k = "any_of" -> \E j \in DOMAIN e.alts : compileCond(e.alts[j], row)
              [] e.k = "all_of" -> \A j \in DOMAIN e.alts : compileCond(e.alts[j], row)
              [] e.k = "not" -> ~compileCond(e.alts[1], row)
              [] OTHER -> matchCondition(row, e)

isOutsideHours(hour, start, end) ==
    CASE start = end -> FALSE
      [] start < end -> hour < start \/ hour >= end
      [] OTHER -> hour >= end /\ hour < start

(* time: <<>>, or <<kinds, start, end>>, kinds among "outside" and "weekend"; with none the hours count. *)
timePred(time, row) ==
    time # <<>> =>
        \/ "weekend" \in time[1] /\ row.weekend
        \/ time[1] # {"weekend"} /\ isOutsideHours(row.hour, time[2], time[3])

(***************************************************************************)
(* What can be known of a condition without a row                          *)
(***************************************************************************)
Alternatives(cond, k) == {i \in DOMAIN cond : cond[i].k = k}
Leaves(cond, field, ops) ==
    {i \in DOMAIN cond : cond[i].k = "leaf" /\ cond[i].field = field /\ cond[i].op \in ops}

(* The settings a condition cannot do without and the case has not filled in. *)
RECURSIVE emptyPositiveSettings(_)
emptyPositiveSettings(cond) ==
    UNION {IF cond[i].k = "all_of"
           THEN UNION {emptyPositiveSettings(cond[i].alts[j]) : j \in DOMAIN cond[i].alts}
           ELSE IF cond[i].k = "leaf" /\ cond[i].op = "in_setting" THEN {s \in cond[i].value : Lists[s] = {}}
           ELSE {} : i \in DOMAIN cond}

(* The event ids it is pinned to; {} when it is not.  The first any_of all of whose alternatives are
   pinned counts; an alternative that is not ends the search. *)
RECURSIVE ruleEventIds_Faulty(_)
ruleEventIds_Faulty(cond) == \* faulty: an alternative that pins no id is passed over
    LET direct == UNION {cond[i].value : i \in Leaves(cond, "eventId", {"eq", "in"})}
        Pins(e) == {ruleEventIds_Faulty(e.alts[j]) : j \in DOMAIN e.alts}
    IN  IF direct # {} THEN direct
        ELSE UNION UNION {Pins(cond[i]) : i \in Alternatives(cond, "any_of")}

RECURSIVE ruleEventIds(_)
ruleEventIds(cond) ==
    LET direct == UNION {cond[i].value : i \in Leaves(cond, "eventId", {"eq", "in"})}
        Pins(e) == [j \in DOMAIN e.alts |-> ruleEventIds(e.alts[j])]
        any == Alternatives(cond, "any_of")
        all == {i \in Alternatives(cond, "all_of") : \E ids \in Range(Pins(cond[i])) : ids # {}}
    IN  CASE direct # {} -> direct
          [] any # {} /\ direct = {} ->
                LET pins == Pins(cond[Min(any)]) IN IF {} \in Range(pins) THEN {} ELSE UNION Range(pins)
          [] any = {} /\ all # {} /\ direct = {} ->
                LET pins == SelectSeq(Pins(cond[Min(all)]), LAMBDA ids : ids # {})
                    common == {id \in pins[1] : \A p \in Range(pins) : id \in p}
                IN  IF common = {} THEN pins[1] ELSE common
          [] OTHER -> {}

(* The channels, as leaves: exact names, or parts of one. *)
RECURSIVE ruleChannels(_)
ruleChannels(cond) ==
    LET direct == {cond[i] : i \in Leaves(cond, "channel", {"eq", "in", "contains", "contains_any"})}
        any == Alternatives(cond, "any_of")
        members == UNION {{<<i, j>> : j \in DOMAIN cond[i].alts} : i \in Alternatives(cond, "all_of")}
        pinned == {m \in members : ruleChannels(cond[m[1]].alts[m[2]]) # {}}
        First(ms) == CHOOSE m \in ms : \A o \in ms : m[1] < o[1] \/ (m[1] = o[1] /\ m[2] <= o[2])
    IN  CASE direct # {} -> direct
          [] direct = {} /\ any # {} ->
                LET alts == cond[Min(any)].alts
                    of == {ruleChannels(alts[j]) : j \in DOMAIN alts}
                IN  IF {} \in of THEN {} ELSE UNION of
          [] direct = {} /\ any = {} /\ pinned # {} ->
                LET m == First(pinned) IN ruleChannels(cond[m[1]].alts[m[2]])
          [] OTHER -> {}

RECURSIVE ruleFields(_)
ruleFields(cond) ==
    UNION {IF cond[i].k = "leaf" THEN {cond[i].field}
           ELSE UNION {ruleFields(cond[i].alts[j]) : j \in DOMAIN cond[i].alts} : i \in DOMAIN cond}

defaultEntityFields(r) == IF r.entities # <<>> THEN r.entities ELSE r.group

ruleReadFields(r) ==
    ruleFields(r.where) \cup ruleFields(r.exclude) \cup ruleFields(r.any)
    \cup Range(r.group) \cup Range(r.entities) \cup (r.distinct \ {"none"})

(***************************************************************************)
(* Findings                                                                *)
(***************************************************************************)
Rank(s) == CASE s = "info" -> 0 [] s = "low" -> 1 [] s = "medium" -> 2 [] s = "high" -> 3 [] OTHER -> 4
maxSeverity(a, b) == IF Rank(b) > Rank(a) THEN b ELSE a

Meets(threshold, n) == CASE threshold = <<>> -> n >= 1 [] threshold[1] = "==" -> n = threshold[2]
                         [] OTHER -> n >= threshold[2]

groupKey(row, fields) == [i \in DOMAIN fields |-> getPath(row, fields[i])]
NothingToGroupBy(key) == key # <<>> /\ Range(key) = {{}}

distinctOf(r, rs) ==
    IF r.distinct = {} THEN Len(rs)
    ELSE Cardinality(UNION {UNION {getPath(rs[i], f) : f \in r.distinct} : i \in DOMAIN rs})

entitiesOf(row, fields) == [f \in Range(fields) |-> getPath(row, f)]

(* The flag that raises the finding most, and its row kept among the refs. *)
escalationFor(r, rs) ==
    LET Raise(acc, fs) == IF Rank(fs[2]) > Rank(acc.severity) /\ \E i \in DOMAIN rs : fs[1] \in rs[i].flags
                          THEN [severity |-> fs[2], escalation |-> fs[1]] ELSE acc
        raised == FoldLeft(Raise, [severity |-> r.severity, escalation |-> "none"], r.flags)
        ids == [i \in DOMAIN rs |-> rs[i].id]
        kept == SubSeq(ids, 1, Min({Len(ids), MAX_REFS}))
        why == SelectSeq(rs, LAMBDA x : raised.escalation \in x.flags)
    IN  [severity |-> raised.severity, escalation |-> raised.escalation,
         refs |-> IF why = <<>> \/ why[1].id \in Range(kept) THEN kept
                  ELSE Append(SubSeq(kept, 1, MAX_REFS - 1), why[1].id)]

Finding(r, rs, key) ==
    escalationFor(r, rs) @@ [key |-> key, ts |-> rs[1].ts, tsEnd |-> Last(rs).ts, count |-> Len(rs),
                             entities |-> entitiesOf(rs[1], defaultEntityFields(r))]

(* The sliding window over the rows of one group, oldest first: a burst opens when the window meets
   the threshold, and lasts until a row comes more than a window after its last. *)
Slide_Faulty(r, acc, row) == \* faulty: the burst ends a window after its start
    LET win == SelectSeq(Append(acc.win, row), LAMBDA x : row.ts - x.ts <= r.window)
    IN  IF acc.open # <<>> /\ row.ts - acc.open[1].ts <= r.window
        THEN [acc EXCEPT !.win = win, !.open = Append(@, row)]
        ELSE [win |-> win, out |-> IF acc.open = <<>> THEN acc.out ELSE Append(acc.out, acc.open),
              open |-> IF Meets(r.threshold, distinctOf(r, win)) THEN win ELSE <<>>]

Slide(r, acc, row) ==
    LET win == SelectSeq(Append(acc.win, row), LAMBDA x : row.ts - x.ts <= r.window)
    IN  IF acc.open # <<>> /\ row.ts - Last(acc.open).ts <= r.window
        THEN [acc EXCEPT !.win = win, !.open = Append(@, row)]
        ELSE [win |-> win, out |-> IF acc.open = <<>> THEN acc.out ELSE Append(acc.out, acc.open),
              open |-> IF Meets(r.threshold, distinctOf(r, win)) THEN win ELSE <<>>]

Bursts(r, rs) ==
    LET end == FoldLeft(LAMBDA acc, row : Slide(r, acc, row), [win |-> <<>>, out |-> <<>>, open |-> <<>>], rs)
    IN  IF end.open = <<>> THEN end.out ELSE Append(end.out, end.open)

MINUTE == 60000

Matches(r, all) ==
    SortSeq(SelectSeq(all, LAMBDA x : /\ compileCond(r.where, x)
                                      /\ r.exclude # <<>> => ~compileCond(r.exclude, x)
                                      /\ timePred(r.time, x)),
            LAMBDA x, y : x.ts < y.ts)

(* The groups, in the order their first rows come; rows with nothing in any field are in none. *)
Groups(r, ms) ==
    LET Key(x) == groupKey(x, r.group)
        keys == FoldLeft(LAMBDA ks, x : IF Key(x) \in Range(ks) \/ NothingToGroupBy(Key(x)) THEN ks
                                        ELSE Append(ks, Key(x)), <<>>, ms)
    IN  [i \in DOMAIN keys |-> SelectSeq(ms, LAMBDA x : Key(x) = keys[i])]

OfGroup(r, g) ==
    CASE r.any # <<>> /\ ~\E i \in DOMAIN g : compileCond(r.any, g[i]) -> <<>>
      [] r.window > 0 -> LET bs == Bursts(r, g)
                         IN  [b \in DOMAIN bs |->
                                Finding(r, bs[b], <<groupKey(g[1], r.group), bs[b][1].ts \div MINUTE>>)]
      [] Meets(r.threshold, distinctOf(r, g)) /\ r.window = 0 -> <<Finding(r, g, <<groupKey(g[1], r.group)>>)>>
      [] OTHER -> <<>>

Grouped(r, ms) ==
    FoldLeft(LAMBDA out, g : IF Len(out) >= r.max THEN out ELSE out \o OfGroup(r, g), <<>>, Groups(r, ms))

PerRow(r, ms) == [i \in 1..Min({Len(ms), r.max}) |-> Finding(r, <<ms[i]>>, <<ms[i].id>>)]

(* More rows than collapse_after: the rule is run again, grouped by its entity fields. *)
Collapses(r, ms) == r.group = <<>> /\ r.threshold = <<>> /\ Len(ms) > r.collapse
Collapsed(r) ==
    LET all == defaultEntityFields(r)
        key == SelectSeq(all, LAMBDA f : f \in GroupableField)
    IN  [r EXCEPT !.group = IF key # <<>> THEN key ELSE SubSeq(all, 1, Min({Len(all), 2})),
                  !.threshold = <<">=", 1>>]

(* The first row that follows a finding within the rule's delay, on the entities they share. *)
Follows(r, f, x) ==
    /\ x.ts >= f.ts /\ x.ts <= f.tsEnd + r.within
    /\ \A j \in Range(IF r.join # <<>> THEN r.join ELSE r.group) :
           j \in DOMAIN f.entities /\ f.entities[j] # {} /\ f.entities[j] = getPath(x, j)

Escalate(r, f, candidates) ==
    LET hits == SelectSeq(candidates, LAMBDA x : compileCond(r.then, x) /\ Follows(r, f, x))
    IN  IF r.then = <<>> \/ hits = <<>> THEN f
        ELSE [f EXCEPT !.severity = maxSeverity(f.severity, r.thenSeverity), !.escalation = "then",
                       !.refs = Append(@, hits[1].id), !.tsEnd = Max({f.tsEnd, hits[1].ts})]

FindingFor(r, all, candidates) ==
    LET ms == Matches(r, all)
        fs == IF r.group = <<>> /\ r.threshold = <<>> THEN PerRow(r, ms) ELSE Grouped(r, ms)
    IN  [i \in DOMAIN fs |-> Escalate(r, fs[i], candidates)]

runRule(r, all, candidates) ==
    CASE \E s \in r.requires : Lists[s] = {} -> <<>>
      [] Collapses(r, Matches(r, all)) -> FindingFor(Collapsed(r), all, candidates)
      [] OTHER -> FindingFor(r, all, candidates)

(* Why a rule has no findings. *)
zeroDiag(r, all) ==
    LET matched == SelectSeq(all, LAMBDA x : compileCond(r.where, x))
        kept == SelectSeq(matched, LAMBDA x : r.exclude = <<>> \/ ~compileCond(r.exclude, x))
    IN  CASE \E s \in r.requires : Lists[s] = {} -> "missing_setting"
          [] matched = <<>> /\ emptyPositiveSettings(r.where) # {} -> "missing_setting"
          [] matched = <<>> /\ emptyPositiveSettings(r.where) = {} -> "no_selector_match"
          [] matched # <<>> /\ kept = <<>> -> "all_excluded"
          [] kept # <<>> /\ Matches(r, all) = <<>> -> "outside_time_window"
          [] OTHER -> "below_threshold"

(***************************************************************************)
(* The worker: what is read of the case for a rule                         *)
(***************************************************************************)
Present(field, all) == UNION {getPath(all[i], field) : i \in DOMAIN all}

ruleApplicable(r, all) ==
    r.source = "events" =>
        LET ids == ruleEventIds(r.where) channels == ruleChannels(r.where)
        IN  /\ ids # {} => ids \cap Present("eventId", all) # {}
            /\ channels # {} => \E c \in channels, p \in Present("channel", all) : \E v \in c.value :
                    \/ v = p
                    \/ c.op \in {"contains", "contains_any"} /\ <<p, v>> \in Within["contains"]

keepFor(fields) == {col \in DOMAIN Heavy : Heavy[col] \cap fields # {}}

(* fetchEvents: the events of the pinned ids (all of them when there are none), without the heavy
   columns nobody reads. *)
Without(row, fields) == [row EXCEPT !.f = [x \in DOMAIN @ |-> IF x \in fields THEN {} ELSE @[x]]]
Stripped(row, keep) == Without(row, UNION {Heavy[col] : col \in DOMAIN Heavy \ keep})
fetchEvents(all, ids, keep) ==
    LET read == SelectSeq(all, LAMBDA x : ids = {} \/ x.f["eventId"] \cap ids # {})
    IN  [i \in DOMAIN read |-> Stripped(read[i], keep)]

(* Rules with the same pinned ids share one read, with the columns any of them needs. *)
subset(r, others, all) ==
    LET ids == ruleEventIds(r.where)
        sharing == {r} \cup {o \in others : o.source = "events" /\ ruleEventIds(o.where) = ids}
    IN  fetchEvents(all, ids, UNION {keepFor(ruleReadFields(o)) : o \in sharing})

mailsRead(r, all) ==
    IF ruleFields(r.where) \cap BodyField # {} THEN all
    ELSE [i \in DOMAIN all |-> Without(all[i], BodyField)]

workerRun(r, others, all) ==
    IF ~ruleApplicable(r, all) THEN <<>>
    ELSE IF r.source = "mails" THEN runRule(r, mailsRead(r, all), mailsRead(r, all))
    ELSE runRule(r, subset(r, others, all),
                 fetchEvents(all, ruleEventIds(r.then), keepFor(ruleFields(r.then) \cup Range(r.join))))

(***************************************************************************)
EngineInit == rule \in Rules /\ beside \in {{}, Beside} /\ rows = <<>>

RowArrives(row) ==
    /\ Len(rows) < MaxRows
    /\ rows' = Append(rows, row @@ [id |-> Len(rows) + 1])
    /\ UNCHANGED <<rule, beside>>

EngineNext == \E row \in RowOf : RowArrives(row)

EngineSpec == EngineInit /\ [][EngineNext]_engineVars

(***************************************************************************)
(* Properties                                                              *)
(***************************************************************************)
(* The worker skips the rules it takes to be pinned to ids and channels the case has not, reads the
   rows of the pinned ids only and drops columns: an event rule finds what it would find, run over
   every row in full; and one that it reports blocked by an empty list matches nothing. *)
WorkerMissesNothing ==
    /\ rule.source = "events" => workerRun(rule, beside, rows) = runRule(rule, rows, rows)
    /\ zeroDiag(rule, rows) = "missing_setting" => runRule(rule, rows, rows) = <<>>
    /\ emptyPositiveSettings(rule.where) # {} => Matches(rule, rows) = <<>>

(* The bursts of a group: every row at which the window that ends there meets the threshold is in
   one; no row is in two; and in a burst no two rows in a row are further apart than the window. *)
BurstsAreWhole ==
    rule.window > 0 /\ rule.threshold # <<>> =>
        \A g \in Range(Groups(rule, Matches(rule, rows))) :
            LET bs == Bursts(rule, g)
                In(i) == {b \in DOMAIN bs : g[i] \in Range(bs[b])}
                Dense(i) == Meets(rule.threshold, distinctOf(rule, SelectSeq(SubSeq(g, 1, i),
                                LAMBDA x : g[i].ts - x.ts <= rule.window)))
            IN  \A i \in DOMAIN g :
                    /\ Dense(i) => Cardinality(In(i)) = 1
                    /\ Cardinality(In(i)) <= 1
                    /\ \A b \in In(i) : i > 1 /\ b \in In(i - 1) => g[i].ts - g[i - 1].ts <= rule.window
==============================================================================
