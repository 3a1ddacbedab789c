------------------------------- MODULE Claims -------------------------------
(***************************************************************************)
(* What a report says, read back against the rows it cites                 *)
(* (data/claims.ts).  A finding is verified, unsupported (rows it cites    *)
(* are not in the case) or contradicted (a row no longer matches the rule, *)
(* a value it names is in none of its rows, its time is not its first      *)
(* row's).  A text is unsupported when it names a value its rows do not    *)
(* hold.  A row is [id, ts, matches, then, holds]: the rules it matches as *)
(* they are now, those whose next step it matches, and its values by       *)
(* column.  A text is the sequence of values it names.                     *)
(***************************************************************************)
EXTENDS Gaps

CONSTANTS
    Addresses,    \* the values a text names whatever the case holds: addresses and hashes
    CHECKED_ROWS, \* the rows of a finding read back, its first
    TIME_SLACK,   \* a finding's time is its first row's, this much apart at most
    MAX_NAMED,    \* the values of a text with no rows of its own that are looked for
    MAX_SCANS     \* those among them looked for in the text of every row

Column(row, field) == {h[2] : h \in {h \in row.holds : h[1] = field}}
Earliest(ts) == IF ts = {} THEN 0 ELSE LeastOf(ts)
Apart(a, b) == IF a > b THEN a - b ELSE b - a

CheckedIds(f) == SubSeq(f.refs, 1, IF Len(f.refs) < CHECKED_ROWS THEN Len(f.refs) ELSE CHECKED_ROWS)
RowsRead(rows, ids) == {row \in rows : row.id \in ToSet(ids)}
Absent(rows, ids) == {i \in DOMAIN ids : ~\E row \in rows : row.id = ids[i]}

\* a rule reads columns that a search leaves out: it is not checked against the rows
unreadable(rule, read) == \E field \in rule.reads : read # {} /\ \A row \in read : Column(row, field) = {}

\* `rules` holds the rule, or nothing once it is no longer loaded
Matching(f, rules, read) ==
    {row \in read : \A r \in rules : r.source = f.source /\ ~unreadable(r, read) => f.rule \in row.matches}
OffRule(f, rules, read) ==
    {row \in read : \E r \in rules : r.source = f.source /\ ~unreadable(r, read) /\ f.rule \notin row.matches /\ f.rule \notin row.then}

\* with more rows cited than read, only a key of the group is the same in every row
Comparable(f, rules, name) ==
    \/ Len(f.refs) <= CHECKED_ROWS
    \/ \E r \in rules : name.field \in r.keys /\ name.field # r.distinct
NamedWrongly(f, rules, read) ==
    {name \in f.names : /\ Comparable(f, rules, name)
                        /\ \E v \in name.values : \A row \in read : v \notin Column(row, name.field)
                        /\ \E row \in read : Column(row, name.field) # {}}

TimeWrong(f, ts) == f.ts # 0 /\ ts # {} /\ Apart(f.ts, Earliest(ts)) > TIME_SLACK

Judged(f, rules, read, missing) ==
    LET whole == read # {} /\ missing = {} /\ f.rule # "chain"
        wrong == \/ OffRule(f, rules, read) # {}
                 \/ whole /\ NamedWrongly(f, rules, read) # {}
                 \/ whole /\ TimeWrong(f, {row.ts : row \in Matching(f, rules, read)} \ {0})
    IN  IF wrong THEN "contradicted" ELSE IF f.refs = <<>> \/ missing # {} THEN "unsupported" ELSE "verified"

checkFinding(f, rules, rows) ==
    LET Of(ids) == Judged(f, {r \in rules : r.id = f.rule}, RowsRead(rows, ids), Absent(rows, ids))
    IN  [status |-> Of(CheckedIds(f)), cited |-> Len(f.refs)]

checkFindings(findings, rules, rows) == [f \in findings |-> checkFinding(f, rules, rows)]

-----------------------------------------------------------------------------
(* Texts *)

\* the addresses and hashes a text names, and the case's names it mentions
namedValues(text, names) == SelectSeq(text, LAMBDA v : v \in Addresses \cup names)
ValuesOf(rows) == {h[2] : h \in UNION {row.holds : row \in rows}}

checkText(text, rows, names) ==
    IF ToSet(namedValues(text, names)) \subseteq ValuesOf(rows) THEN "verified" ELSE "unsupported"

\* a text with no rows of its own: the indicators answer first, then the rows, for the first few
FirstNamed(named) == SubSeq(named, 1, IF Len(named) < MAX_NAMED THEN Len(named) ELSE MAX_NAMED)
Unlisted(text, iocs) == SelectSeq(FirstNamed(namedValues(text, {})), LAMBDA v : v \notin iocs)
checkTextInCase(text, rows, iocs) ==
    LET Of(unlisted) ==
            IF \A i \in DOMAIN unlisted : i <= MAX_SCANS /\ unlisted[i] \in ValuesOf(rows) THEN "verified" ELSE "unsupported"
    IN  Of(Unlisted(text, iocs))

\* the values the findings name: what a text may mention
caseNames(findings) == UNION {name.values : name \in UNION {f.names : f \in findings}}

TextChecks(texts, rows, names) ==
    {[key |-> t.key, status |-> checkText(t.text, RowsRead(rows, t.refs), names)] : t \in {t \in texts : t.text # <<>>}}

\* `texts` are the narratives of the chains, the notes of the incidents and of the stories printed
loadReportClaims(findings, texts, summary, rules, rows, iocs) ==
    [findings |-> checkFindings(findings, rules, rows),
     texts |-> TextChecks(texts, rows, caseNames(findings))
               \cup When(summary # <<>>, {[key |-> "summary", status |-> checkTextInCase(summary, rows, iocs)]})]
=============================================================================
