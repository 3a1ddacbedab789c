------------------------------- MODULE Report -------------------------------
(***************************************************************************)
(* The report of a case: the two documents made from its data              *)
(* (data/reportHtml.ts, data/reportDocx.ts), the exports for a responder's *)
(* own tools (util/responderExports.ts), and the page that gathers the     *)
(* data, drafts or edits the summary, has the claims checked and exports   *)
(* (views/ReportView.tsx, data/reportSummary.ts).  A document is a         *)
(* sequence of sections, [id, count, body]; the layout is left out, the    *)
(* selection and the verdict are those of module Review.                   *)
(*                                                                         *)
(* The page reads the database piece by piece and nothing ties an answer   *)
(* to the case or to the reading that asked for it; only the check of the  *)
(* claims drops an answer that comes too late.                             *)
(***************************************************************************)
EXTENDS Claims

CONSTANTS
    Cases,         \* the cases of the browser, one of them on the page
    Contents,      \* [Cases -> the sequence of its contents]: one more after each rule run or story build
    Blank,         \* what the page has before anything arrives; no settings yet
    Pieces,        \* the readings of the page, each a set of the fields that arrive together
    CheckedFields, \* the fields the check of the claims depends on
    DraftOf,       \* [Cases -> the summary the model drafts]
    Edits,         \* the texts the analyst types
    MAX_MOMENTS,   \* the decided items listed under "What happened"
    MAX_STEP_ROWS, \* the step rows a chain prints
    MAX_LIMITS,    \* the claims not verified listed under "Where it stops"
    MaxTicks,      \* bound: the edits, drafts, savings, changes, switches and exports
    MaxReads       \* bound: the checks of the claims under way

ASSUME DraftsAssumption == \A k \in Cases : DraftOf[k] \notin Edits \cup {<<>>}
ASSUME FieldsAssumption == Blank = [f \in DOMAIN Blank |-> Blank[f]] /\ CheckedFields \subseteq DOMAIN Blank
ASSUME LogsAssumption ==
    /\ BUFFER \in Nat
    /\ \A k \in Cases : /\ Len(Contents[k]) \in Nat \ {0}
                       /\ \A n \in 1 .. Len(Contents[k]) : FilesAre(filesOf(Contents[k][n].logs))

VARIABLES
    held,      \* [Cases -> Nat]: which content each case holds now
    summaries, \* [Cases -> the summary stored]: report-summary-, report-summary-by- and report-summary-at-
    kase,      \* the case on the page
    page,      \* what the page has: the data, the summary in its text box and who wrote it, the claims
    loads,     \* the readings under way
    reads,     \* the checks of the claims under way
    draft,     \* the draft under way: the case it is of and how far it is
    exported,  \* the last document or export made
    tick       \* the time, and how many edits and changes so far

reportVars == <<held, summaries, kase, page, loads, reads, draft, exported, tick>>

Ordered == <<"info", "low", "medium", "high", "critical">>
rankOf(sev) == CHOOSE i \in DOMAIN Ordered : Ordered[i] = sev
Worst(sevs) == CHOOSE s \in sevs : \A t \in sevs : rankOf(t) <= rankOf(s)
UpTo(s, n) == SubSeq(s, 1, IF Len(s) < n THEN Len(s) ELSE n)
Section(id, count, body) == <<[id |-> id, count |-> count, body |-> body]>>
SectionIf(shown, id, count, body) == IF shown THEN Section(id, count, body) ELSE <<>>
IdsIn(findings) == {f.id : f \in findings}

-----------------------------------------------------------------------------
(* Findings by rule *)

\* whether a rule's findings hold against the rows they cite: the worst of them
claimNote(findings, claims) ==
    LET statuses == {claims[f].status : f \in findings \cap DOMAIN claims}
    IN  IF statuses = {} THEN "unchecked"
        ELSE IF "contradicted" \in statuses THEN "contradicted"
        ELSE IF "unsupported" \in statuses THEN "unsupported" ELSE "verified"

RuleLine(findings, claims) ==
    [rule |-> (CHOOSE f \in findings : TRUE).rule, ids |-> IdsIn(findings), severity |-> Worst({f.sev : f \in findings}),
     first |-> Earliest({f.ts : f \in findings} \ {0}), statuses |-> {f.status : f \in findings},
     lead |-> \E f \in findings : f.lead, claim |-> claimNote(findings, claims)]

\* one line per rule, the worst first
groupByRule(findings, claims) ==
    {RuleLine({f \in findings : f.rule = r}, claims) : r \in {f.rule : f \in findings}}

-----------------------------------------------------------------------------
(* What happened *)

Untimed == 1000 \* after every event time
MomentOf(kind, key, ts, decision) == [kind |-> kind, key |-> key, ts |-> ts, decision |-> decision]
Decided(d) ==
    {MomentOf("chain", c.id, c.start, c.verdict) : c \in {c \in ToSet(d.chains) : c.verdict \in {"confirmed", "unsure"}}}
    \cup {MomentOf("incident", i.lead, IF i.ts = 0 THEN Untimed ELSE i.ts, IF i.status = "escalated" THEN "confirmed" ELSE i.status) :
          i \in {i \in ToSet(d.incidents) : i.status \notin {"new", "false_positive"}}}
    \cup {MomentOf("story", s.key, s.start, s.verdict) :
          s \in {s \in d.decidedStories : s.printed /\ s.verdict \in {"confirmed", "reviewed"}}}

\* once something is confirmed only that happened
Chosen(decided) == IF \E m \in decided : m.decision = "confirmed" THEN {m \in decided : m.decision = "confirmed"} ELSE decided
moments(d) ==
    LET Of(chosen) == [items |-> UpTo(SetToSortSeq(chosen, LAMBDA a, b : a.ts < b.ts), MAX_MOMENTS), total |-> Cardinality(chosen)]
    IN  Of(Chosen(Decided(d)))

-----------------------------------------------------------------------------
(* Chains, stories and incidents *)

\* consecutive steps that say the same print as one row
foldSteps(steps) ==
    FoldLeft(LAMBDA rows, s : IF rows # <<>> /\ Last(rows).key = s.key
                              THEN Front(rows) \o <<[key |-> s.key, n |-> Last(rows).n + 1]>>
                              ELSE Append(rows, [key |-> s.key, n |-> 1]),
             <<>>, steps)
stepVisible(s, detail) == detail = "all" \/ ~s.routine

MembersOf(ids, d) == {f \in d.findings : f.id \in ids /\ f.rule # "chain"}
TextNote(key, d) == {t.status : t \in {t \in d.texts : t.key = key}} \ {"verified"}

ChainCard(c, folded, visible, d) ==
    [chain |-> c.id, verdict |-> c.verdict, steps |-> UpTo(folded, MAX_STEP_ROWS), left |-> Len(folded) > MAX_STEP_ROWS,
     hidden |-> Len(c.steps) - Len(visible), note |-> TextNote(c.id, d), members |-> groupByRule(MembersOf(c.members, d), d.claims)]
chainCard(c, d) ==
    LET Of(visible) == ChainCard(c, foldSteps(visible), visible, d)
    IN  Of(SelectSeq(c.steps, LAMBDA s : stepVisible(s, d.settings.detail)))

storyCard(s, d) ==
    [story |-> s.key, verdict |-> s.verdict, spine |-> s.spine, disputed |-> s.disputed, note |-> TextNote(s.key, d),
     phases |-> {st.phase : st \in {st \in s.steps : st.phase # GapNone}},
     marks |-> {st.phase : st \in {st \in s.steps : st.id \notin s.disputed}} \ {GapNone}, gaps |-> s.gaps]
\* the printed stories of one intrusion stand together
storyCards(d) ==
    [n \in {s.group : s \in ToSet(d.stories)} |->
        LET inside == SelectSeq(d.stories, LAMBDA s : s.group = n) IN [i \in DOMAIN inside |-> storyCard(inside[i], d)]]
storiesCaveats(d) == {c \in DOMAIN d.caveats : d.caveats[c]}

incidentCard(i, d) ==
    [incident |-> i.lead, status |-> i.status, severity |-> i.sev, note |-> TextNote(i.lead, d),
     lines |-> groupByRule(MembersOf(i.findings, d), d.claims)]

-----------------------------------------------------------------------------
(* Method and limits *)

aiTexts(d) ==
    {c.id : c \in {c \in ToSet(d.chains) : c.ai}} \cup {i.lead : i \in {i \in ToSet(d.incidents) : i.ai}}
    \cup When(d.summaryBy = "ai", {"summary"})

\* the claims not verified, those its rows contradict first
ClaimLimits(d) ==
    SetToSeq({<<f.id, "contradicted">> : f \in {f \in d.findings \cap DOMAIN d.claims : d.claims[f].status = "contradicted"}})
    \o SetToSeq({<<f.id, "unsupported">> : f \in {f \in d.findings \cap DOMAIN d.claims : d.claims[f].status = "unsupported"}})
    \o SetToSeq({<<t.key, "unsupported">> : t \in {t \in d.texts : t.status # "verified"}})

sources(d) ==
    [files |-> Len(d.evidence), rules |-> {f.rule : f \in d.findings}, floor |-> d.settings.floor,
     checked |-> Cardinality(d.findings \cap DOMAIN d.claims), dismissed |-> d.dismissed, ai |-> aiTexts(d)]

\* what both documents say of where the report stops
commonLimits(d) ==
    When(d.issue.status = "draft", {<<"draft", d.issue.open>>}) \cup {<<"waived", w>> : w \in d.issue.waived}
    \cup {<<"gap", g>> : g \in d.gaps} \cup {<<"chains", c>> : c \in d.coverage}
    \cup {<<"iocs", d.iocsChecked>>} \cup When(~d.rulesRan, {<<"rules not run", TRUE>>})
    \cup When(d.evidenceAfter > 0, {<<"rules", d.evidenceAfter>>})
    \cup {<<"confidence", r>> : r \in d.reasons \ {"every item decided"}}

limits(d) ==
    LET Claimed(claims) == {<<"claim", UpTo(claims, MAX_LIMITS)[i]>> : i \in DOMAIN UpTo(claims, MAX_LIMITS)}
                           \cup When(Len(claims) > MAX_LIMITS, {<<"more claims", Len(claims) - MAX_LIMITS>>})
    IN  commonLimits(d) \cup Claimed(ClaimLimits(d))
        \cup When(d.questions.open > 0, {<<"questions open", d.questions.open>>})
        \cup When(d.questions.cannot > 0, {<<"questions without answer", d.questions.cannot>>})
        \cup When(\E f \in d.findings : f.lead, {<<"leads", IdsIn({f \in d.findings : f.lead})>>})
        \cup When(d.stories # <<>>, {<<"stories", c>> : c \in storiesCaveats(d) \cap {"stale", "incomplete"}})
        \cup {<<"package", i>> : i \in d.packageIssues}
        \cup {<<"evidence", d.evidence[i].name>> : i \in {i \in DOMAIN d.evidence : d.evidence[i].issue /\ ~d.evidence[i].package}}

-----------------------------------------------------------------------------
(* The documents *)

SummaryBody(d) ==
    [by |-> d.summaryBy, text |-> d.summary, behind |-> \E f \in d.findings : f.created > d.summaryAt]
EvidenceBody(d) == [i \in DOMAIN d.evidence |-> [file |-> d.evidence[i].name, whole |-> ~d.evidence[i].issue]]
Relationships(d) == {r \in d.relationships : r.accepted /\ r.printed}
IocBody(d) == d.iocs

Cover(d) == [issue |-> d.issue.status, undecided |-> d.undecided, findings |-> Cardinality(d.findings)]
Summary(d) == SectionIf(d.summary # <<>>, "summary", 1, SummaryBody(d))
Happened(d) == Section("happened", moments(d).total, moments(d).items)
Evidence(d) == SectionIf(d.settings.evidence, "evidence", Len(d.evidence), EvidenceBody(d))
Related(d) == SectionIf(Relationships(d) # {}, "relationships", Cardinality(Relationships(d)), Relationships(d))
Indicators(d) == SectionIf(d.settings.iocs, "iocs", Cardinality(d.iocs), IocBody(d))
Timeline(d) == SectionIf(d.settings.notes /\ d.timeline # {}, "timeline", Cardinality(d.timeline), d.timeline)
Tasks(d) == SectionIf(d.settings.notes /\ d.tasks # {}, "tasks", Cardinality(d.tasks), d.tasks)
Notes(d) == SectionIf(d.settings.notes /\ d.notes # {}, "notes", Cardinality(d.notes), d.notes)

buildReportHtml(d) ==
    Section("cover", 0, Cover(d)) \o Summary(d) \o Happened(d)
    \o SectionIf(d.questions.chosen, "questions", d.questions.answered + d.questions.cannot + d.questions.open, d.questions)
    \o SectionIf(d.stories # <<>>, "stories", Len(d.stories), <<storiesCaveats(d), storyCards(d), d.left, d.dismissed>>)
    \o SectionIf(d.chains # <<>>, "chains", Len(d.chains), [i \in DOMAIN d.chains |-> chainCard(d.chains[i], d)])
    \o Section("incidents", Len(d.incidents), [i \in DOMAIN d.incidents |-> incidentCard(d.incidents[i], d)])
    \o Evidence(d) \o Related(d) \o Indicators(d) \o Timeline(d) \o Tasks(d) \o Notes(d)
    \o Section("findings", Cardinality({f.rule : f \in d.findings}), groupByRule(d.findings, d.claims))
    \o SectionIf(d.aiRuns > 0, "ai", 1, d.aiRuns)
    \o Section("method", 1, [sources |-> sources(d), limits |-> limits(d)])
    \o Section("settings", 1, d.settings)

\* the Word document checks no claim, says nothing of the questions or of the model's runs, and of a
\* story only its note and its first gaps
DocxStory(s) == [story |-> s.key, gaps |-> s.gaps]
DocxChain(c, d) == [chain |-> c.id, verdict |-> c.verdict, steps |-> Len(c.steps), members |-> groupByRule(MembersOf(c.members, d), <<>>)]
DocxIncident(i, d) == [incident |-> i.lead, status |-> i.status, severity |-> i.sev, lines |-> groupByRule(MembersOf(i.findings, d), <<>>)]
reportDocumentXml(d) ==
    Section("cover", 0, Cover(d)) \o Summary(d) \o Happened(d)
    \o SectionIf(d.stories # <<>>, "stories", Len(d.stories), <<[i \in DOMAIN d.stories |-> DocxStory(d.stories[i])], d.left>>)
    \o SectionIf(d.chains # <<>>, "chains", Len(d.chains), [i \in DOMAIN d.chains |-> DocxChain(d.chains[i], d)])
    \o Section("incidents", Len(d.incidents), [i \in DOMAIN d.incidents |-> DocxIncident(d.incidents[i], d)])
    \o Evidence(d) \o Related(d) \o Indicators(d) \o Timeline(d) \o Tasks(d) \o Notes(d)
    \o Section("findings", Cardinality({f.rule : f \in d.findings}), groupByRule(d.findings, <<>>))
    \o Section("method", 1, [limits |-> commonLimits(d)])
    \o Section("settings", 1, d.settings)

\* a line needs a time; every finding but the false positives, whatever the report prints
timelineRecords(all, timeline) ==
    [records |-> {<<"finding", f.id>> : f \in {f \in all : f.ts # 0 /\ f.status # "false_positive"}}
                 \cup {<<"note", n.key>> : n \in {n \in timeline : n.ts # 0}},
     untimed |-> Cardinality({f \in all : f.ts = 0 /\ f.status # "false_positive"}) + Cardinality({n \in timeline : n.ts = 0})]
navigatorLayer(all) ==
    LET shown == {f \in all : f.status # "false_positive"}
    IN  [t \in UNION {f.attack : f \in shown} |->
            [worst |-> Worst({f.sev : f \in {f \in shown : t \in f.attack}}), ids |-> IdsIn({f \in shown : t \in f.attack})]]

-----------------------------------------------------------------------------
(* The page *)

NoSettings == [none |-> TRUE]
NoSummary == [text |-> <<>>, by |-> GapNone, at |-> 0]
NoDraft == [kase |-> GapNone, step |-> GapNone]

ReportInit ==
    /\ held = [k \in Cases |-> 1] /\ summaries = [k \in Cases |-> NoSummary]
    /\ kase \in Cases
    /\ page = [data |-> Blank, summary |-> NoSummary, claims |-> <<>>, busy |-> FALSE]
    /\ loads = {[fields |-> p, kase |-> kase, content |-> 1, summary |-> NoSummary] : p \in Pieces \cup {{}}}
    /\ reads = {} /\ draft = NoDraft /\ exported = <<>> /\ tick = 0

Tick == tick < MaxTicks /\ tick' = tick + 1

\* every piece is read again; the summary is the piece without fields
Reload(k, h) == loads' = loads \cup {[fields |-> p, kase |-> k, content |-> h[k], summary |-> summaries[k]] : p \in Pieces \cup {{}}}

\* the claims depend on what the page prints: they are cleared, the check before is dropped and another is due
\* faulty: the check before is not dropped
Outdated_Faulty(checks) == {r \in checks : r.out}
Outdated(checks) == {[r EXCEPT !.alive = FALSE] : r \in {r \in checks : r.out}}
InputsOf(k, data, text) == [kase |-> k, fields |-> [f \in CheckedFields |-> data[f]], text |-> text]
Recheck(k, pg) ==
    /\ page' = [pg EXCEPT !.claims = <<>>]
    /\ reads' = Outdated(reads)
                \cup When(pg.data.settings # NoSettings, {[out |-> FALSE, alive |-> TRUE, inputs |-> InputsOf(k, pg.data, pg.summary.text)]})
RecheckIf(changed, k, pg) ==
    \/ changed /\ Recheck(k, pg)
    \/ ~changed /\ page' = pg /\ UNCHANGED reads

\* the rules ran or the stories were built in the case on the page
RulesChanged ==
    /\ Tick /\ held[kase] < Len(Contents[kase])
    /\ held' = [held EXCEPT ![kase] = @ + 1] /\ Reload(kase, held')
    /\ UNCHANGED <<summaries, kase, page, reads, draft, exported>>

\* another case, with the page still open: it keeps what it has until the new pieces arrive
SwitchCase(k) ==
    /\ Tick /\ k # kase /\ kase' = k /\ Reload(k, held) /\ Recheck(k, page)
    /\ UNCHANGED <<held, summaries, draft, exported>>

\* the gaps are worked out from the evidence and from the first finding that matters
loadEvidenceGaps(c) == evidenceGaps(c.logs, incidentStart(c.all), c.signIns, c.throttled)
Field(c, f) == IF f = "gaps" THEN loadEvidenceGaps(c) ELSE c[f]

\* a piece arrives, whatever case and reading it is of
Arrives(l) ==
    /\ loads' = loads \ {l}
    /\ IF l.fields = {} THEN RecheckIf(l.summary.text # page.summary.text, kase, [page EXCEPT !.summary = l.summary])
       ELSE RecheckIf(l.fields \cap CheckedFields # {}, kase,
                      [page EXCEPT !.data = [f \in DOMAIN Blank |-> IF f \in l.fields THEN Field(Contents[l.kase][l.content], f) ELSE @[f]]])
    /\ UNCHANGED <<held, summaries, kase, draft, exported, tick>>

\* the check starts once the summary has settled (400 ms), and answers later
CheckStarts(r) ==
    /\ ~r.out /\ Cardinality({x \in reads : x.out}) < MaxReads
    /\ reads' = (reads \ {r}) \cup {[r EXCEPT !.out = TRUE]}
    /\ UNCHANGED <<held, summaries, kase, page, loads, draft, exported, tick>>
ReadBack(i) ==
    LET Of(now) == loadReportClaims(i.fields.findings, i.fields.narratives, i.text, now.rules, now.rows, now.flagged)
    IN  Of(Contents[i.kase][held[i.kase]])
CheckAnswers(r) ==
    /\ r.out /\ reads' = reads \ {r}
    /\ page' = IF r.alive THEN [page EXCEPT !.claims = <<[of |-> r.inputs, result |-> ReadBack(r.inputs)]>>] ELSE page
    /\ UNCHANGED <<held, summaries, kase, loads, draft, exported, tick>>

Ready == page.data.settings # NoSettings

TypeSummary(t) ==
    /\ Ready /\ Tick /\ t # page.summary.text
    /\ Recheck(kase, [page EXCEPT !.summary.text = t, !.summary.by = "analyst"])
    /\ UNCHANGED <<held, summaries, kase, loads, draft, exported>>

\* leaving the text box saves what it shows under the case on the page, typed in or not
\* faulty: whoever leaves the box wrote the text
Author_Faulty(by) == "analyst"
Author(by) == IF by = GapNone THEN "analyst" ELSE by
SaveSummary ==
    /\ Ready /\ Tick /\ page' = [page EXCEPT !.summary.at = tick']
    /\ summaries' = [summaries EXCEPT ![kase] = [text |-> page.summary.text, by |-> Author(page.summary.by), at |-> tick']]
    /\ UNCHANGED <<held, kase, loads, reads, draft, exported>>

\* the draft: asked for, saved with its author, entered in the ledger, shown on whatever page there is then
AskDraft ==
    /\ Ready /\ ~page.busy /\ page' = [page EXCEPT !.busy = TRUE] /\ draft' = [kase |-> kase, step |-> "model"]
    /\ UNCHANGED <<held, summaries, kase, loads, reads, exported, tick>>
draftExecutiveSummary ==
    /\ draft.step = "model" /\ Tick /\ draft' = [draft EXCEPT !.step = "ledger"]
    /\ summaries' = [summaries EXCEPT ![draft.kase] = [text |-> DraftOf[draft.kase], by |-> "ai", at |-> tick']]
    /\ UNCHANGED <<held, kase, page, loads, reads, exported>>
DraftShown ==
    /\ draft.step = "ledger" /\ draft' = NoDraft
    /\ RecheckIf(DraftOf[draft.kase] # page.summary.text, kase,
                 [page EXCEPT !.busy = FALSE, !.summary = [text |-> DraftOf[draft.kase], by |-> "ai", at |-> tick]])
    /\ UNCHANGED <<held, summaries, kase, loads, exported, tick>>
DraftFails ==
    /\ draft.step = "model" /\ draft' = NoDraft /\ page' = [page EXCEPT !.busy = FALSE]
    /\ UNCHANGED <<held, summaries, kase, loads, reads, exported, tick>>

\* the data a document is made from: what the page has, the claims once they are back
reportData ==
    LET checked == IF page.claims = <<>> THEN [findings |-> <<>>, texts |-> {}] ELSE page.claims[1].result
        own == [summary |-> page.summary.text, summaryBy |-> page.summary.by, summaryAt |-> page.summary.at,
                claims |-> checked.findings, texts |-> checked.texts]
    IN  [f \in DOMAIN own \cup DOMAIN page.data |-> IF f \in DOMAIN own THEN own[f] ELSE page.data[f]]
Export(kind, document) ==
    /\ Ready /\ Tick /\ exported' = <<kind, document>>
    /\ UNCHANGED <<held, summaries, kase, page, loads, reads, draft>>
ExportHtml == Export("html", buildReportHtml(reportData))
ExportDocx == Export("docx", reportDocumentXml(reportData))
ExportTimeline == Export("timeline", timelineRecords(page.data.all, page.data.timeline))
ExportLayer == Export("layer", navigatorLayer(page.data.all))

ReportNext ==
    \/ RulesChanged \/ \E k \in Cases : SwitchCase(k)
    \/ \E l \in loads : Arrives(l)
    \/ \E r \in reads : CheckStarts(r) \/ CheckAnswers(r)
    \/ \E t \in Edits : TypeSummary(t)
    \/ SaveSummary \/ AskDraft \/ draftExecutiveSummary \/ DraftShown \/ DraftFails
    \/ ExportHtml \/ ExportDocx \/ ExportTimeline \/ ExportLayer
ReportSpec == ReportInit /\ [][ReportNext]_reportVars

-----------------------------------------------------------------------------
(* What must hold of the page and of what it exports *)

\* The claims on the page are those of what the page prints: findings, texts and rules are read back for
\* a while (ReportView.tsx:179-204), and the answer to an earlier state of the page, or to another case,
\* is never shown under this one.
ClaimsAreCurrent == \A i \in DOMAIN page.claims : page.claims[i].of = InputsOf(kase, page.data, page.summary.text)

\* A summary the model drafted and nobody edited is labelled as the model's: where it is stored, on the
\* page and in both documents (ReportView.tsx:80 "the model's draft is labelled in the report until the
\* analyst edits it"), whichever case it was written for and whoever left the text box.
Labelled(s) == \A k \in Cases : s.text = DraftOf[k] => s.by = "ai"
DraftLabelled ==
    /\ Labelled(page.summary) /\ \A k \in Cases : Labelled(summaries[k])
    /\ exported # <<>> /\ exported[1] \in {"html", "docx"} =>
           \A i \in DOMAIN exported[2] : exported[2][i].id = "summary" => Labelled(exported[2][i].body)

\* What the page says of its own text: the claims belong to the text shown, and the text says who wrote it.
SummaryIsHonest == ClaimsAreCurrent /\ DraftLabelled

\* Every record number between the first and the last record of a log is in one of the case's files or
\* said to be in none (evidenceGaps.ts:308-333), and every write time that steps back without a reason is
\* said once for its file or its machine (:217-305): the documents print these statements first.
Accounted(logs) ==
    /\ NumbersAccounted(filesOf(logs))
    /\ StepsAccounted(filesOf(logs), RecordedSetBacks(fileSequences(logs)))
GapsAccounted == exported # <<>> => \A n \in {held[kase]} : Accounted(Contents[kase][n].logs)
=============================================================================
