-------------------------- MODULE Workspace_proofs --------------------------
(***************************************************************************)
(* Proofs about what an analyst reads of a case beside its findings: the   *)
(* report, the stories and the pages over the rows.                        *)
(*                                                                         *)
(* The report: for any cases and what is read from them, any fields a      *)
(* check reads, any drafts and edits, and whatever order readings, drafts  *)
(* and answers arrive in, the claims on the page are of what it says now,  *)
(* and a summary that the model wrote says so in the store, on the page    *)
(* and in both documents.  And for any log files, in any order and however *)
(* they overlap, what the report says of missing records and of clocks     *)
(* that step back leaves nothing out.                                      *)
(*                                                                         *)
(* The stories: for any engine, however many builds two tabs start, leave  *)
(* or lose while the case gets more evidence, a kept build that is offered *)
(* as current is what a build would make now; and for any steps, weights   *)
(* and techniques, disputing steps never raises a story.                   *)
(*                                                                         *)
(* The pages over the rows: for any rows, filters and limits, a search     *)
(* lists rows that pass its filter, the newest of them (or the oldest)     *)
(* when it sorts by time, whichever index it reads; and for any imports,   *)
(* edits, marks and cases opened, whatever is stopped, fails or answers    *)
(* late, that is what a list page shows when it is at rest.                *)
(***************************************************************************)
EXTENDS Report, StoryDecisions, Explore, SequenceTheorems, FiniteSetTheorems, WellFoundedInduction, TLAPS

-----------------------------------------------------------------------------
(* The report: the inductive invariant *)

\* What the page reads back claims for.
Now == InputsOf(kase, page.data, page.summary.text)

\* A summary: its text, who wrote it and when.
IsSummary(s) == s = [text |-> s.text, by |-> s.by, at |-> s.at] /\ Labelled(s)

\* The page: its data field by field, a summary, the claims.
IsPage(pg) ==
  /\ pg = [data |-> pg.data, summary |-> pg.summary, claims |-> pg.claims, busy |-> pg.busy]
  /\ pg.data = [f \in DOMAIN Blank |-> pg.data[f]]
  /\ IsSummary(pg.summary)

\* A check of the claims that is still wanted is of what the page says now, and so are the claims shown.
Checks(rs, says) == \A r \in rs :
  /\ r = [out |-> r.out, alive |-> r.alive, inputs |-> r.inputs]
  /\ r.alive => r.inputs = says
Claimed(pg, says) == \A i \in DOMAIN pg.claims : pg.claims[i].of = says

\* Every summary, stored or on its way to the page, says when the model wrote it.
Stored ==
  /\ kase \in Cases
  /\ summaries = [k \in Cases |-> summaries[k]] /\ \A k \in Cases : IsSummary(summaries[k])
  /\ \A l \in loads : IsSummary(l.summary)
  /\ draft = [kase |-> draft.kase, step |-> draft.step] /\ (draft.step # GapNone => draft.kase \in Cases)

\* A document: the summary in it is labelled.
IsDocument(s) ==
  /\ Len(s) \in Nat /\ s = [i \in 1 .. Len(s) |-> s[i]]
  /\ \A i \in 1 .. Len(s) : s[i].id = "summary" => Labelled(s[i].body)
Exported == exported # <<>> /\ exported[1] \in {"html", "docx"} => IsDocument(exported[2])

ReportInv == IsPage(page) /\ Checks(reads, Now) /\ Claimed(page, Now) /\ Stored /\ Exported

-----------------------------------------------------------------------------
(* Documents *)

\* A sequence is a function on its indices.
LEMMA SequenceIs ==
  ASSUME NEW S, NEW u \in Seq(S)
  PROVE  u = [i \in 1 .. Len(u) |-> u[i]] /\ Len(u) \in Nat
OBVIOUS

\* Two documents one after the other.
LEMMA DocumentsJoin ==
  ASSUME NEW s, NEW t, IsDocument(s), IsDocument(t)
  PROVE  IsDocument(s \o t)
<1>. DEFINE S == {s[i] : i \in 1 .. Len(s)} \cup {t[i] : i \in 1 .. Len(t)}
<1>1. s \in [1 .. Len(s) -> S] /\ t \in [1 .. Len(t) -> S]
  BY DEF IsDocument
<1>2. s \in Seq(S) /\ t \in Seq(S)
  BY <1>1 DEF IsDocument
<1>. HIDE DEF S
<1>3. /\ s \o t \in Seq(S) /\ Len(s \o t) = Len(s) + Len(t)
      /\ \A i \in 1 .. Len(s) + Len(t) : (s \o t)[i] = IF i <= Len(s) THEN s[i] ELSE t[i - Len(s)]
  BY <1>2, ConcatProperties
<1>4. s \o t = [i \in 1 .. Len(s \o t) |-> (s \o t)[i]] /\ Len(s \o t) \in Nat
  BY <1>3, SequenceIs
<1>5. ASSUME NEW i \in 1 .. Len(s \o t), (s \o t)[i].id = "summary"
      PROVE  Labelled((s \o t)[i].body)
  <2>1. i \in 1 .. Len(s) + Len(t) /\ Len(s) \in Nat /\ Len(t) \in Nat
    BY <1>3 DEF IsDocument
  <2>2. CASE i <= Len(s)
    BY <1>3, <1>5, <2>1, <2>2 DEF IsDocument
  <2>3. CASE ~(i <= Len(s))
    <3>1. i - Len(s) \in 1 .. Len(t) /\ (s \o t)[i] = t[i - Len(s)]
      BY <1>3, <2>1, <2>3
    <3>. QED BY <1>5, <3>1 DEF IsDocument
  <2>. QED BY <2>2, <2>3
<1>. QED BY <1>4, <1>5 DEF IsDocument

\* No section but the summary's has to be labelled.
LEMMA SectionIsDocument ==
  ASSUME NEW id, NEW count, NEW body, id = "summary" => Labelled(body)
  PROVE  IsDocument(Section(id, count, body))
<1>. DEFINE e == [id |-> id, count |-> count, body |-> body]
<1>1. e.id = id /\ e.body = body
  OBVIOUS
<1>2. Section(id, count, body) = <<e>>
  BY DEF Section
<1>. HIDE DEF e
<1>3. Len(<<e>>) = 1 /\ <<e>>[1] = e /\ <<e>> = [i \in 1 .. 1 |-> <<e>>[i]]
  OBVIOUS
<1>. QED BY <1>1, <1>2, <1>3 DEF IsDocument

\* A section that may be left out.
LEMMA SectionIfIsDocument ==
  ASSUME NEW shown, NEW id, NEW count, NEW body, id = "summary" => Labelled(body)
  PROVE  IsDocument(SectionIf(shown, id, count, body))
<1>1. IsDocument(<<>>)
  <2>1. Len(<<>>) = 0 /\ <<>> = [i \in 1 .. 0 |-> <<>>[i]]
    OBVIOUS
  <2>. QED BY <2>1 DEF IsDocument
<1>2. IsDocument(Section(id, count, body))
  BY SectionIsDocument
<1>. QED BY <1>1, <1>2 DEF SectionIf

\* The sections both documents have.
LEMMA CommonSections ==
  ASSUME NEW d, Labelled(SummaryBody(d))
  PROVE  /\ IsDocument(Section("cover", 0, Cover(d))) /\ IsDocument(Summary(d)) /\ IsDocument(Happened(d))
         /\ IsDocument(Evidence(d)) /\ IsDocument(Related(d)) /\ IsDocument(Indicators(d))
         /\ IsDocument(Timeline(d)) /\ IsDocument(Tasks(d)) /\ IsDocument(Notes(d))
<1>1. IsDocument(Section("cover", 0, Cover(d))) /\ IsDocument(Happened(d))
  BY SectionIsDocument DEF Happened
<1>2. IsDocument(Summary(d)) /\ IsDocument(Evidence(d)) /\ IsDocument(Related(d))
  BY SectionIfIsDocument DEF Summary, Evidence, Related
<1>3. IsDocument(Indicators(d)) /\ IsDocument(Timeline(d)) /\ IsDocument(Tasks(d)) /\ IsDocument(Notes(d))
  BY SectionIfIsDocument DEF Indicators, Timeline, Tasks, Notes
<1>. QED BY <1>1, <1>2, <1>3

\* The report as a web page.
LEMMA HtmlIsDocument ==
  ASSUME NEW d, Labelled(SummaryBody(d))
  PROVE  IsDocument(buildReportHtml(d))
<1>. DEFINE a == SectionIf(d.questions.chosen, "questions", d.questions.answered + d.questions.cannot + d.questions.open,
                           d.questions)
            b == SectionIf(d.stories # <<>>, "stories", Len(d.stories),
                           <<storiesCaveats(d), storyCards(d), d.left, d.dismissed>>)
            c == SectionIf(d.chains # <<>>, "chains", Len(d.chains),
                           [i \in DOMAIN d.chains |-> chainCard(d.chains[i], d)])
            e == Section("incidents", Len(d.incidents),
                         [i \in DOMAIN d.incidents |-> incidentCard(d.incidents[i], d)])
            f == Section("findings", Cardinality({x.rule : x \in d.findings}), groupByRule(d.findings, d.claims))
            g == SectionIf(d.aiRuns > 0, "ai", 1, d.aiRuns)
            h == Section("method", 1, [sources |-> sources(d), limits |-> limits(d)])
            k == Section("settings", 1, d.settings)
            cover == Section("cover", 0, Cover(d))
<1>1. IsDocument(a) /\ IsDocument(b) /\ IsDocument(c) /\ IsDocument(g)
  BY SectionIfIsDocument
<1>2. IsDocument(e) /\ IsDocument(f) /\ IsDocument(h) /\ IsDocument(k)
  BY SectionIsDocument
<1>3. buildReportHtml(d) =
        cover \o Summary(d) \o Happened(d) \o a \o b \o c \o e \o Evidence(d) \o Related(d) \o Indicators(d)
        \o Timeline(d) \o Tasks(d) \o Notes(d) \o f \o g \o h \o k
  BY DEF buildReportHtml
<1>4. IsDocument(cover)
  BY CommonSections
<1>. HIDE DEF a, b, c, e, f, g, h, k, cover
<1>5. IsDocument(cover \o Summary(d) \o Happened(d) \o a \o b \o c \o e)
  BY <1>1, <1>2, <1>4, CommonSections, DocumentsJoin
<1>. DEFINE front == cover \o Summary(d) \o Happened(d) \o a \o b \o c \o e
<1>. HIDE DEF front
<1>6. IsDocument(front \o Evidence(d) \o Related(d) \o Indicators(d) \o Timeline(d) \o Tasks(d) \o Notes(d))
  BY <1>5, CommonSections, DocumentsJoin DEF front
<1>7. IsDocument(front \o Evidence(d) \o Related(d) \o Indicators(d) \o Timeline(d) \o Tasks(d) \o Notes(d)
                 \o f \o g \o h \o k)
  BY <1>1, <1>2, <1>6, DocumentsJoin
<1>. QED BY <1>3, <1>7 DEF front

\* The report as a Word document.
LEMMA DocxIsDocument ==
  ASSUME NEW d, Labelled(SummaryBody(d))
  PROVE  IsDocument(reportDocumentXml(d))
<1>. DEFINE b == SectionIf(d.stories # <<>>, "stories", Len(d.stories),
                           <<[i \in DOMAIN d.stories |-> DocxStory(d.stories[i])], d.left>>)
            c == SectionIf(d.chains # <<>>, "chains", Len(d.chains),
                           [i \in DOMAIN d.chains |-> DocxChain(d.chains[i], d)])
            e == Section("incidents", Len(d.incidents),
                         [i \in DOMAIN d.incidents |-> DocxIncident(d.incidents[i], d)])
            f == Section("findings", Cardinality({x.rule : x \in d.findings}), groupByRule(d.findings, <<>>))
            h == Section("method", 1, [limits |-> commonLimits(d)])
            k == Section("settings", 1, d.settings)
            cover == Section("cover", 0, Cover(d))
<1>1. IsDocument(b) /\ IsDocument(c)
  BY SectionIfIsDocument
<1>2. IsDocument(e) /\ IsDocument(f) /\ IsDocument(h) /\ IsDocument(k)
  BY SectionIsDocument
<1>3. reportDocumentXml(d) =
        cover \o Summary(d) \o Happened(d) \o b \o c \o e \o Evidence(d) \o Related(d) \o Indicators(d)
        \o Timeline(d) \o Tasks(d) \o Notes(d) \o f \o h \o k
  BY DEF reportDocumentXml
<1>4. IsDocument(cover)
  BY CommonSections
<1>. HIDE DEF b, c, e, f, h, k, cover
<1>5. IsDocument(cover \o Summary(d) \o Happened(d) \o b \o c \o e)
  BY <1>1, <1>2, <1>4, CommonSections, DocumentsJoin
<1>. DEFINE front == cover \o Summary(d) \o Happened(d) \o b \o c \o e
<1>. HIDE DEF front
<1>6. IsDocument(front \o Evidence(d) \o Related(d) \o Indicators(d) \o Timeline(d) \o Tasks(d) \o Notes(d))
  BY <1>5, CommonSections, DocumentsJoin DEF front
<1>7. IsDocument(front \o Evidence(d) \o Related(d) \o Indicators(d) \o Timeline(d) \o Tasks(d) \o Notes(d)
                 \o f \o h \o k)
  BY <1>1, <1>2, <1>6, DocumentsJoin
<1>. QED BY <1>3, <1>7 DEF front

\* What a document is made from has the summary of the page.
LEMMA DataSummary ==
  ASSUME IsPage(page)
  PROVE  Labelled(SummaryBody(reportData))
<1>1. reportData["summary"] = page.summary.text /\ reportData["summaryBy"] = page.summary.by
  BY DEF reportData
<1>2. reportData.summary = page.summary.text /\ reportData.summaryBy = page.summary.by
  BY <1>1
<1>. QED BY <1>2 DEF SummaryBody, Labelled, IsPage, IsSummary

-----------------------------------------------------------------------------
(* The page *)

\* The checks that were wanted are not wanted any more; the page is read back anew, if it has settings.
LEMMA RecheckKeeps ==
  ASSUME NEW k, NEW pg, IsPage(pg), Checks(reads, Now), Recheck(k, pg), kase' = k
  PROVE  IsPage(page)' /\ Checks(reads, Now)' /\ Claimed(page, Now)'
<1>1. page' = [pg EXCEPT !.claims = <<>>]
  BY DEF Recheck
<1>2. page'.data = pg.data /\ page'.summary = pg.summary /\ page'.claims = <<>>
  BY <1>1 DEF IsPage
<1>3. IsPage(page)'
  <2>1. page' = [data |-> pg.data, summary |-> pg.summary, claims |-> <<>>, busy |-> pg.busy]
    BY <1>1 DEF IsPage
  <2>2. IsPage(page')
    BY <1>2, <2>1 DEF IsPage
  <2>. QED BY <2>2 DEF IsPage, IsSummary, Labelled
<1>4. Now' = InputsOf(k, pg.data, pg.summary.text)
  BY <1>2 DEF Now, InputsOf
<1>5. \A r \in Outdated(reads) : r = [out |-> r.out, alive |-> r.alive, inputs |-> r.inputs] /\ r.alive = FALSE
  BY DEF Outdated, Checks
<1>. DEFINE new == [out |-> FALSE, alive |-> TRUE, inputs |-> InputsOf(k, pg.data, pg.summary.text)]
<1>6. \A r \in reads' : r \in Outdated(reads) \/ r = new
  BY DEF Recheck, When
<1>7. new = [out |-> new.out, alive |-> new.alive, inputs |-> new.inputs] /\ new.inputs = Now'
  BY <1>4
<1>. HIDE DEF new
<1>8. Checks(reads', Now')
  BY <1>5, <1>6, <1>7 DEF Checks
<1>9. Claimed(page', Now')
  BY <1>2 DEF Claimed
<1>. QED BY <1>3, <1>8, <1>9 DEF Checks, Claimed, Now, InputsOf

\* Nothing is read back when what is read back has not changed.
LEMMA RecheckIfKeeps ==
  ASSUME NEW changed, NEW pg, IsPage(pg), Checks(reads, Now), Claimed(page, Now), RecheckIf(changed, kase, pg),
         UNCHANGED kase, pg.claims = page.claims,
         ~changed => pg.summary.text = page.summary.text /\ \A f \in CheckedFields : pg.data[f] = page.data[f]
  PROVE  IsPage(page)' /\ Checks(reads, Now)' /\ Claimed(page, Now)'
<1>1. CASE changed
  BY <1>1, RecheckKeeps DEF RecheckIf
<1>2. CASE ~changed
  <2>1. page' = pg /\ reads' = reads
    BY <1>2 DEF RecheckIf
  <2>2. Now' = Now
    BY <1>2, <2>1 DEF Now, InputsOf
  <2>3. IsPage(page)'
    BY <2>1 DEF IsPage, IsSummary, Labelled
  <2>4. Checks(reads', Now') /\ Claimed(page', Now')
    BY <2>1, <2>2 DEF Checks, Claimed
  <2>. QED BY <2>3, <2>4 DEF Checks, Claimed, Now, InputsOf
<1>. QED BY <1>1, <1>2

\* A page whose data, summary and claims are the same.
LEMMA SamePage ==
  ASSUME IsPage(page), Checks(reads, Now), Claimed(page, Now), UNCHANGED kase, IsPage(page)',
         page'.data = page.data, page'.summary.text = page.summary.text, page'.claims = page.claims,
         reads' \subseteq reads
  PROVE  Checks(reads, Now)' /\ Claimed(page, Now)'
<1>1. Now' = Now
  BY DEF Now, InputsOf
<1>2. Checks(reads', Now') /\ Claimed(page', Now')
  BY <1>1 DEF Checks, Claimed
<1>. QED BY <1>2 DEF Checks, Claimed, Now, InputsOf

\* What a reading brings later is labelled, as what is stored is.
LEMMA ReloadKeeps ==
  ASSUME Stored, NEW k \in Cases, NEW h, Reload(k, h)
  PROVE  \A l \in loads' : IsSummary(l.summary)
<1>1. \A l \in loads' : l \in loads \/ l.summary = summaries[k]
  BY DEF Reload
<1>. QED BY <1>1 DEF Stored

-----------------------------------------------------------------------------
(* Steps *)

\* A rule run, and another case on the page.
LEMMA ReloadsKeep ==
  ASSUME ReportInv, RulesChanged \/ \E k \in Cases : SwitchCase(k)
  PROVE  ReportInv'
<1>1. CASE RulesChanged
  <2>1. UNCHANGED <<summaries, kase, page, reads, draft, exported>> /\ Reload(kase, held')
    BY <1>1 DEF RulesChanged
  <2>2. \A l \in loads' : IsSummary(l.summary)
    BY <2>1, ReloadKeeps DEF ReportInv, Stored
  <2>3. IsPage(page)' /\ Stored'
    BY <2>1, <2>2 DEF ReportInv, IsPage, Stored, IsSummary, Labelled
  <2>4. Checks(reads, Now)' /\ Claimed(page, Now)'
    BY <2>1, <2>3, SamePage DEF ReportInv
  <2>. QED BY <2>1, <2>3, <2>4 DEF ReportInv, Exported, IsDocument, Labelled
<1>2. ASSUME NEW k \in Cases, SwitchCase(k) PROVE ReportInv'
  <2>1. /\ UNCHANGED <<held, summaries, draft, exported>> /\ Reload(k, held) /\ Recheck(k, page) /\ kase' = k
    BY <1>2 DEF SwitchCase
  <2>2. \A l \in loads' : IsSummary(l.summary)
    BY <2>1, ReloadKeeps DEF ReportInv
  <2>3. Stored'
    BY <2>1, <2>2 DEF ReportInv, Stored, IsSummary, Labelled
  <2>4. IsPage(page)' /\ Checks(reads, Now)' /\ Claimed(page, Now)'
    BY <2>1, RecheckKeeps DEF ReportInv
  <2>. QED BY <2>1, <2>3, <2>4 DEF ReportInv, Exported, IsDocument, Labelled
<1>. QED BY <1>1, <1>2

\* A piece that arrives.
LEMMA ArrivesKeeps ==
  ASSUME ReportInv, NEW l \in loads, Arrives(l)
  PROVE  ReportInv'
<1>. DEFINE summed == [page EXCEPT !.summary = l.summary]
            data == [f \in DOMAIN Blank |-> IF f \in l.fields THEN Field(Contents[l.kase][l.content], f) ELSE page.data[f]]
            filled == [page EXCEPT !.data = data]
<1>1. loads' = loads \ {l} /\ UNCHANGED <<summaries, kase, draft, exported>>
  BY DEF Arrives
<1>2. Stored'
  BY <1>1 DEF ReportInv, Stored, IsSummary, Labelled
<1>3. CASE l.fields = {}
  <2>1. RecheckIf(l.summary.text # page.summary.text, kase, summed)
    BY <1>3 DEF Arrives
  <2>2. summed = [data |-> page.data, summary |-> l.summary, claims |-> page.claims, busy |-> page.busy]
    BY DEF ReportInv, IsPage
  <2>. HIDE DEF summed
  <2>3. IsPage(summed) /\ summed.claims = page.claims /\ summed.data = page.data /\ summed.summary = l.summary
    BY <2>2 DEF ReportInv, IsPage, Stored
  <2>. QED BY <1>1, <1>2, <2>1, <2>3, RecheckIfKeeps DEF ReportInv, Exported, IsDocument, Labelled
<1>4. CASE l.fields # {}
  <2>1. RecheckIf(l.fields \cap CheckedFields # {}, kase, filled)
    BY <1>4 DEF Arrives
  <2>2. filled = [data |-> data, summary |-> page.summary, claims |-> page.claims, busy |-> page.busy]
    BY DEF ReportInv, IsPage
  <2>3. data = [f \in DOMAIN Blank |-> data[f]]
    OBVIOUS
  <2>4. l.fields \cap CheckedFields = {} => \A f \in CheckedFields : data[f] = page.data[f]
    BY FieldsAssumption
  <2>. HIDE DEF filled, data
  <2>5. IsPage(filled) /\ filled.claims = page.claims /\ filled.data = data /\ filled.summary = page.summary
    BY <2>2, <2>3 DEF ReportInv, IsPage
  <2>. QED BY <1>1, <1>2, <2>1, <2>4, <2>5, RecheckIfKeeps DEF ReportInv, Exported, IsDocument, Labelled
<1>. QED BY <1>3, <1>4

\* A check of the claims starts, and answers.
LEMMA CheckKeeps ==
  ASSUME ReportInv, NEW r \in reads, CheckStarts(r) \/ CheckAnswers(r)
  PROVE  ReportInv'
<1>1. UNCHANGED <<held, summaries, kase, loads, draft, exported>> /\ Stored'
  BY DEF CheckStarts, CheckAnswers, ReportInv, Stored, IsSummary, Labelled
<1>2. r = [out |-> r.out, alive |-> r.alive, inputs |-> r.inputs] /\ (r.alive => r.inputs = Now)
  BY DEF ReportInv, Checks
<1>3. CASE CheckStarts(r)
  <2>. DEFINE out == [r EXCEPT !.out = TRUE]
  <2>1. page' = page /\ reads' = (reads \ {r}) \cup {out}
    BY <1>3 DEF CheckStarts
  <2>2. out = [out |-> TRUE, alive |-> r.alive, inputs |-> r.inputs]
    <3>. DEFINE yes == TRUE
    <3>1. out = [r EXCEPT !.out = yes]
      OBVIOUS
    <3>. HIDE DEF out, yes
    <3>2. out = [out |-> yes, alive |-> r.alive, inputs |-> r.inputs]
      BY <1>2, <3>1
    <3>. QED BY <3>2 DEF yes
  <2>. HIDE DEF out
  <2>3. Now' = Now
    BY <1>1, <2>1 DEF Now, InputsOf
  <2>4. Checks(reads', Now') /\ Claimed(page', Now')
    BY <1>2, <2>1, <2>2, <2>3 DEF ReportInv, Checks, Claimed
  <2>5. IsPage(page)'
    BY <2>1 DEF ReportInv, IsPage, IsSummary, Labelled
  <2>. QED BY <1>1, <2>4, <2>5 DEF ReportInv, Exported, IsDocument, Labelled, Checks, Claimed, Now, InputsOf
<1>4. CASE CheckAnswers(r)
  <2>. DEFINE answer == <<[of |-> r.inputs, result |-> ReadBack(r.inputs)]>>
  <2>1. reads' = reads \ {r} /\ page' = IF r.alive THEN [page EXCEPT !.claims = answer] ELSE page
    BY <1>4 DEF CheckAnswers
  <2>2. DOMAIN answer = {1} /\ answer[1].of = r.inputs
    OBVIOUS
  <2>. HIDE DEF answer
  <2>3. page'.data = page.data /\ page'.summary = page.summary /\ page'.claims = IF r.alive THEN answer ELSE page.claims
    BY <2>1 DEF ReportInv, IsPage
  <2>4. Now' = Now
    BY <1>1, <2>3 DEF Now, InputsOf
  <2>5. page' = [data |-> page.data, summary |-> page.summary, claims |-> page'.claims, busy |-> page.busy]
    BY <2>1 DEF ReportInv, IsPage
  <2>6. IsPage(page')
    BY <2>3, <2>5 DEF ReportInv, IsPage
  <2>7. Claimed(page', Now') /\ Checks(reads', Now')
    BY <1>2, <2>1, <2>2, <2>3, <2>4 DEF ReportInv, Checks, Claimed
  <2>. QED BY <1>1, <2>6, <2>7
       DEF ReportInv, Exported, IsDocument, Labelled, Checks, Claimed, Now, InputsOf, IsPage, IsSummary
<1>. QED BY <1>3, <1>4

\* The analyst types a summary; no text typed is one the model drafted.
LEMMA TypeKeeps ==
  ASSUME ReportInv, NEW t \in Edits, TypeSummary(t)
  PROVE  ReportInv'
<1>. DEFINE typed == [page EXCEPT !.summary.text = t, !.summary.by = "analyst"]
<1>1. UNCHANGED <<held, summaries, kase, loads, draft, exported>> /\ Recheck(kase, typed)
  BY DEF TypeSummary
<1>2. typed = [data |-> page.data, summary |-> [text |-> t, by |-> "analyst", at |-> page.summary.at],
               claims |-> page.claims, busy |-> page.busy]
  <2>. DEFINE text == [page.summary EXCEPT !.text = t]
              mid == [page EXCEPT !.summary = text]
              by == [mid.summary EXCEPT !.by = "analyst"]
  <2>1. typed = [mid EXCEPT !.summary = by]
    OBVIOUS
  <2>2. text = [text |-> t, by |-> page.summary.by, at |-> page.summary.at]
    BY DEF ReportInv, IsPage, IsSummary
  <2>3. mid = [data |-> page.data, summary |-> text, claims |-> page.claims, busy |-> page.busy]
    BY DEF ReportInv, IsPage
  <2>. HIDE DEF typed, text, mid
  <2>4. by = [text |-> t, by |-> "analyst", at |-> page.summary.at]
    BY <2>2, <2>3
  <2>. HIDE DEF by
  <2>. QED BY <2>1, <2>3, <2>4
<1>. HIDE DEF typed
<1>3. \A k \in Cases : t # DraftOf[k]
  BY DraftsAssumption
<1>4. IsPage(typed)
  BY <1>2, <1>3 DEF ReportInv, IsPage, IsSummary, Labelled
<1>5. IsPage(page)' /\ Checks(reads, Now)' /\ Claimed(page, Now)'
  BY <1>1, <1>4, RecheckKeeps DEF ReportInv
<1>. QED BY <1>1, <1>5 DEF ReportInv, Stored, IsSummary, Exported, IsDocument, Labelled

\* The text box is left.
LEMMA SaveKeeps ==
  ASSUME ReportInv, SaveSummary
  PROVE  ReportInv'
<1>. DEFINE saved == [text |-> page.summary.text, by |-> Author(page.summary.by), at |-> tick']
<1>1. /\ UNCHANGED <<held, kase, loads, reads, draft, exported>>
      /\ page' = [page EXCEPT !.summary.at = tick'] /\ summaries' = [summaries EXCEPT ![kase] = saved]
  BY DEF SaveSummary
<1>2. page' = [data |-> page.data, summary |-> [text |-> page.summary.text, by |-> page.summary.by, at |-> tick'],
               claims |-> page.claims, busy |-> page.busy]
  BY <1>1 DEF ReportInv, IsPage, IsSummary
<1>3. IsPage(page')
  BY <1>2 DEF ReportInv, IsPage, IsSummary, Labelled
<1>4. IsSummary(saved)
  BY DEF ReportInv, IsPage, IsSummary, Labelled, Author, GapNone
<1>. HIDE DEF saved
<1>5. Stored'
  <2>1. summaries' = [k \in Cases |-> summaries'[k]] /\ \A k \in Cases : IsSummary(summaries'[k])
    BY <1>1, <1>4 DEF ReportInv, Stored
  <2>. QED BY <1>1, <2>1 DEF ReportInv, Stored, IsSummary, Labelled
<1>6. IsPage(page)'
  BY <1>3 DEF IsPage, IsSummary, Labelled
<1>7. Checks(reads, Now)' /\ Claimed(page, Now)'
  BY <1>1, <1>2, <1>6, SamePage DEF ReportInv
<1>. QED BY <1>1, <1>5, <1>6, <1>7 DEF ReportInv, Exported, IsDocument, Labelled

\* A draft is asked for, written, shown, or fails.
LEMMA DraftKeeps ==
  ASSUME ReportInv, AskDraft \/ draftExecutiveSummary \/ DraftShown \/ DraftFails
  PROVE  ReportInv'
<1>1. ASSUME UNCHANGED <<summaries, kase, loads, reads, exported>>,
             page' = [page EXCEPT !.busy = TRUE] \/ page' = [page EXCEPT !.busy = FALSE],
             draft' = [kase |-> kase, step |-> "model"] \/ draft' = NoDraft
      PROVE  ReportInv'
  <2>1. page'.data = page.data /\ page'.summary = page.summary /\ page'.claims = page.claims
        /\ page' = [data |-> page.data, summary |-> page.summary, claims |-> page.claims, busy |-> page'.busy]
    BY <1>1 DEF ReportInv, IsPage
  <2>2. IsPage(page')
    BY <2>1 DEF ReportInv, IsPage
  <2>3. IsPage(page)'
    BY <2>2 DEF IsPage, IsSummary, Labelled
  <2>4. Stored'
    BY <1>1 DEF ReportInv, Stored, IsSummary, Labelled, NoDraft
  <2>5. Checks(reads, Now)' /\ Claimed(page, Now)'
    BY <1>1, <2>1, <2>3, SamePage DEF ReportInv
  <2>. QED BY <1>1, <2>3, <2>4, <2>5 DEF ReportInv, Exported, IsDocument, Labelled
<1>2. CASE AskDraft
  BY <1>1, <1>2 DEF AskDraft
<1>3. CASE DraftFails
  BY <1>1, <1>3 DEF DraftFails
<1>4. CASE draftExecutiveSummary
  <2>. DEFINE written == [text |-> DraftOf[draft.kase], by |-> "ai", at |-> tick']
  <2>1. /\ UNCHANGED <<held, kase, page, loads, reads, exported>> /\ draft.step = "model"
        /\ draft' = [draft EXCEPT !.step = "ledger"] /\ summaries' = [summaries EXCEPT ![draft.kase] = written]
    BY <1>4 DEF draftExecutiveSummary
  <2>2. draft' = [kase |-> draft.kase, step |-> "ledger"] /\ draft.kase \in Cases
    BY <2>1 DEF ReportInv, Stored, GapNone
  <2>3. IsSummary(written)
    BY DEF IsSummary, Labelled
  <2>. HIDE DEF written
  <2>4. summaries' = [k \in Cases |-> summaries'[k]] /\ \A k \in Cases : IsSummary(summaries'[k])
    BY <2>1, <2>3 DEF ReportInv, Stored
  <2>5. Stored'
    BY <2>1, <2>2, <2>4 DEF ReportInv, Stored, IsSummary, Labelled
  <2>6. IsPage(page)'
    BY <2>1 DEF ReportInv, IsPage, IsSummary, Labelled
  <2>7. Checks(reads, Now)' /\ Claimed(page, Now)'
    BY <2>1, <2>6, SamePage DEF ReportInv
  <2>. QED BY <2>1, <2>5, <2>6, <2>7 DEF ReportInv, Exported, IsDocument, Labelled
<1>5. CASE DraftShown
  <2>. DEFINE text == DraftOf[draft.kase]
              summary == [text |-> text, by |-> "ai", at |-> tick]
              shown == [page EXCEPT !.busy = FALSE, !.summary = summary]
  <2>1. /\ UNCHANGED <<held, summaries, kase, loads, exported>> /\ draft' = NoDraft
        /\ RecheckIf(text # page.summary.text, kase, shown)
    BY <1>5 DEF DraftShown
  <2>2. IsSummary(summary) /\ summary.text = text
    BY DEF IsSummary, Labelled
  <2>. HIDE DEF summary, text
  <2>3. shown = [data |-> page.data, summary |-> summary, claims |-> page.claims, busy |-> FALSE]
    <3>. DEFINE no == FALSE
                idle == [page EXCEPT !.busy = no]
    <3>1. shown = [idle EXCEPT !.summary = summary]
      OBVIOUS
    <3>. HIDE DEF no, shown
    <3>2. idle = [data |-> page.data, summary |-> page.summary, claims |-> page.claims, busy |-> no]
      BY DEF ReportInv, IsPage
    <3>. HIDE DEF idle
    <3>. QED BY <3>1, <3>2 DEF no
  <2>. HIDE DEF shown
  <2>4. IsPage(shown) /\ shown.claims = page.claims /\ shown.data = page.data /\ shown.summary = summary
    BY <2>2, <2>3 DEF ReportInv, IsPage
  <2>5. IsPage(page)' /\ Checks(reads, Now)' /\ Claimed(page, Now)'
    BY <2>1, <2>2, <2>4, RecheckIfKeeps DEF ReportInv
  <2>6. Stored'
    BY <2>1 DEF ReportInv, Stored, IsSummary, Labelled, NoDraft
  <2>. QED BY <2>1, <2>5, <2>6 DEF ReportInv, Exported, IsDocument, Labelled
<1>. QED BY <1>2, <1>3, <1>4, <1>5

\* A document is made, or an export.
LEMMA ExportKeeps ==
  ASSUME ReportInv, ExportHtml \/ ExportDocx \/ ExportTimeline \/ ExportLayer
  PROVE  ReportInv'
<1>1. UNCHANGED <<held, summaries, kase, page, loads, reads, draft>>
  BY DEF ExportHtml, ExportDocx, ExportTimeline, ExportLayer, Export
<1>2. IsPage(page)' /\ Stored'
  BY <1>1 DEF ReportInv, IsPage, Stored, IsSummary, Labelled
<1>3. Checks(reads, Now)' /\ Claimed(page, Now)'
  BY <1>1, <1>2, SamePage DEF ReportInv
<1>4. \/ exported' = <<"html", buildReportHtml(reportData)>> \/ exported' = <<"docx", reportDocumentXml(reportData)>>
      \/ exported'[1] \notin {"html", "docx"}
  BY DEF ExportHtml, ExportDocx, ExportTimeline, ExportLayer, Export
<1>5. IsDocument(buildReportHtml(reportData)) /\ IsDocument(reportDocumentXml(reportData))
  BY DataSummary, HtmlIsDocument, DocxIsDocument DEF ReportInv
<1>6. exported'[1] \in {"html", "docx"} => IsDocument(exported'[2])
  BY <1>4, <1>5
<1>. QED BY <1>2, <1>3, <1>6 DEF ReportInv, Exported, IsDocument, Labelled

-----------------------------------------------------------------------------
(* The invariant, and what it says *)

\* It holds at the start.
LEMMA ReportStarts == ReportInit => ReportInv
<1>. SUFFICES ASSUME ReportInit PROVE ReportInv
  OBVIOUS
<1>1. IsSummary(NoSummary)
  BY DraftsAssumption DEF IsSummary, Labelled, NoSummary
<1>2. IsPage(page) /\ Claimed(page, Now) /\ Checks(reads, Now)
  <2>1. page = [data |-> Blank, summary |-> NoSummary, claims |-> <<>>, busy |-> FALSE] /\ reads = {}
    BY DEF ReportInit
  <2>2. Blank = [f \in DOMAIN Blank |-> Blank[f]]
    BY FieldsAssumption
  <2>. QED BY <1>1, <2>1, <2>2 DEF IsPage, Claimed, Checks
<1>3. Stored
  BY <1>1 DEF ReportInit, Stored, NoDraft
<1>. QED BY <1>2, <1>3 DEF ReportInv, Exported, ReportInit

\* Every step keeps the invariant.
LEMMA ReportStep == ReportInv /\ [ReportNext]_reportVars => ReportInv'
<1>. SUFFICES ASSUME ReportInv, [ReportNext]_reportVars PROVE ReportInv'
  OBVIOUS
<1>1. CASE UNCHANGED reportVars
  BY <1>1 DEF reportVars, ReportInv, IsPage, Checks, Claimed, Now, InputsOf, Stored, IsSummary, Exported, IsDocument,
              Labelled
<1>2. CASE ReportNext
  BY <1>2, ReloadsKeep, ArrivesKeeps, CheckKeeps, TypeKeeps, SaveKeeps, DraftKeeps, ExportKeeps DEF ReportNext
<1>. QED BY <1>1, <1>2

\* Whatever is read, typed, drafted, saved, switched to and exported in which order, the invariant holds.
THEOREM ReportInvariant == ReportSpec => []ReportInv
<1>. QED BY ReportStarts, ReportStep, PTL DEF ReportSpec

\* The claims on the page are those of what it prints, and a summary the model drafted says so: in the store,
\* on the page and in both documents.
THEOREM SummariesAreHonest == ReportSpec => []SummaryIsHonest
<1>1. ReportInv => SummaryIsHonest
  <2>. SUFFICES ASSUME ReportInv PROVE SummaryIsHonest
    OBVIOUS
  <2>1. ClaimsAreCurrent
    BY DEF ReportInv, Claimed, Now, ClaimsAreCurrent
  <2>2. Labelled(page.summary) /\ \A k \in Cases : Labelled(summaries[k])
    BY DEF ReportInv, IsPage, Stored, IsSummary
  <2>3. ASSUME exported # <<>>, exported[1] \in {"html", "docx"}, NEW i \in DOMAIN exported[2], exported[2][i].id = "summary"
        PROVE  Labelled(exported[2][i].body)
    BY <2>3 DEF ReportInv, Exported, IsDocument
  <2>. QED BY <2>1, <2>2, <2>3 DEF SummaryIsHonest, DraftLabelled
<1>. QED BY <1>1, ReportInvariant, PTL

-----------------------------------------------------------------------------
(* The report: what the evidence cannot show *)

\* Of any numbers one is the least.
LEMMA LeastNumber ==
  ASSUME NEW N \in SUBSET Nat, N # {}
  PROVE  \E n \in N : \A m \in N : n <= m
<1>. DEFINE R == {p \in Nat \X Nat : p[1] < p[2]}
<1>1. IsWellFoundedOn(R, Nat)
  BY NatLessThanWellFounded DEF OpToRel
<1>2. \A m, n \in Nat : m < n => <<m, n>> \in R
  OBVIOUS
<1>. HIDE DEF R
<1>3. PICK n \in N : \A m \in N : <<m, n>> \notin R
  BY <1>1, WFMin, Zenon
<1>4. \A m \in N : m \in Nat /\ n \in Nat /\ ~(m < n)
  BY <1>2, <1>3
<1>5. \A m \in N : n <= m
  BY <1>4, SMT
<1>. QED BY <1>5

\* Of some subsets of a finite set, one is left by taking any member out of it.
LEMMA SmallestOf ==
  ASSUME NEW S, IsFiniteSet(S), NEW Bad, Bad \subseteq SUBSET S, Bad # {}
  PROVE  \E T \in Bad : IsFiniteSet(T) /\ \A x \in T : T \ {x} \notin Bad
<1>. DEFINE sizes == {Cardinality(T) : T \in Bad}
<1>1. \A T \in SUBSET S : IsFiniteSet(T) /\ Cardinality(T) \in Nat
  BY FS_Subset, FS_CardinalityType
<1>2. sizes \in SUBSET Nat /\ sizes # {}
  BY <1>1
<1>3. PICK n \in sizes : \A m \in sizes : n <= m
  <2>. HIDE DEF sizes
  <2>. QED BY <1>2, LeastNumber
<1>4. PICK T \in Bad : Cardinality(T) = n
  BY <1>3
<1>5. IsFiniteSet(T) /\ n \in Nat
  BY <1>1, <1>4
<1>6. ASSUME NEW x \in T, T \ {x} \in Bad
      PROVE  FALSE
  <2>1. Cardinality(T \ {x}) = n - 1
    BY <1>4, <1>5, <1>6, FS_RemoveElement
  <2>2. Cardinality(T \ {x}) \in sizes
    BY <1>6
  <2>. HIDE DEF sizes
  <2>3. n <= n - 1
    BY <1>3, <2>1, <2>2
  <2>. QED BY <1>5, <2>3
<1>. QED BY <1>4, <1>5, <1>6

\* Of finitely many things one has the least of their numbers, and one the greatest.
LEMMA LeastAt ==
  ASSUME NEW S, IsFiniteSet(S), S # {}, NEW f \in [S -> Int]
  PROVE  \E x \in S : \A y \in S : f[x] <= f[y]
<1>. DEFINE Bad == {T \in SUBSET S : T # {} /\ ~ \E x \in T : \A y \in T : f[x] <= f[y]}
<1>. SUFFICES ASSUME Bad # {} PROVE FALSE
  OBVIOUS
<1>1. PICK T \in Bad : \A x \in T : T \ {x} \notin Bad
  <2>1. Bad \subseteq SUBSET S
    OBVIOUS
  <2>. HIDE DEF Bad
  <2>. QED BY <2>1, SmallestOf
<1>2. PICK x \in T : TRUE
  OBVIOUS
<1>3. CASE T \ {x} = {}
  BY <1>2, <1>3
<1>4. CASE T \ {x} # {}
  <2>1. PICK z \in T \ {x} : \A y \in T \ {x} : f[z] <= f[y]
    BY <1>1, <1>2, <1>4
  <2>2. f[x] \in Int /\ f[z] \in Int /\ \A y \in T : f[y] \in Int
    BY <1>2, <2>1
  <2>3. CASE f[z] <= f[x]
    BY <2>1, <2>3
  <2>4. CASE f[x] <= f[z]
    <3>1. \A y \in T : f[x] <= f[y]
      BY <2>1, <2>2, <2>4
    <3>. QED BY <1>2, <3>1
  <2>. QED BY <2>2, <2>3, <2>4
<1>. QED BY <1>3, <1>4

\* The other end.
LEMMA GreatestAt ==
  ASSUME NEW S, IsFiniteSet(S), S # {}, NEW f \in [S -> Int]
  PROVE  \E x \in S : \A y \in S : f[y] <= f[x]
<1>. DEFINE g == [x \in S |-> -f[x]]
<1>1. g \in [S -> Int]
  OBVIOUS
<1>2. PICK x \in S : \A y \in S : g[x] <= g[y]
  <2>. HIDE DEF g
  <2>. QED BY <1>1, LeastAt
<1>3. ASSUME NEW y \in S PROVE f[y] <= f[x]
  <2>1. g[x] <= g[y] /\ f[x] \in Int /\ f[y] \in Int
    BY <1>2
  <2>. QED BY <2>1
<1>. QED BY <1>3

\* The numbers of finitely many things are finitely many.
LEMMA ImageIsFinite ==
  ASSUME NEW S, IsFiniteSet(S), NEW f
  PROVE  IsFiniteSet({f[x] : x \in S})
<1>. DEFINE T == {f[x] : x \in S}
            g == [x \in S |-> f[x]]
<1>1. g \in Surjection(S, T)
  BY DEF Surjection
<1>. QED BY <1>1, FS_Surjection

\* The least and the greatest number of finitely many things.
LEMMA ExtremesOf ==
  ASSUME NEW S, IsFiniteSet(S), S # {}, NEW f \in [S -> Int], NEW V, V = {f[x] : x \in S}
  PROVE  /\ LeastOf(V) \in V /\ \A v \in V : LeastOf(V) <= v
         /\ GreatestOf(V) \in V /\ \A v \in V : GreatestOf(V) >= v
<1>1. PICK x \in S : \A y \in S : f[x] <= f[y]
  BY LeastAt
<1>2. PICK z \in S : \A y \in S : f[y] <= f[z]
  BY GreatestAt
<1>3. \E v \in V : \A w \in V : v <= w
  BY <1>1
<1>4. \E v \in V : \A w \in V : v >= w
  <2>1. \A y \in S : f[z] >= f[y]
    BY <1>2
  <2>. QED BY <2>1
<1>5. LeastOf(V) \in V /\ \A v \in V : LeastOf(V) <= v
  BY <1>3, Zenon DEF LeastOf
<1>6. GreatestOf(V) \in V /\ \A v \in V : GreatestOf(V) >= v
  BY <1>4, Zenon DEF GreatestOf
<1>. QED BY <1>5, <1>6

\* The statement between the files before one and that one.
LEMMA BetweenIs ==
  ASSUME NEW files, NEW log, NEW s
  PROVE  s \in betweenFiles(files) /\ s.about[1] = log <=>
         \E next \in FilesOf(files, log) :
            LET before == Before(next, FilesOf(files, log)) IN
            /\ log \in LogsIn(files) /\ before # {} /\ next.first > Reaching(before) + 1
            /\ s = Says("missing-between-files", "medium", <<log, (Reaching(before) + 1) .. (next.first - 1)>>)
<1>. DEFINE of == FilesOf(files, log)
            said(next) == Says("missing-between-files", "medium",
                               <<LogOf(next), (Reaching(Before(next, of)) + 1) .. (next.first - 1)>>)
<1>1. \A l : \A next \in FilesOf(files, l) : LogOf(next) = l
  BY DEF FilesOf
<1>2. \A k, v, r : Says(k, v, <<r[1], r[2]>>).about[1] = r[1]
  BY DEF Says
<1>3. \A reach, next : \A x \in Between(reach, next) :
         /\ x = Says("missing-between-files", "medium", <<LogOf(next), (reach + 1) .. (next.first - 1)>>)
         /\ next.first > reach + 1 /\ x.about[1] = LogOf(next)
  BY DEF Between, When, Says
<1>4. ASSUME s \in betweenFiles(files), s.about[1] = log
      PROVE  log \in LogsIn(files) /\ s \in BetweenOf(of)
  <2>1. PICK l \in LogsIn(files) : s \in BetweenOf(FilesOf(files, l))
    BY <1>4 DEF betweenFiles
  <2>2. PICK next \in FilesOf(files, l) : s \in Between(Reaching(Before(next, FilesOf(files, l))), next)
    BY <2>1 DEF BetweenOf
  <2>3. l = log
    BY <1>1, <1>3, <1>4, <2>2
  <2>. QED BY <2>1, <2>3
<1>5. ASSUME log \in LogsIn(files), s \in BetweenOf(of)
      PROVE  \E next \in of : /\ Before(next, of) # {} /\ next.first > Reaching(Before(next, of)) + 1
                              /\ s = said(next)
  <2>1. PICK next \in of : Before(next, of) # {} /\ s \in Between(Reaching(Before(next, of)), next)
    BY <1>5 DEF BetweenOf
  <2>. QED BY <1>3, <2>1
<1>6. ASSUME log \in LogsIn(files), NEW next \in of, Before(next, of) # {},
             next.first > Reaching(Before(next, of)) + 1, s = said(next)
      PROVE  s \in betweenFiles(files) /\ s.about[1] = log
  <2>1. s \in Between(Reaching(Before(next, of)), next)
    BY <1>6 DEF Between, When
  <2>2. s \in BetweenOf(of)
    BY <1>6, <2>1 DEF BetweenOf
  <2>3. s \in betweenFiles(files)
    BY <1>6, <2>2 DEF betweenFiles
  <2>4. s.about[1] = LogOf(next)
    BY <1>3, <2>1
  <2>. QED BY <1>1, <2>3, <2>4
<1>7. \A next \in of : said(next) = Says("missing-between-files", "medium",
                                         <<log, (Reaching(Before(next, of)) + 1) .. (next.first - 1)>>)
  BY <1>1
<1>. HIDE DEF said
<1>. QED BY <1>4, <1>5, <1>6, <1>7

\* A number is said to be missing when it comes after every file that begins before the next one.
LEMMA MissingIs ==
  ASSUME NEW files, NEW log \in LogsIn(files), NEW n
  PROVE  n \in UNION {x.about[2] : x \in {x \in betweenFiles(files) : x.about[1] = log}} <=>
         \E next \in FilesOf(files, log) :
            LET before == Before(next, FilesOf(files, log)) IN
            /\ before # {} /\ next.first > Reaching(before) + 1
            /\ n \in (Reaching(before) + 1) .. (next.first - 1)
<1>. DEFINE of == FilesOf(files, log)
            hole(next) == (Reaching(Before(next, of)) + 1) .. (next.first - 1)
            said(next) == Says("missing-between-files", "medium", <<log, hole(next)>>)
<1>1. \A next : said(next).about[2] = hole(next)
  BY DEF Says
<1>2. \A x : x \in betweenFiles(files) /\ x.about[1] = log <=>
         \E next \in of : Before(next, of) # {} /\ next.first > Reaching(Before(next, of)) + 1 /\ x = said(next)
  BY BetweenIs
<1>. HIDE DEF said, hole
<1>3. n \in UNION {x.about[2] : x \in {x \in betweenFiles(files) : x.about[1] = log}} <=>
      \E x : x \in betweenFiles(files) /\ x.about[1] = log /\ n \in x.about[2]
  OBVIOUS
<1>4. n \in UNION {x.about[2] : x \in {x \in betweenFiles(files) : x.about[1] = log}} <=>
      \E next \in of : Before(next, of) # {} /\ next.first > Reaching(Before(next, of)) + 1 /\ n \in hole(next)
  BY <1>1, <1>2, <1>3
<1>. QED BY <1>4 DEF hole

\* The files of one log, and how far those before one of them reach.
LEMMA FilesOfALog ==
  ASSUME NEW files, FilesAre(files), NEW log \in LogsIn(files)
  PROVE  LET of == FilesOf(files, log) IN
         /\ of # {} /\ IsFiniteSet(of) /\ \A s \in of : s.first \in Int /\ s.last \in Int /\ s.first <= s.last
         /\ \A S \in SUBSET of : S # {} =>
              /\ Reaching(S) \in Int /\ \A s \in S : s.last <= Reaching(S)
              /\ \E s \in S : s.last = Reaching(S)
              /\ \E s \in S : s.first = LeastOf({t.first : t \in S}) /\ \A t \in S : s.first <= t.first
<1>. DEFINE of == FilesOf(files, log)
<1>1. of # {}
  BY DEF LogsIn, FilesOf
<1>2. of \in SUBSET files
  BY DEF FilesOf
<1>3. IsFiniteSet(files)
  BY DEF FilesAre
<1>4. \A s \in of : s.first \in Int /\ s.last \in Int /\ s.first <= s.last
  BY DEF FilesOf, FilesAre
<1>. HIDE DEF of
<1>5. ASSUME NEW S \in SUBSET of, S # {}
      PROVE  /\ Reaching(S) \in Int /\ \A s \in S : s.last <= Reaching(S)
             /\ \E s \in S : s.last = Reaching(S)
             /\ \E s \in S : s.first = LeastOf({t.first : t \in S}) /\ \A t \in S : s.first <= t.first
  <2>1. IsFiniteSet(S)
    BY <1>2, <1>3, FS_Subset
  <2>. DEFINE lasts == [s \in S |-> s.last]
              firsts == [s \in S |-> s.first]
              ends == {s.last : s \in S}
              starts == {s.first : s \in S}
  <2>2. lasts \in [S -> Int] /\ firsts \in [S -> Int]
    BY <1>4
  <2>3. ends = {lasts[s] : s \in S} /\ starts = {firsts[s] : s \in S}
    OBVIOUS
  <2>4. GreatestOf(ends) \in ends /\ \A v \in ends : GreatestOf(ends) >= v
    <3>. HIDE DEF lasts, firsts, ends, starts
    <3>. QED BY <1>5, <2>1, <2>2, <2>3, ExtremesOf
  <2>5. LeastOf(starts) \in starts /\ \A v \in starts : LeastOf(starts) <= v
    <3>. HIDE DEF lasts, firsts, ends, starts
    <3>. QED BY <1>5, <2>1, <2>2, <2>3, ExtremesOf
  <2>6. Reaching(S) = GreatestOf(ends)
    BY DEF Reaching
  <2>7. PICK s \in S : s.last = Reaching(S)
    BY <2>4, <2>6
  <2>8. \A t \in S : Reaching(S) >= t.last
    BY <2>4, <2>6
  <2>9. PICK z \in S : z.first = LeastOf(starts)
    BY <2>5
  <2>10. \A t \in S : LeastOf(starts) <= t.first
    BY <2>5
  <2>11. \A t \in S : t.last \in Int
    BY <1>4
  <2>12. \A t \in S : t.last <= Reaching(S)
    BY <2>7, <2>8, <2>11
  <2>13. \A t \in S : z.first <= t.first
    BY <2>9, <2>10
  <2>. QED BY <2>7, <2>9, <2>11, <2>12, <2>13
<1>. QED BY <1>1, <1>2, <1>3, <1>4, <1>5, FS_Subset DEF of

\* The record numbers of a log between its first and its last file.
LEMMA NumbersAreAccounted ==
  ASSUME NEW files, FilesAre(files)
  PROVE  NumbersAccounted(files)
<1>. SUFFICES ASSUME NEW log \in LogsIn(files), NEW n
              PROVE  n \in UNION {x.about[2] : x \in {x \in betweenFiles(files) : x.about[1] = log}} <=>
                     n \in (LeastOf({s.first : s \in FilesOf(files, log)}) .. GreatestOf({s.last : s \in FilesOf(files, log)}))
                           \ UNION {s.first .. s.last : s \in FilesOf(files, log)}
  BY DEF NumbersAccounted
<1>. DEFINE of == FilesOf(files, log)
            missing == UNION {x.about[2] : x \in {x \in betweenFiles(files) : x.about[1] = log}}
            lowest == LeastOf({s.first : s \in of})
            highest == GreatestOf({s.last : s \in of})
<1>1. /\ of # {} /\ \A s \in of : s.first \in Int /\ s.last \in Int /\ s.first <= s.last
      /\ \A S \in SUBSET of : S # {} =>
              /\ Reaching(S) \in Int /\ \A s \in S : s.last <= Reaching(S)
              /\ \E s \in S : s.last = Reaching(S)
              /\ \E s \in S : s.first = LeastOf({t.first : t \in S}) /\ \A t \in S : s.first <= t.first
  BY FilesOfALog
<1>2. n \in missing <=>
      \E next \in of : /\ Before(next, of) # {} /\ next.first > Reaching(Before(next, of)) + 1
                       /\ n \in (Reaching(Before(next, of)) + 1) .. (next.first - 1)
  BY MissingIs
<1>3. highest = Reaching(of)
  BY DEF Reaching
<1>4. highest \in Int /\ (\A s \in of : s.last <= highest) /\ \E s \in of : s.last = highest
  <2>. HIDE DEF highest
  <2>. QED BY <1>1, <1>3
<1>5. lowest \in Int /\ (\A s \in of : lowest <= s.first) /\ \E s \in of : s.first = lowest
  <2>1. PICK s \in of : s.first = lowest /\ \A t \in of : s.first <= t.first
    BY <1>1
  <2>. HIDE DEF lowest
  <2>. QED BY <1>1, <2>1
<1>6. \A next : Before(next, of) \in SUBSET of /\ \A s : s \in Before(next, of) <=> s \in of /\ s.first < next.first
  BY DEF Before
<1>. HIDE DEF of, missing, lowest, highest
<1>7. ASSUME n \in missing
      PROVE  n \in lowest .. highest /\ \A s \in of : n \notin s.first .. s.last
  <2>1. PICK next \in of : /\ Before(next, of) # {} /\ n \in (Reaching(Before(next, of)) + 1) .. (next.first - 1)
    BY <1>2, <1>7
  <2>. DEFINE before == Before(next, of)
              reach == Reaching(before)
  <2>2. before \in SUBSET of /\ before # {} /\ \A s : s \in before <=> s \in of /\ s.first < next.first
    BY <1>6, <2>1
  <2>3. reach \in Int /\ \A s \in before : s.last <= reach
    <3>. HIDE DEF before
    <3>. QED BY <1>1, <2>2
  <2>4. n \in Int /\ reach < n /\ n < next.first
    <3>1. reach \in Int /\ next.first \in Int /\ n \in (reach + 1) .. (next.first - 1)
      BY <1>1, <2>1, <2>3
    <3>. HIDE DEF reach
    <3>. QED BY <3>1
  <2>. HIDE DEF before, reach
  <2>5. PICK b \in before : TRUE
    BY <2>2
  <2>6. lowest <= n
    <3>1. lowest <= b.first /\ b.first <= b.last /\ b.last <= reach /\ b.first \in Int /\ b.last \in Int
      BY <1>1, <1>5, <2>2, <2>3, <2>5
    <3>. QED BY <1>5, <2>3, <2>4, <3>1
  <2>7. n <= highest
    <3>1. next.first <= next.last /\ next.last <= highest /\ next.first \in Int /\ next.last \in Int
      BY <1>1, <1>4, <2>1
    <3>. QED BY <1>4, <2>4, <3>1
  <2>8. ASSUME NEW s \in of, n \in s.first .. s.last
        PROVE  FALSE
    <3>1. s.first <= n /\ n <= s.last /\ s.first \in Int /\ s.last \in Int /\ next.first \in Int
      BY <1>1, <2>1, <2>8
    <3>2. s.last <= reach
      BY <2>2, <2>3, <2>4, <3>1
    <3>. QED BY <2>3, <2>4, <3>1, <3>2
  <2>. QED BY <1>4, <1>5, <2>4, <2>6, <2>7, <2>8
<1>8. ASSUME n \in lowest .. highest, \A s \in of : n \notin s.first .. s.last
      PROVE  n \in missing
  <2>1. n \in Int /\ lowest <= n /\ n <= highest
    BY <1>4, <1>5, <1>8
  <2>2. \A s \in of : s.first > n \/ n > s.last
    BY <1>1, <1>8, <2>1
  <2>. DEFINE after == {s \in of : s.first > n}
  <2>3. after # {}
    <3>1. PICK s \in of : s.last = highest
      BY <1>4
    <3>2. s.first > n
      BY <2>1, <2>2, <3>1, <1>4
    <3>. QED BY <3>2
  <2>4. PICK next \in after : \A t \in after : next.first <= t.first
    <3>1. after \in SUBSET of
      OBVIOUS
    <3>. HIDE DEF after
    <3>. QED BY <1>1, <2>3, <3>1
  <2>5. next \in of /\ next.first > n /\ next.first \in Int
    BY <1>1, <2>4
  <2>. DEFINE before == Before(next, of)
              reach == Reaching(before)
  <2>6. before \in SUBSET of /\ \A s : s \in before <=> s \in of /\ s.first < next.first
    BY <1>6
  <2>7. before # {}
    <3>1. PICK s \in of : s.first = lowest
      BY <1>5
    <3>2. s.first < next.first
      BY <1>5, <2>1, <2>5, <3>1
    <3>. HIDE DEF before
    <3>. QED BY <2>6, <3>1, <3>2
  <2>8. PICK s \in before : s.last = reach /\ reach \in Int
    <3>. HIDE DEF before
    <3>. QED BY <1>1, <2>6, <2>7
  <2>. HIDE DEF before, reach
  <2>9. s.last < n
    <3>1. s \in of /\ s.first < next.first /\ s.first \in Int
      BY <1>1, <2>6, <2>8
    <3>2. ~(s.first > n)
      <4>1. s.first > n => s \in after
        BY <3>1
      <4>2. s \in after => next.first <= s.first
        BY <2>4
      <4>. QED BY <2>5, <3>1, <4>1, <4>2
    <3>3. n > s.last /\ s.last \in Int
      BY <1>1, <2>2, <3>1, <3>2
    <3>. QED BY <2>1, <3>3
  <2>10. next.first > reach + 1 /\ n \in (reach + 1) .. (next.first - 1)
    BY <2>1, <2>5, <2>8, <2>9
  <2>. QED BY <1>2, <2>5, <2>7, <2>10 DEF before, reach
<1>9. n \in UNION {s.first .. s.last : s \in of} <=> \E s \in of : n \in s.first .. s.last
  OBVIOUS
<1>10. n \in missing <=> n \in (lowest .. highest) \ UNION {s.first .. s.last : s \in of}
  BY <1>7, <1>8, <1>9
<1>. QED BY <1>10 DEF of, missing, lowest, highest

\* What Beginnings chooses among.
Spaced(S, times) == \A t \in times : t \in S <=> ~\E s \in S : s < t /\ t - s <= BUFFER

\* The times that runs begin at can be chosen, for finitely many times.
LEMMA BeginningsExist ==
  ASSUME NEW times \in SUBSET Int, IsFiniteSet(times)
  PROVE  Beginnings(times) \in SUBSET times /\ Spaced(Beginnings(times), times)
<1>. DEFINE Bad == {T \in SUBSET times : ~ \E S \in SUBSET T : Spaced(S, T)}
<1>1. Bad = {}
  <2>. SUFFICES ASSUME Bad # {} PROVE FALSE
    OBVIOUS
  <2>1. PICK T \in Bad : IsFiniteSet(T) /\ \A x \in T : T \ {x} \notin Bad
    <3>1. Bad \subseteq SUBSET times
      OBVIOUS
    <3>. HIDE DEF Bad
    <3>. QED BY <3>1, SmallestOf
  <2>2. T \in SUBSET Int /\ T \in SUBSET times
    OBVIOUS
  <2>3. CASE T = {}
    BY <2>1, <2>3 DEF Spaced
  <2>4. CASE T # {}
    <3>. DEFINE id == [t \in T |-> t]
    <3>1. id \in [T -> Int] /\ \A t \in T : id[t] = t
      <4>. HIDE DEF Bad
      <4>. QED BY <2>2
    <3>2. PICK g \in T : \A t \in T : t <= g
      <4>1. IsFiniteSet(T) /\ id \in [T -> Int]
        BY <2>1, <3>1
      <4>. HIDE DEF id, Bad
      <4>2. PICK g \in T : \A t \in T : id[t] <= id[g]
        BY <2>4, <4>1, GreatestAt, Zenon
      <4>. QED BY <3>1, <4>2
    <3>3. T \ {g} \in SUBSET times /\ T \ {g} \notin Bad
      BY <2>1, <2>2
    <3>4. PICK K \in SUBSET (T \ {g}) : Spaced(K, T \ {g})
      BY <3>3
    <3>. DEFINE joins == \E s \in K : s < g /\ g - s <= BUFFER
    <3>5. CASE joins
      <4>1. Spaced(K, T)
        BY <3>4, <3>5 DEF Spaced
      <4>. QED BY <2>1, <3>4, <4>1
    <3>6. CASE ~joins
      <4>1. ASSUME NEW t \in T \ {g}
            PROVE  t \in K \cup {g} <=> ~\E s \in K \cup {g} : s < t /\ t - s <= BUFFER
        <5>1. ~(g < t)
          BY <2>2, <3>2
        <5>2. t \in K <=> ~\E s \in K : s < t /\ t - s <= BUFFER
          BY <3>4 DEF Spaced
        <5>. QED BY <5>1, <5>2
      <4>2. ~(g < g)
        BY <2>2
      <4>3. ~\E s \in K \cup {g} : s < g /\ g - s <= BUFFER
        BY <3>6, <4>2
      <4>4. Spaced(K \cup {g}, T)
        BY <4>1, <4>3 DEF Spaced
      <4>. QED BY <2>1, <3>4, <4>4
    <3>. QED BY <3>5, <3>6
  <2>. QED BY <2>3, <2>4
<1>2. \E S \in SUBSET times : Spaced(S, times)
  BY <1>1
<1>3. Beginnings(times) = CHOOSE S \in SUBSET times : Spaced(S, times)
  BY DEF Beginnings, Spaced
<1>. QED BY <1>2, <1>3, Zenon

\* Every step is in a run of its machine.
LEMMA StepIsInARun ==
  ASSUME BUFFER \in Nat, NEW steps, IsFiniteSet(steps), \A x \in steps : x.from \in Int, NEW x \in steps
  PROVE  \E r \in Runs(steps) : x \in r
<1>. DEFINE times == {y.from : y \in steps}
            from == [y \in steps |-> y.from]
<1>1. times \in SUBSET Int /\ x.from \in times
  OBVIOUS
<1>2. IsFiniteSet(times)
  <2>1. times = {from[y] : y \in steps}
    OBVIOUS
  <2>. HIDE DEF from
  <2>2. IsFiniteSet({from[y] : y \in steps})
    BY ImageIsFinite
  <2>. QED BY <2>1, <2>2
<1>. HIDE DEF times
<1>3. Beginnings(times) \in SUBSET times /\ Spaced(Beginnings(times), times)
  BY <1>1, <1>2, BeginningsExist
<1>4. PICK t \in Beginnings(times) : t <= x.from /\ x.from - t <= BUFFER
  <2>1. CASE x.from \in Beginnings(times)
    <3>1. x.from <= x.from /\ x.from - x.from <= BUFFER
      BY <1>1
    <3>. QED BY <2>1, <3>1
  <2>2. CASE x.from \notin Beginnings(times)
    <3>1. PICK s \in Beginnings(times) : s < x.from /\ x.from - s <= BUFFER
      BY <1>1, <1>3, <2>2 DEF Spaced
    <3>2. s \in Int
      BY <1>1, <1>3
    <3>. QED BY <1>1, <3>1, <3>2
  <2>. QED BY <2>1, <2>2
<1>5. x \in Run(steps, t)
  BY <1>4 DEF Run
<1>. QED BY <1>4, <1>5 DEF Runs, times

\* A run is of the steps it is cut from.
LEMMA RunsAreOfSteps ==
  ASSUME NEW steps, NEW r \in Runs(steps)
  PROVE  r \subseteq steps
BY DEF Runs, Run

\* The steps that nothing explains.
LEMMA UnexplainedSteps ==
  ASSUME NEW files, FilesAre(files)
  PROVE  IsFiniteSet(Unexplained(files)) /\ \A x \in Unexplained(files) : x.from \in Int /\ x.to \in Int
<1>. DEFINE left == [s \in files |-> {x \in s.steps : ~explained(files, s, x)}]
            of == [s \in files |-> {StepOf(s, x) : x \in left[s]}]
<1>1. \A s \in files : IsFiniteSet(s.steps) /\ \A x \in s.steps : x[2] \in Int /\ x[3] \in Int
  BY DEF FilesAre
<1>2. ASSUME NEW s \in files
      PROVE  IsFiniteSet(of[s]) /\ \A y \in of[s] : y.from \in Int /\ y.to \in Int
  <2>. DEFINE step == [x \in left[s] |-> StepOf(s, x)]
  <2>1. left[s] \in SUBSET s.steps
    OBVIOUS
  <2>2. IsFiniteSet(left[s])
    <3>. HIDE DEF left
    <3>. QED BY <1>1, <2>1, FS_Subset
  <2>3. of[s] = {step[x] : x \in left[s]}
    <3>. HIDE DEF left
    <3>. QED OBVIOUS
  <2>4. IsFiniteSet({step[x] : x \in left[s]})
    <3>. HIDE DEF left, step
    <3>. QED BY <2>2, ImageIsFinite
  <2>5. \A x \in left[s] : StepOf(s, x).from \in Int /\ StepOf(s, x).to \in Int
    BY <1>1, <2>1 DEF StepOf
  <2>6. \A y \in of[s] : \E x \in left[s] : y = StepOf(s, x)
    <3>. HIDE DEF left
    <3>. QED OBVIOUS
  <2>. HIDE DEF left, of, step
  <2>. QED BY <2>3, <2>4, <2>5, <2>6
<1>3. Unexplained(files) = UNION {of[s] : s \in files}
  BY DEF Unexplained
<1>. HIDE DEF of
<1>4. IsFiniteSet({of[s] : s \in files})
  BY ImageIsFinite DEF FilesAre
<1>5. IsFiniteSet(UNION {of[s] : s \in files})
  BY <1>2, <1>4, FS_UNION
<1>. QED BY <1>2, <1>3, <1>5

\* What is said of a run of logs that step back together.
LEMMA SetBackIs ==
  ASSUME NEW run, IsFiniteSet(run), run # {}, \A x \in run : x.from \in Int /\ x.to \in Int
  PROVE  /\ \E y \in run : SetBackOf(run).computer = y.s.computer
         /\ \A x \in run : SetBackOf(run).old >= x.from /\ SetBackOf(run).new <= x.to
<1>. DEFINE from == [x \in run |-> x.from]
            to == [x \in run |-> x.to]
            froms == {x.from : x \in run}
            tos == {x.to : x \in run}
<1>1. from \in [run -> Int] /\ to \in [run -> Int] /\ froms = {from[x] : x \in run} /\ tos = {to[x] : x \in run}
  OBVIOUS
<1>2. /\ SetBackOf(run).computer = EarliestOf(run).s.computer
      /\ SetBackOf(run).old = GreatestOf(froms) /\ SetBackOf(run).new = LeastOf(tos)
  BY DEF SetBackOf
<1>3. \A x \in run : from[x] = x.from /\ x.from \in froms /\ x.to \in tos
  OBVIOUS
<1>. HIDE DEF from, to, froms, tos
<1>4. \A v \in froms : GreatestOf(froms) >= v
  BY <1>1, ExtremesOf
<1>5. \A v \in tos : LeastOf(tos) <= v
  BY <1>1, ExtremesOf
<1>6. EarliestOf(run) \in run
  <2>1. PICK x \in run : \A y \in run : from[x] <= from[y]
    BY <1>1, LeastAt
  <2>2. \E z \in run : \A y \in run : z.from <= y.from
    BY <1>3, <2>1
  <2>. QED BY <2>2, Zenon DEF EarliestOf
<1>. QED BY <1>2, <1>3, <1>4, <1>5, <1>6

\* The steps back are each said once for their file or for their machine.
LEMMA StepsAreAccounted ==
  ASSUME BUFFER \in Nat, NEW files, FilesAre(files), NEW recorded
  PROVE  StepsAccounted(files, recorded)
<1>. DEFINE all == Unexplained(files)
            steps == {y \in all : OfOneLog(y)}
            runs == MachineRuns(files, steps)
<1>. SUFFICES ASSUME NEW x \in all, x.from - x.to >= STEP_REPORT
              PROVE  \E y \in timeStatements(files, recorded) :
                        \/ y.kind = "time-backwards" /\ y.about[1] = x.s.file /\ x.rid \in y.about[2]
                        \/ /\ y.kind = "clock-set-back" /\ y.about.new <= x.to /\ y.about.old >= x.from
                           /\ Machine(files, y.about.computer) = Machine(files, x.s.computer)
  BY DEF StepsAccounted
<1>1. IsFiniteSet(all) /\ \A y \in all : y.from \in Int /\ y.to \in Int
  BY UnexplainedSteps
<1>2. timeStatements(files, recorded) = StepStatements(all, runs, recorded)
  BY DEF timeStatements
<1>. HIDE DEF all
<1>3. ASSUME x \in Alone(all, runs)
      PROVE  \E y \in timeStatements(files, recorded) :
                y.kind = "time-backwards" /\ y.about[1] = x.s.file /\ x.rid \in y.about[2]
  <2>1. x \in LongSteps(all, runs)
    BY <1>3 DEF LongSteps
  <2>. DEFINE rids == {z.rid : z \in {z \in LongSteps(all, runs) : z.s.file = x.s.file}}
              y == Says("time-backwards", "medium", <<x.s.file, rids>>)
  <2>2. y \in StepStatements(all, runs, recorded)
    <3>. HIDE DEF runs
    <3>. QED BY <2>1 DEF StepStatements
  <2>3. x.rid \in rids
    <3>. HIDE DEF runs
    <3>. QED BY <2>1
  <2>4. y.kind = "time-backwards" /\ y.about[1] = x.s.file /\ y.about[2] = rids
    <3>. HIDE DEF rids
    <3>. QED BY DEF Says
  <2>. HIDE DEF y, rids, runs
  <2>. QED BY <1>2, <2>2, <2>3, <2>4
<1>4. CASE ~OfOneLog(x)
  <2>1. x \in Alone(all, runs)
    <3>. HIDE DEF runs
    <3>. QED BY <1>4 DEF Alone
  <2>. QED BY <1>3, <2>1
<1>5. CASE OfOneLog(x)
  <2>. DEFINE m == Machine(files, x.s.computer)
              own == {y \in steps : Machine(files, y.s.computer) = m}
  <2>1. x \in own /\ own \in SUBSET all /\ \A y \in own : Machine(files, y.s.computer) = m
    BY <1>5
  <2>2. IsFiniteSet(own)
    <3>. HIDE DEF own
    <3>. QED BY <1>1, <2>1, FS_Subset
  <2>3. PICK r \in Runs(own) : x \in r
    <3>. HIDE DEF own
    <3>1. \A y \in own : y.from \in Int
      BY <1>1, <2>1
    <3>. QED BY <2>1, <2>2, <3>1, StepIsInARun
  <2>4. r \in runs
    BY <1>5, <2>3 DEF MachineRuns
  <2>5. r \in SUBSET own
    BY RunsAreOfSteps
  <2>. HIDE DEF own, runs
  <2>6. CASE Together(r)
    <3>. DEFINE c == SetBackOf(r)
                y == Says("clock-set-back", "low", c)
    <3>1. IsFiniteSet(r)
      BY <2>2, <2>5, FS_Subset
    <3>2. \A z \in r : z.from \in Int /\ z.to \in Int
      BY <1>1, <2>1, <2>5
    <3>3. (\E z \in r : c.computer = z.s.computer) /\ c.old >= x.from /\ c.new <= x.to
      BY <2>3, <3>1, <3>2, SetBackIs
    <3>4. Machine(files, c.computer) = m
      <4>. HIDE DEF c, m
      <4>. QED BY <2>1, <2>5, <3>3
    <3>5. y \in StepStatements(all, runs, recorded)
      BY <2>4, <2>6 DEF StepStatements
    <3>6. y.kind = "clock-set-back" /\ y.about = c
      BY DEF Says
    <3>. HIDE DEF y, c
    <3>. QED BY <1>2, <3>3, <3>4, <3>5, <3>6 DEF runs
  <2>7. CASE ~Together(r)
    <3>1. x \in Alone(all, runs)
      BY <2>3, <2>4, <2>7 DEF Alone
    <3>. QED BY <1>3, <3>1
  <2>. QED BY <2>6, <2>7
<1>. QED BY <1>4, <1>5

\* Each case holds one of its contents.
Held(h) == h = [k \in Cases |-> h[k]] /\ \A k \in Cases : h[k] \in 1 .. Len(Contents[k])
HeldInv == Held(held) /\ kase \in Cases

\* Each case starts with its first content.
LEMMA HeldStarts == ReportInit => HeldInv
<1>. SUFFICES ASSUME ReportInit PROVE HeldInv
  OBVIOUS
<1>1. \A k \in Cases : Len(Contents[k]) \in Nat \ {0}
  BY LogsAssumption
<1>2. held = [k \in Cases |-> 1] /\ kase \in Cases
  BY DEF ReportInit
<1>3. \A k \in Cases : 1 \in 1 .. Len(Contents[k])
  BY <1>1
<1>. QED BY <1>2, <1>3 DEF HeldInv, Held

\* The rules ran or the stories were built: the next content.
LEMMA NextContent ==
  ASSUME HeldInv, RulesChanged
  PROVE  HeldInv'
<1>1. held' = [held EXCEPT ![kase] = @ + 1] /\ kase' = kase /\ held[kase] < Len(Contents[kase])
  BY DEF RulesChanged
<1>2. held' = [k \in Cases |-> IF k = kase THEN held[k] + 1 ELSE held[k]]
  BY <1>1 DEF HeldInv, Held
<1>3. held[kase] + 1 \in 1 .. Len(Contents[kase])
  BY <1>1, LogsAssumption DEF HeldInv, Held
<1>4. \A k \in Cases : held'[k] = IF k = kase THEN held[k] + 1 ELSE held[k]
  BY <1>2
<1>5. held' = [k \in Cases |-> held'[k]]
  BY <1>2
<1>. QED BY <1>1, <1>3, <1>4, <1>5 DEF HeldInv, Held

\* No other step changes what a case holds.
LEMMA HeldStep == HeldInv /\ [ReportNext]_reportVars => HeldInv'
<1>. SUFFICES ASSUME HeldInv, [ReportNext]_reportVars PROVE HeldInv'
  OBVIOUS
<1>1. CASE RulesChanged
  BY <1>1, NextContent
<1>2. CASE \E k \in Cases : SwitchCase(k)
  BY <1>2 DEF SwitchCase, HeldInv
<1>3. ASSUME UNCHANGED <<held, kase>>
      PROVE  HeldInv'
  BY <1>3 DEF HeldInv
<1>4. CASE \E l \in loads : Arrives(l)
  BY <1>3, <1>4 DEF Arrives
<1>5. CASE \E r \in reads : CheckStarts(r) \/ CheckAnswers(r)
  BY <1>3, <1>5 DEF CheckStarts, CheckAnswers
<1>6. CASE (\E t \in Edits : TypeSummary(t)) \/ SaveSummary
  BY <1>3, <1>6 DEF TypeSummary, SaveSummary
<1>7. CASE AskDraft \/ draftExecutiveSummary \/ DraftShown \/ DraftFails
  BY <1>3, <1>7 DEF AskDraft, draftExecutiveSummary, DraftShown, DraftFails
<1>8. CASE ExportHtml \/ ExportDocx \/ ExportTimeline \/ ExportLayer
  BY <1>3, <1>8 DEF ExportHtml, ExportDocx, ExportTimeline, ExportLayer, Export
<1>9. CASE UNCHANGED reportVars
  BY <1>3, <1>9 DEF reportVars
<1>. QED BY <1>1, <1>2, <1>4, <1>5, <1>6, <1>7, <1>8, <1>9 DEF ReportNext

\* The gaps: whatever the files of a case are, however they overlap and in whatever order they come, the
\* record numbers of each log and the steps back of its write times are accounted for in what is exported.
THEOREM GapsAreAccounted == ReportSpec => []GapsAccounted
<1>1. HeldInv => GapsAccounted
  <2>. SUFFICES ASSUME HeldInv PROVE Accounted(Contents[kase][held[kase]].logs)
    BY DEF GapsAccounted
  <2>1. BUFFER \in Nat /\ FilesAre(filesOf(Contents[kase][held[kase]].logs))
    BY LogsAssumption DEF HeldInv, Held
  <2>. QED BY <2>1, NumbersAreAccounted, StepsAreAccounted DEF Accounted
<1>. QED BY <1>1, HeldStarts, HeldStep, PTL DEF ReportSpec

-----------------------------------------------------------------------------
(* Stories: what a kept build says it read *)

\* A build that has read the rows, and one that is kept: if the case still holds the evidence the build noted
\* before it read, its stories are what the engine makes of that evidence with the findings it noted.
Noted(inputs, w) == inputs.evidence \in Int /\ inputs.evidence <= w
True(b, w, eng) == Noted(b.inputs, w) /\ (b.inputs.evidence = w => b.stories = BuiltFrom(eng[w], b.inputs.findings))
Building(b, w, eng) ==
  /\ b.stage = "asked" => Noted(b.inputs, w)
  /\ b.stage = "read" => True(b, w, eng)

HonestInv ==
  /\ world \in Int
  /\ snapshot # None => True(snapshot, world, engine)
  /\ \A n \in DOMAIN builds : Building(builds[n], world, engine)

\* It holds at the start.
LEMMA HonestStarts == StoryInit => HonestInv
<1>. SUFFICES ASSUME StoryInit PROVE HonestInv
  OBVIOUS
<1>1. world = 0 /\ \A n \in DOMAIN builds : builds[n] = NotStarted
  BY DEF StoryInit
<1>2. snapshot # None => True(snapshot, world, engine)
  BY <1>1 DEF StoryInit, True, Noted, Built
<1>. QED BY <1>1, <1>2 DEF HonestInv, Building, NotStarted

\* A step that leaves the case, the builds and the snapshot alone keeps it.
LEMMA HonestStays ==
  ASSUME HonestInv, UNCHANGED <<engine, world, snapshot, builds>>
  PROVE  HonestInv'
BY DEF HonestInv

\* What a build asks for is what the case holds.
LEMMA BeginKeeps ==
  ASSUME HonestInv, UNCHANGED <<engine, world, snapshot>>, NEW t, NEW follow, Begin(t, follow)
  PROVE  HonestInv'
<1>1. PICK n \in DOMAIN builds :
        builds' = [builds EXCEPT ![n] = [stage |-> "asked", by |-> {t}, inputs |-> storyInputs, follow |-> follow]]
  BY DEF Begin
<1>2. storyInputs.evidence = world
  BY DEF storyInputs
<1>. DEFINE asked == [stage |-> "asked", by |-> {t}, inputs |-> storyInputs, follow |-> follow]
<1>3. Building(asked, world, engine)
  BY <1>2 DEF HonestInv, Building, Noted
<1>. HIDE DEF asked
<1>4. \A m \in DOMAIN builds' : builds'[m] = builds[m] \/ builds'[m] = asked
  BY <1>1 DEF asked
<1>5. DOMAIN builds' = DOMAIN builds
  BY <1>1
<1>. QED BY <1>3, <1>4, <1>5 DEF HonestInv

\* The steps of a build.
LEMMA BuildKeeps ==
  ASSUME HonestInv, NEW n \in DOMAIN builds, ReadRows(n) \/ buildStories(n) \/ BuildFails(n)
  PROVE  HonestInv'
<1>1. CASE ReadRows(n)
  <2>. DEFINE b == builds[n]
              read == [stage |-> "read", by |-> b.by, inputs |-> b.inputs, follow |-> b.follow,
                       stories |-> Built(world, b.inputs.findings)]
  <2>1. builds' = [builds EXCEPT ![n] = read] /\ UNCHANGED <<engine, world, snapshot>> /\ b.stage = "asked"
    BY <1>1 DEF ReadRows
  <2>2. Noted(b.inputs, world)
    BY <2>1 DEF HonestInv, Building
  <2>3. Building(read, world, engine)
    BY <2>2 DEF Building, True, Built
  <2>. HIDE DEF read, b
  <2>4. \A m \in DOMAIN builds' : builds'[m] = builds[m] \/ builds'[m] = read
    BY <2>1
  <2>5. DOMAIN builds' = DOMAIN builds
    BY <2>1
  <2>. QED BY <2>1, <2>3, <2>4, <2>5 DEF HonestInv
<1>2. ASSUME builds' = [builds EXCEPT ![n] = Done], UNCHANGED <<engine, world>>,
             snapshot' # None => True(snapshot', world, engine)
      PROVE  HonestInv'
  <2>1. Building(Done, world, engine)
    BY DEF Building, Done
  <2>2. DOMAIN builds' = DOMAIN builds /\ \A m \in DOMAIN builds' : builds'[m] = builds[m] \/ builds'[m] = Done
    BY <1>2
  <2>. QED BY <1>2, <2>1, <2>2 DEF HonestInv
<1>3. CASE buildStories(n)
  <2>1. snapshot' = [stories |-> builds[n].stories, inputs |-> builds[n].inputs] /\ builds[n].stage = "read"
    BY <1>3 DEF buildStories, Snapshot
  <2>2. True(builds[n], world, engine)
    BY <2>1 DEF HonestInv, Building
  <2>3. True(snapshot', world, engine)
    BY <2>1, <2>2 DEF True
  <2>. QED BY <1>2, <1>3, <2>3 DEF buildStories
<1>4. CASE BuildFails(n)
  BY <1>2, <1>4 DEF BuildFails, HonestInv
<1>. QED BY <1>1, <1>3, <1>4

\* More evidence: what was noted before is no longer all of it.
LEMMA ImportKeeps ==
  ASSUME HonestInv, Import
  PROVE  HonestInv'
<1>1. world \in Int /\ world' = world + 1 /\ UNCHANGED <<engine, snapshot, builds>>
  BY DEF Import, HonestInv
<1>2. ASSUME NEW i, Noted(i, world)
      PROVE  Noted(i, world') /\ i.evidence # world'
  BY <1>1, <1>2 DEF Noted
<1>3. ASSUME NEW b, True(b, world, engine)
      PROVE  True(b, world', engine)
  BY <1>2, <1>3 DEF True
<1>4. ASSUME NEW b, Building(b, world, engine)
      PROVE  Building(b, world', engine)
  BY <1>2, <1>3, <1>4 DEF Building
<1>. QED BY <1>1, <1>3, <1>4 DEF HonestInv

\* A page that is left, or opened.
LEMMA LeaveKeeps ==
  ASSUME HonestInv, NEW t, Leave(t)
  PROVE  HonestInv'
<1>1. UNCHANGED <<engine, world, snapshot>> /\ DOMAIN builds' = DOMAIN builds
  BY DEF Leave
<1>2. ASSUME NEW n \in DOMAIN builds PROVE Building(builds'[n], world, engine)
  <2>1. builds'[n] = builds[n] \/ builds'[n] = [builds[n] EXCEPT !.by = {}]
    BY DEF Leave
  <2>2. Building(builds[n], world, engine)
    BY DEF HonestInv
  <2>3. LET b == [builds[n] EXCEPT !.by = {}]
        IN  b.stage = builds[n].stage /\ b.inputs = builds[n].inputs /\ b.stories = builds[n].stories
    OBVIOUS
  <2>. QED BY <2>1, <2>2, <2>3 DEF Building, True
<1>. QED BY <1>1, <1>2 DEF HonestInv

\* A page that is opened shows what is kept or asks for a build.
LEMMA LoadKeeps ==
  ASSUME HonestInv, NEW t, NEW link, Load(t, link)
  PROVE  HonestInv'
<1>1. PICK views, open, build : LoadAt(t, link, views, open, build)
  BY DEF Load
<1>2. UNCHANGED <<engine, world, snapshot>> /\ ((\E f : Begin(t, f)) \/ UNCHANGED builds)
  BY <1>1 DEF LoadAt
<1>. QED BY <1>2, BeginKeeps, HonestStays

\* What the analyst does on a page changes no build but one it asks for.
LEMMA ShowingKeeps ==
  ASSUME HonestInv, NEW t, NEW views, NEW v, Showing(t, views, v)
  PROVE  HonestInv'
<1>1. CASE Leave(t)
  BY <1>1, LeaveKeeps
<1>2. CASE Rebuild(t, v)
  BY <1>2, BeginKeeps DEF Rebuild
<1>3. ASSUME NEW all, NEW shows, Write(t, all, shows)
      PROVE  UNCHANGED <<engine, world, snapshot, builds>>
  BY <1>3 DEF Write
<1>4. ASSUME NEW all, WriteNotes(t, all)
      PROVE  UNCHANGED <<engine, world, snapshot, builds>>
  BY <1>4 DEF WriteNotes
<1>5. Delete(t) \/ selectStory(t, views) => UNCHANGED <<engine, world, snapshot, builds>>
  BY <1>3 DEF Delete, selectStory
<1>6. ASSUME NEW on, OnNotes(t, v, on)
      PROVE  UNCHANGED <<engine, world, snapshot, builds>>
  BY <1>4, <1>6 DEF OnNotes, deleteStoryNote, saveStoryNote, attachStoryNote, AttachTo, Noting
<1>7. OnStory(t, v, views) => UNCHANGED <<engine, world, snapshot, builds>>
  BY <1>3 DEF OnStory, Call, UndoCall, DropLost, PutBack, Unsplit, Merge, Unmerge, Attach, decide
<1>8. OnStep(t, v) => UNCHANGED <<engine, world, snapshot, builds>>
  BY <1>3 DEF OnStep, CallStep, UndoStep, StepOut, Split, decide
<1>. QED BY <1>1, <1>2, <1>5, <1>6, <1>7, <1>8, HonestStays DEF Showing

\* Every step keeps it.
LEMMA HonestStep == HonestInv /\ [StoryNext]_storyVars => HonestInv'
<1>. SUFFICES ASSUME HonestInv, [StoryNext]_storyVars PROVE HonestInv'
  OBVIOUS
<1>1. CASE UNCHANGED storyVars
  BY <1>1, HonestStays DEF storyVars
<1>2. CASE StoryNext
  BY <1>2, LoadKeeps, ShowingKeeps, BuildKeeps, ImportKeeps DEF StoryNext
<1>. QED BY <1>1, <1>2

\* Stories kept of an earlier build that the page calls current (storiesStaleness finds what was noted equal to what
\* the case holds) are what a build would make now: the evidence and findings are noted before the rows are read, so
\* evidence that arrives while a build runs is newer than what the build notes.
THEOREM SnapshotsAreHonest == StorySpec => []SnapshotIsHonest
<1>1. HonestInv => SnapshotIsHonest
  <2>. SUFFICES ASSUME HonestInv, snapshot # None, snapshot.inputs = storyInputs
                PROVE  snapshot.stories = Built(world, FlagsIn(world) \ falsePos)
    BY DEF SnapshotIsHonest, storiesStaleness
  <2>1. snapshot.inputs.evidence = world /\ snapshot.inputs.findings = FlagsIn(world) \ falsePos
    BY DEF storyInputs
  <2>. QED BY <2>1 DEF HonestInv, True, Built
<1>. QED BY <1>1, HonestStarts, HonestStep, PTL DEF StorySpec
-----------------------------------------------------------------------------
(* Stories: what disputing steps does to the severity *)

Weights(S) == S # {} /\ S \subseteq 0 .. 5

\* The largest of some weights is one of them and none is larger.
LEMMA MaxWeight ==
  ASSUME NEW S, Weights(S)
  PROVE  Max(S) \in S /\ \A x \in S : x <= Max(S)
<1>1. \E x \in S : \A y \in S : x >= y
  <2>1. CASE 5 \in S
    BY <2>1 DEF Weights
  <2>2. CASE 5 \notin S /\ 4 \in S
    BY <2>2 DEF Weights
  <2>3. CASE 5 \notin S /\ 4 \notin S /\ 3 \in S
    BY <2>3 DEF Weights
  <2>4. CASE 5 \notin S /\ 4 \notin S /\ 3 \notin S /\ 2 \in S
    BY <2>4 DEF Weights
  <2>5. CASE 5 \notin S /\ 4 \notin S /\ 3 \notin S /\ 2 \notin S /\ 1 \in S
    BY <2>5 DEF Weights
  <2>6. CASE S \cap {1, 2, 3, 4, 5} = {}
    <3>1. \A x \in S : x = 0
      BY <2>6 DEF Weights
    <3>2. PICK x : x \in S
      BY DEF Weights
    <3>. QED BY <3>1, <3>2
  <2>. QED BY <2>1, <2>2, <2>3, <2>4, <2>5, <2>6
<1>2. Max(S) = CHOOSE x \in S : \A y \in S : x >= y
  BY DEF Max
<1>3. Max(S) \in S /\ \A y \in S : Max(S) >= y
  BY <1>1, <1>2
<1>. QED BY <1>3 DEF Weights

WeightsOf(kept) == {0} \cup {weight(k) : k \in keysIn(kept)}

\* The worst finding of some steps is a weight, and more steps have none that is lighter.
LEMMA TopGrows ==
  ASSUME NEW kept, NEW more, kept \subseteq more
  PROVE  TopOf(kept) \in 0 .. 5 /\ TopOf(more) \in 0 .. 5 /\ TopOf(kept) <= TopOf(more)
<1>1. \A k : weight(k) \in 0 .. 5
  BY WeightsAssumption DEF weight
<1>2. \A some : Weights(WeightsOf(some))
  BY <1>1 DEF Weights, WeightsOf
<1>3. WeightsOf(kept) \subseteq WeightsOf(more)
  BY DEF WeightsOf, keysIn
<1>4. TopOf(kept) = Max(WeightsOf(kept)) /\ TopOf(more) = Max(WeightsOf(more))
  BY DEF TopOf, WeightsOf
<1>5. TopOf(kept) \in WeightsOf(kept) /\ TopOf(more) \in WeightsOf(more)
  BY <1>2, <1>4, MaxWeight
<1>6. TopOf(kept) <= TopOf(more)
  BY <1>2, <1>3, <1>4, <1>5, MaxWeight
<1>. QED BY <1>2, <1>5, <1>6 DEF Weights

\* What raises a story with fewer steps raises it with more.
LEMMA RaisesGrows ==
  ASSUME NEW all, NEW kept, NEW more, kept \subseteq more, Raises(all, kept, phasesOf(kept))
  PROVE  Raises(all, more, phasesOf(more))
<1>1. CASE \A a \in all : a.firmKnown
  <2>. DEFINE firm(some) == {f \in UNION {a.firm : a \in all} : \E st \in some : st.id = f.step}
  <2>1. threeInThree(firm(kept))
    BY <1>1 DEF Raises
  <2>2. firm(kept) \subseteq firm(more)
    OBVIOUS
  <2>. HIDE DEF firm
  <2>3. threeInThree(firm(more))
    BY <2>1, <2>2 DEF threeInThree
  <2>. QED BY <1>1, <2>3 DEF Raises, firm
<1>2. CASE ~ \A a \in all : a.firmKnown
  <2>1. PICK p, q, r \in DOMAIN phasesOf(kept) :
          p # q /\ q # r /\ p # r /\ \A x \in {p, q, r} : phasesOf(kept)[x] >= 2
    BY <1>2 DEF Raises
  <2>2. \A x \in DOMAIN phasesOf(kept) :
          /\ x \in DOMAIN phasesOf(more)
          /\ phasesOf(kept)[x] = TopOf({st \in kept : st.phase = x})
          /\ phasesOf(more)[x] = TopOf({st \in more : st.phase = x})
    BY DEF phasesOf
  <2>3. \A x \in DOMAIN phasesOf(kept) : phasesOf(kept)[x] >= 2 => phasesOf(more)[x] >= 2
    <3>. SUFFICES ASSUME NEW x \in DOMAIN phasesOf(kept), phasesOf(kept)[x] >= 2
                  PROVE  phasesOf(more)[x] >= 2
      OBVIOUS
    <3>. DEFINE few == {st \in kept : st.phase = x}
                many == {st \in more : st.phase = x}
    <3>1. few \subseteq many
      OBVIOUS
    <3>2. phasesOf(kept)[x] = TopOf(few) /\ phasesOf(more)[x] = TopOf(many)
      BY <2>2
    <3>. HIDE DEF few, many
    <3>3. TopOf(few) \in 0 .. 5 /\ TopOf(many) \in 0 .. 5 /\ TopOf(few) <= TopOf(many)
      BY <3>1, TopGrows
    <3>. QED BY <3>2, <3>3
  <2>4. \E a, b, c \in DOMAIN phasesOf(more) :
          a # b /\ b # c /\ a # c /\ \A x \in {a, b, c} : phasesOf(more)[x] >= 2
    <3>1. p \in DOMAIN phasesOf(more) /\ q \in DOMAIN phasesOf(more) /\ r \in DOMAIN phasesOf(more)
      BY <2>2
    <3>2. \A x \in {p, q, r} : phasesOf(more)[x] >= 2
      BY <2>1, <2>3
    <3>. QED BY <2>1, <3>1, <3>2
  <2>. QED BY <1>2, <2>4 DEF Raises
<1>. QED BY <1>1, <1>2

\* Disputing some steps, whatever they are, leaves a severity that is no higher.
LEMMA SeverityFalls ==
  ASSUME NEW steps, NEW some, NEW all
  PROVE  severityOf(steps, [id \in some |-> [verdict |-> "disputed"]], all) <= severityOf(steps, <<>>, all)
<1>. DEFINE calls == [id \in some |-> [verdict |-> "disputed"]]
            kept == Undisputed(steps, calls)
            more == Undisputed(steps, <<>>)
<1>1. more = Range(steps)
  BY DEF Undisputed, Called
<1>2. kept \subseteq more
  BY <1>1 DEF Undisputed
<1>3. severityOf(steps, calls, all) = Severity(TopOf(kept), Raises(all, kept, phasesOf(kept)))
  BY DEF severityOf
<1>4. severityOf(steps, <<>>, all) = Severity(TopOf(more), Raises(all, more, phasesOf(more)))
  BY DEF severityOf
<1>. HIDE DEF calls, kept, more
<1>5. TopOf(kept) \in 0 .. 5 /\ TopOf(more) \in 0 .. 5 /\ TopOf(kept) <= TopOf(more)
  BY <1>2, TopGrows
<1>6. Raises(all, kept, phasesOf(kept)) => Raises(all, more, phasesOf(more))
  BY <1>2, RaisesGrows
<1>7. Severity(TopOf(kept), Raises(all, kept, phasesOf(kept))) <= Severity(TopOf(more), Raises(all, more, phasesOf(more)))
  BY <1>5, <1>6 DEF Severity
<1>. QED BY <1>3, <1>4, <1>7 DEF calls

\* Disputing steps never raises a story: without them, the worst finding is no worse, and techniques that
\* can still be matched to three phases could be matched with them (restate, threeInThree).
THEOREM DisputesOnlyLower == StorySpec => []DisputeOnlyLowers
<1>1. DisputeOnlyLowers
  BY SeverityFalls DEF DisputeOnlyLowers
<1>. QED BY <1>1, PTL
-----------------------------------------------------------------------------
(* Orders and lists *)

\* A strict order of all the members of S.
Orders(order, S) ==
  /\ \A x \in S : <<x, x>> \notin order
  /\ \A x, y, z \in S : <<x, y>> \in order /\ <<y, z>> \in order => <<x, z>> \in order
  /\ \A x, y \in S : x # y => <<x, y>> \in order \/ <<y, x>> \in order

\* A member that comes before another one has fewer before it.
LEMMA FewerBefore ==
  ASSUME NEW S, IsFiniteSet(S), NEW order, Orders(order, S), NEW x \in S, NEW y \in S, <<x, y>> \in order
  PROVE  Cardinality({z \in S : <<z, x>> \in order}) < Cardinality({z \in S : <<z, y>> \in order})
<1> DEFINE A == {z \in S : <<z, x>> \in order}
           B == {z \in S : <<z, y>> \in order}
<1>1. A \in SUBSET B /\ B \in SUBSET S /\ x \in B /\ x \notin A
  BY DEF Orders
<1> HIDE DEF A, B
<1>2. IsFiniteSet(B)
  BY <1>1, FS_Subset
<1>3. Cardinality(A) <= Cardinality(B) /\ (Cardinality(B) = Cardinality(A) => B = A)
  BY <1>1, <1>2, FS_Subset
<1>4. IsFiniteSet(A)
  BY <1>1, <1>2, FS_Subset
<1>5. Cardinality(A) \in Nat /\ Cardinality(B) \in Nat
  BY <1>2, <1>4, FS_CardinalityType
<1> QED BY <1>1, <1>3, <1>5 DEF A, B

\* A ranking lists all members of a finite set, each once, and in order.
LEMMA RankedIs ==
  ASSUME NEW S, IsFiniteSet(S), NEW order, Orders(order, S)
  PROVE  /\ Ranked(S, order) \in Seq(S) /\ Len(Ranked(S, order)) = Cardinality(S) /\ Cardinality(S) \in Nat
         /\ \A x \in S : \E k \in 1 .. Cardinality(S) : Ranked(S, order)[k] = x
         /\ \A j, k \in 1 .. Cardinality(S) : j < k => <<Ranked(S, order)[j], Ranked(S, order)[k]>> \in order
<1> DEFINE n == Cardinality(S)
           below(x) == {y \in S : <<y, x>> \in order}
           f == [x \in S |-> Cardinality(below(x)) + 1]
           listed == Ranked(S, order)
<1>1. n \in Nat
  BY FS_CardinalityType
<1>2. \A x \in S : Cardinality(below(x)) \in 0 .. n - 1
  <2> TAKE x \in S
  <2>1. below(x) \in SUBSET (S \ {x})
    BY DEF Orders
  <2> DEFINE A == below(x)
             B == S \ {x}
  <2>2. IsFiniteSet(B) /\ Cardinality(B) = n - 1
    BY FS_RemoveElement
  <2>3. A \in SUBSET B
    BY <2>1
  <2> HIDE DEF A, B
  <2>4. IsFiniteSet(A) /\ Cardinality(A) <= Cardinality(B)
    BY <2>2, <2>3, FS_Subset
  <2>5. Cardinality(A) \in Nat
    BY <2>4, FS_CardinalityType
  <2>6. Cardinality(A) \in 0 .. n - 1
    BY <1>1, <2>2, <2>4, <2>5
  <2> QED BY <2>6 DEF A
<1>3. \A x, y \in S : <<x, y>> \in order => Cardinality(below(x)) < Cardinality(below(y))
  BY FewerBefore
<1> HIDE DEF below
<1>4. f \in [S -> 1 .. n]
  BY <1>1, <1>2
<1>5. \A x, y \in S : f[x] = f[y] => x = y
  <2> SUFFICES ASSUME NEW x \in S, NEW y \in S, x # y PROVE f[x] # f[y]
    OBVIOUS
  <2>1. <<x, y>> \in order \/ <<y, x>> \in order
    BY DEF Orders
  <2>2. Cardinality(below(x)) # Cardinality(below(y))
    BY <1>2, <1>3, <2>1
  <2>3. f[x] = Cardinality(below(x)) + 1 /\ f[y] = Cardinality(below(y)) + 1
    OBVIOUS
  <2> QED BY <1>2, <2>2, <2>3
<1>6. \A k \in 1 .. n : \E x \in S : f[x] = k
  <2> HIDE DEF f
  <2>1. f \in Injection(S, 1 .. n)
    BY <1>4, <1>5 DEF Injection, IsInjective
  <2>2. IsFiniteSet(1 .. n) /\ Cardinality(1 .. n) = n
    BY <1>1, FS_Interval
  <2>3. f \in Surjection(S, 1 .. n)
    BY <2>1, <2>2, FS_Injection
  <2> QED BY <2>3 DEF Surjection
<1>7. \A k \in 1 .. n : \E x \in S : Cardinality(below(x)) = k - 1
  BY <1>2, <1>6
<1>8. listed = [k \in 1 .. n |-> CHOOSE x \in S : Cardinality(below(x)) = k - 1]
  BY DEF Ranked, below
<1>9. \A k \in 1 .. n : listed[k] \in S /\ Cardinality(below(listed[k])) = k - 1
  <2> TAKE k \in 1 .. n
  <2>1. listed[k] = CHOOSE x \in S : Cardinality(below(x)) = k - 1
    BY <1>8
  <2> HIDE DEF listed
  <2> QED BY <1>7, <2>1
<1>10. listed \in [1 .. n -> S]
  <2> HIDE DEF n, below, listed
  <2>1. DOMAIN listed = 1 .. n /\ listed = [k \in 1 .. n |-> listed[k]]
    BY <1>8
  <2> QED BY <1>9, <2>1
<1>11. listed \in Seq(S) /\ Len(listed) = n
  <2> HIDE DEF n, listed
  <2> QED BY <1>1, <1>10
<1>12. \A x \in S : \E k \in 1 .. n : listed[k] = x
  <2> TAKE x \in S
  <2>1. f[x] \in 1 .. n /\ f[x] = Cardinality(below(x)) + 1
    BY <1>4
  <2> DEFINE y == listed[f[x]]
  <2>2. y \in S /\ Cardinality(below(y)) = f[x] - 1
    BY <1>9, <2>1
  <2>3. f[y] = Cardinality(below(y)) + 1
    BY <2>2
  <2>4. f[y] = f[x]
    <3> HIDE DEF f, y, listed
    <3> QED BY <1>2, <2>1, <2>2, <2>3
  <2>5. y = x
    <3> HIDE DEF f, y, listed
    <3> QED BY <1>5, <2>2, <2>4
  <2> QED BY <2>1, <2>5
<1>13. \A j, k \in 1 .. n : j < k => <<listed[j], listed[k]>> \in order
  <2> SUFFICES ASSUME NEW j \in 1 .. n, NEW k \in 1 .. n, j < k PROVE <<listed[j], listed[k]>> \in order
    OBVIOUS
  <2> HIDE DEF listed, n
  <2>1. listed[j] \in S /\ listed[k] \in S /\ Cardinality(below(listed[j])) = j - 1 /\ Cardinality(below(listed[k])) = k - 1
    BY <1>9
  <2>2. listed[j] # listed[k]
    BY <1>1, <2>1
  <2>3. <<listed[k], listed[j]>> \notin order
    BY <1>1, <1>3, <2>1
  <2> QED BY <2>1, <2>2, <2>3 DEF Orders
<1> QED BY <1>1, <1>11, <1>12, <1>13

\* A list kept at some of its places has what is there, and nothing else.
LEMMA KeptIs ==
  ASSUME NEW S, NEW s \in Seq(S), NEW places \in SUBSET (DOMAIN s)
  PROVE  /\ Kept(s, places) \in Seq(S)
         /\ \A k \in DOMAIN Kept(s, places) : \E i \in places : Kept(s, places)[k] = s[i]
<1> DEFINE order == {p \in places \X places : p[1] < p[2]}
           at == Ranked(places, order)
<1>1. Len(s) \in Nat /\ DOMAIN s = 1 .. Len(s) /\ \A i \in DOMAIN s : s[i] \in S
  OBVIOUS
<1>2. IsFiniteSet(places)
  <2>1. IsFiniteSet(1 .. Len(s))
    BY <1>1, FS_Interval
  <2> QED BY <1>1, <2>1, FS_Subset
<1>3. \A i, j \in places : <<i, j>> \in order <=> i < j
  OBVIOUS
<1>4. \A i \in places : i \in Int
  BY <1>1
<1>5. Orders(order, places)
  <2> HIDE DEF order
  <2> QED BY <1>3, <1>4 DEF Orders
<1> HIDE DEF order
<1>6. at \in Seq(places) /\ Len(at) \in Nat
  BY <1>2, <1>5, RankedIs
<1>7. Kept(s, places) = [k \in DOMAIN at |-> s[at[k]]]
  BY DEF Kept, Along, order
<1> HIDE DEF at
<1>8. DOMAIN at = 1 .. Len(at) /\ \A k \in DOMAIN at : at[k] \in places
  BY <1>6
<1>9. \A k \in DOMAIN at : s[at[k]] \in S
  BY <1>1, <1>8
<1>10. [k \in DOMAIN at |-> s[at[k]]] \in [1 .. Len(at) -> S]
  BY <1>8, <1>9
<1>11. Kept(s, places) \in Seq(S)
  BY <1>6, <1>7, <1>10
<1>12. \A k \in DOMAIN Kept(s, places) : k \in DOMAIN at /\ Kept(s, places)[k] = s[at[k]]
  BY <1>7
<1> QED BY <1>8, <1>11, <1>12

-----------------------------------------------------------------------------
(* Queries: what the indexes yield, and how it is sorted *)

\* The first elements of a list.
LEMMA LeadingIs ==
  ASSUME NEW S, NEW s \in Seq(S), NEW n \in Nat
  PROVE  /\ Leading(s, n) \in Seq(S) /\ Len(Leading(s, n)) = IF Len(s) < n THEN Len(s) ELSE n
         /\ \A i \in 1 .. Len(Leading(s, n)) : Leading(s, n)[i] = s[i]
<1> DEFINE m == IF Len(s) < n THEN Len(s) ELSE n
<1>1. m \in Nat /\ m <= Len(s) /\ Len(s) \in Nat
  OBVIOUS
<1>2. \A i \in 1 .. m : s[i] \in S
  BY <1>1
<1>3. Leading(s, n) = SubSeq(s, 1, m)
  BY DEF Leading
<1> HIDE DEF m
<1>4. /\ SubSeq(s, 1, m) \in Seq(S) /\ Len(SubSeq(s, 1, m)) = m
      /\ \A i \in 1 .. m : SubSeq(s, 1, m)[i] = s[i]
  BY <1>1, <1>2, SubSeqProperties
<1> QED BY <1>3, <1>4 DEF m

\* Rows in the order they came in.
LEMMA IngestedIs ==
  ASSUME NEW rows, NEW sortable, IsRows(rows, sortable), NEW S \in SUBSET rows
  PROVE  /\ Ingested(S) \in Seq(S) /\ Len(Ingested(S)) = Cardinality(S) /\ Cardinality(S) \in Nat
         /\ \A r \in S : \E k \in 1 .. Len(Ingested(S)) : Ingested(S)[k] = r
<1> DEFINE order == {p \in S \X S : p[1].id < p[2].id}
<1>1. IsFiniteSet(S)
  BY FS_Subset DEF IsRows
<1>2. \A r, s \in S : <<r, s>> \in order <=> r.id < s.id
  OBVIOUS
<1>3. /\ \A r \in S : r.id \in Int
      /\ \A r, s \in S : r.id = s.id => r = s
  BY DEF IsRows
<1> HIDE DEF order
<1>4. Orders(order, S)
  BY <1>2, <1>3 DEF Orders
<1>5. Ingested(S) = Ranked(S, order)
  BY DEF Ingested, order
<1> QED BY <1>1, <1>4, <1>5, RankedIs

\* A list turned round.
LEMMA ReversedIs ==
  ASSUME NEW S, NEW s \in Seq(S)
  PROVE  /\ Reverse(s) \in Seq(S) /\ Len(Reverse(s)) = Len(s)
         /\ \A i \in 1 .. Len(s) : Reverse(s)[i] = s[(Len(s) - i) + 1]
<1>1. Len(s) \in Nat
  OBVIOUS
<1>2. Reverse(s) = [i \in 1 .. Len(s) |-> s[(Len(s) - i) + 1]]
  BY DEF Reverse
<1>3. \A i \in 1 .. Len(s) : s[(Len(s) - i) + 1] \in S
  BY <1>1
<1>4. Reverse(s) \in [1 .. Len(s) -> S]
  BY <1>2, <1>3
<1> QED BY <1>1, <1>2, <1>4

\* The earliest first, or the latest.
TimesGo(listed, desc) ==
  \A j, k \in 1 .. Len(listed) : j < k => IF desc THEN listed[k].ts <= listed[j].ts ELSE listed[j].ts <= listed[k].ts

\* All rows with a time.
Timed(listed, S) == \A r \in S : r.ts # 0 => \E k \in 1 .. Len(listed) : listed[k] = r

\* The time index, up or down: the rows with a time, the earliest or the latest first.
LEMMA ByTimeIs ==
  ASSUME NEW rows, NEW sortable, IsRows(rows, sortable), NEW S \in SUBSET rows, NEW desc
  PROVE  /\ ByTime(S, desc) \in Seq({r \in S : r.ts # 0})
         /\ Timed(ByTime(S, desc), S)
         /\ TimesGo(ByTime(S, desc), desc)
<1> DEFINE D == {r \in S : r.ts # 0}
           order == {p \in S \X S : p[1].ts < p[2].ts \/ (p[1].ts = p[2].ts /\ p[1].id < p[2].id)}
           up == Ranked(D, order)
<1>1. D \in SUBSET S /\ IsFiniteSet(S)
  BY FS_Subset DEF IsRows
<1>2. \A r, s \in S : <<r, s>> \in order <=> r.ts < s.ts \/ (r.ts = s.ts /\ r.id < s.id)
  OBVIOUS
<1>3. /\ \A r \in S : r.id \in Int /\ r.ts \in Int
      /\ \A r, s \in S : r.id = s.id => r = s
  BY DEF IsRows
<1>4. ByTime(S, desc) = IF desc THEN Reverse(up) ELSE up
  BY DEF ByTime
<1>5. \A r \in S : r.ts # 0 => r \in D
  OBVIOUS
<1> HIDE DEF order, D
<1>6. IsFiniteSet(D)
  BY <1>1, FS_Subset
<1>7. Orders(order, D)
  BY <1>1, <1>2, <1>3 DEF Orders
<1>8. /\ up \in Seq(D) /\ Len(up) = Cardinality(D) /\ Len(up) \in Nat
      /\ \A r \in D : \E k \in 1 .. Len(up) : up[k] = r
      /\ \A j, k \in 1 .. Len(up) : j < k => <<up[j], up[k]>> \in order
  BY <1>6, <1>7, RankedIs
<1> HIDE DEF up
<1>9. \A j, k \in 1 .. Len(up) : j < k => up[j].ts <= up[k].ts
  <2> SUFFICES ASSUME NEW j \in 1 .. Len(up), NEW k \in 1 .. Len(up), j < k PROVE up[j].ts <= up[k].ts
    OBVIOUS
  <2> DEFINE x == up[j]
             y == up[k]
  <2>1. x \in S /\ y \in S
    BY <1>1, <1>8
  <2>2. <<x, y>> \in order
    BY <1>8
  <2> HIDE DEF x, y
  <2>3. x.ts <= y.ts
    BY <1>2, <1>3, <2>1, <2>2
  <2> QED BY <2>3 DEF x, y
<1>10. CASE ~desc
  <2>1. ByTime(S, desc) = up
    BY <1>4, <1>10
  <2> QED BY <1>5, <1>8, <1>9, <1>10, <2>1 DEF D, TimesGo, Timed
<1>11. CASE desc
  <2>1. ByTime(S, desc) = Reverse(up)
    BY <1>4, <1>11
  <2>2. /\ Reverse(up) \in Seq(D) /\ Len(Reverse(up)) = Len(up)
        /\ \A i \in 1 .. Len(up) : Reverse(up)[i] = up[(Len(up) - i) + 1]
    BY <1>8, ReversedIs
  <2> DEFINE down == Reverse(up)
  <2> HIDE DEF down
  <2>3. \A r \in D : \E k \in 1 .. Len(down) : down[k] = r
    <3> TAKE r \in D
    <3>1. PICK k \in 1 .. Len(up) : up[k] = r
      BY <1>8
    <3>2. (Len(up) - k) + 1 \in 1 .. Len(up) /\ (Len(up) - ((Len(up) - k) + 1)) + 1 = k
      BY <1>8
    <3> QED BY <2>2, <3>1, <3>2 DEF down
  <2>4. \A j, k \in 1 .. Len(down) : j < k => down[k].ts <= down[j].ts
    <3> SUFFICES ASSUME NEW j \in 1 .. Len(up), NEW k \in 1 .. Len(up), j < k PROVE down[k].ts <= down[j].ts
      BY <2>2 DEF down
    <3>1. /\ (Len(up) - j) + 1 \in 1 .. Len(up) /\ (Len(up) - k) + 1 \in 1 .. Len(up)
          /\ (Len(up) - k) + 1 < (Len(up) - j) + 1
      BY <1>8
    <3> QED BY <1>9, <2>2, <3>1 DEF down
  <2> QED BY <1>5, <1>11, <2>1, <2>2, <2>3, <2>4 DEF D, down, TimesGo, Timed
<1> QED BY <1>10, <1>11

\* The rows without a time, if there are any.
LEMMA UndatedIs ==
  ASSUME NEW rows, NEW sortable, IsRows(rows, sortable), NEW S \in SUBSET rows, NEW f
  PROVE  Undated(S, f) \in Seq({r \in S : r.ts = 0})
<1> DEFINE U == {r \in S : r.ts = 0}
<1>1. U \in SUBSET rows
  OBVIOUS
<1>2. Undated(S, f) = IF f.from # 0 \/ f.to # 0 THEN <<>> ELSE Ingested(U)
  BY DEF Undated
<1> HIDE DEF U
<1>3. Ingested(U) \in Seq(U)
  BY <1>1, IngestedIs
<1>4. <<>> \in Seq(U)
  OBVIOUS
<1> QED BY <1>2, <1>3, <1>4 DEF U

\* Places sorted by the values that stand there, which are numbers.
LEMMA PlacesSorted ==
  ASSUME NEW n \in Nat, NEW v \in [1 .. n -> Int], NEW desc
  PROVE  Orders(SortOrder(v, desc), 1 .. n)
<1> DEFINE order == SortOrder(v, desc)
           before(i, j) == Earlier(v[i], v[j], desc)
<1>1. \A i, j \in 1 .. n : <<i, j>> \in order <=> before(i, j) \/ (i < j /\ ~before(j, i))
  BY DEF SortOrder
<1>2. \A i \in 1 .. n : v[i] \in Int
  OBVIOUS
<1>3. /\ \A i \in 1 .. n : ~before(i, i)
      /\ \A i, j, k \in 1 .. n : before(i, j) => before(i, k) \/ before(k, j)
      /\ \A i, j \in 1 .. n : before(i, j) => ~before(j, i)
  BY <1>2 DEF Earlier
<1> HIDE DEF order, before
<1> QED BY <1>1, <1>3 DEF Orders, order

\* A sort has the rows it is given, and puts none before one that comes earlier.
LEMMA SortedIs ==
  ASSUME NEW rows, NEW sortable, IsRows(rows, sortable), NEW S \in SUBSET rows, NEW s \in Seq(S),
         NEW sort, sort.field \in {"ts"} \cup sortable
  PROVE  /\ Sorted(s, sort) \in Seq(S) /\ Len(Sorted(s, sort)) = Len(s)
         /\ \A i \in 1 .. Len(s) : \E k \in 1 .. Len(s) : Sorted(s, sort)[k] = s[i]
         /\ \A j, k \in 1 .. Len(s) : j < k =>
              ~Earlier(Value(Sorted(s, sort)[k], sort.field), Value(Sorted(s, sort)[j], sort.field), sort.desc)
<1> DEFINE n == Len(s)
           v == [i \in 1 .. n |-> Value(s[i], sort.field)]
           order == SortOrder(v, sort.desc)
           at == Ranked(1 .. n, order)
           t == Sorted(s, sort)
<1>1. n \in Nat /\ DOMAIN s = 1 .. n /\ \A i \in 1 .. n : s[i] \in S
  OBVIOUS
<1>2. \A r \in S : Value(r, sort.field) \in Int
  BY DEF IsRows, Value
<1>3. v \in [1 .. n -> Int]
  <2> HIDE DEF n
  <2> QED BY <1>1, <1>2
<1>4. t = [k \in DOMAIN at |-> s[at[k]]]
  BY <1>1 DEF Sorted, Along
<1>5. \A i, j \in 1 .. n : <<i, j>> \in order => ~Earlier(v[j], v[i], sort.desc)
  <2> HIDE DEF n, v
  <2>1. DOMAIN v = 1 .. n /\ \A i \in 1 .. n : v[i] \in Int
    BY <1>3
  <2>2. \A i, j \in 1 .. n : Earlier(v[i], v[j], sort.desc) => ~Earlier(v[j], v[i], sort.desc)
    BY <2>1 DEF Earlier
  <2> QED BY <2>1, <2>2 DEF SortOrder
<1>6. \A i \in 1 .. n : v[i] = Value(s[i], sort.field)
  OBVIOUS
<1> HIDE DEF n, v, t
<1>7. Orders(order, 1 .. n)
  BY <1>1, <1>3, PlacesSorted
<1>8. IsFiniteSet(1 .. n) /\ Cardinality(1 .. n) = n
  BY <1>1, FS_Interval
<1> HIDE DEF order
<1>9. /\ at \in Seq(1 .. n) /\ Len(at) = n
      /\ \A i \in 1 .. n : \E k \in 1 .. n : at[k] = i
      /\ \A j, k \in 1 .. n : j < k => <<at[j], at[k]>> \in order
  <2> DEFINE P == 1 .. n
             r == Ranked(P, order)
  <2>1. IsFiniteSet(P) /\ Cardinality(P) = n /\ Orders(order, P) /\ r = at
    BY <1>7, <1>8
  <2> HIDE DEF P, at
  <2>2. /\ r \in Seq(P) /\ Len(r) = Cardinality(P)
        /\ \A x \in P : \E k \in 1 .. Cardinality(P) : r[k] = x
        /\ \A j, k \in 1 .. Cardinality(P) : j < k => <<r[j], r[k]>> \in order
    BY <2>1, RankedIs
  <2> HIDE DEF r
  <2> QED BY <2>1, <2>2 DEF P
<1> HIDE DEF at
<1>10. DOMAIN at = 1 .. n /\ \A k \in 1 .. n : at[k] \in 1 .. n
  <2>1. DOMAIN at = 1 .. Len(at) /\ \A k \in 1 .. Len(at) : at[k] \in 1 .. n
    <3> DEFINE P == 1 .. n
    <3>1. at \in Seq(P)
      BY <1>9
    <3> HIDE DEF P
    <3>2. DOMAIN at = 1 .. Len(at) /\ \A k \in 1 .. Len(at) : at[k] \in P
      BY <3>1, LenProperties, ElementOfSeq
    <3> QED BY <3>2 DEF P
  <2> QED BY <1>9, <2>1
<1>11. t \in [1 .. n -> S] /\ \A k \in 1 .. n : t[k] = s[at[k]]
  BY <1>1, <1>4, <1>10
<1>12. t \in Seq(S) /\ Len(t) = n
  BY <1>1, <1>11
<1>13. \A i \in 1 .. n : \E k \in 1 .. n : t[k] = s[i]
  <2> TAKE i \in 1 .. n
  <2>1. PICK k \in 1 .. n : at[k] = i
    BY <1>9
  <2>2. t[k] = s[at[k]]
    BY <1>11
  <2> QED BY <2>1, <2>2
<1>14. \A j, k \in 1 .. n : j < k => ~Earlier(Value(t[k], sort.field), Value(t[j], sort.field), sort.desc)
  <2> SUFFICES ASSUME NEW j \in 1 .. n, NEW k \in 1 .. n, j < k
               PROVE ~Earlier(Value(t[k], sort.field), Value(t[j], sort.field), sort.desc)
    OBVIOUS
  <2> DEFINE x == at[j]
             y == at[k]
  <2>1. <<x, y>> \in order /\ x \in 1 .. n /\ y \in 1 .. n
    BY <1>9, <1>10
  <2>2. t[j] = s[x] /\ t[k] = s[y]
    BY <1>11
  <2> HIDE DEF x, y
  <2>3. ~Earlier(v[y], v[x], sort.desc)
    BY <1>5, <2>1
  <2>4. v[y] = Value(s[y], sort.field) /\ v[x] = Value(s[x], sort.field)
    BY <1>6, <2>1
  <2> QED BY <2>2, <2>3, <2>4
<1> QED BY <1>12, <1>13, <1>14 DEF n, t

-----------------------------------------------------------------------------
(* Filters: what the indexes are asked for *)

\* A value that an equality, or a membership, lets through is one of those it wants.
LEMMA EqualMeans ==
  ASSUME NEW has, NEW c \in Cond, matchCondition(has, c), Equal(c.op), c.want # {}
  PROVE  \E w \in c.want : w \in has
<1>1. c.op \notin DOMAIN Opposite
  BY DEF Opposite, Equal
<1>2. Holding(has, c)
  BY <1>1 DEF matchCondition
<1>3. PICK a \in has, w \in c.want : Fits(c, a, w)
  BY <1>2 DEF Holding, Equal
<1>4. a = w
  BY <1>3 DEF Fits
<1> QED BY <1>3, <1>4

\* A filter that pins rows by their keys lets those through alone.
LEMMA PinnedAlone ==
  ASSUME NEW f \in Filter, pinnedIds(f) # {}, NEW val, NEW id, val["id"] = {id},
         f.or \/ \A i \in DOMAIN f.conds : matchCondition(val[f.conds[i].field], f.conds[i])
  PROVE  id \in pinnedIds(f)
<1> DEFINE at == {i \in DOMAIN f.conds : f.conds[i].field = "id" /\ Equal(f.conds[i].op)}
           first == CHOOSE i \in at : \A j \in at : i <= j
<1>1. ~f.or /\ at # {} /\ pinnedIds(f) = f.conds[first].want
  BY DEF pinnedIds
<1>2. f.conds \in Seq(Cond)
  BY DEF Filter
<1>3. DOMAIN f.conds = 1 .. Len(f.conds) /\ Len(f.conds) \in Nat /\ \A i \in DOMAIN f.conds : f.conds[i] \in Cond
  BY <1>2
<1>4. at \in SUBSET Nat
  BY <1>3
<1> HIDE DEF at
<1>5. \E i \in at : \A j \in at : i <= j
  BY <1>1, <1>4, LeastNumber
<1>6. first \in at
  BY <1>5
<1> HIDE DEF first
<1>7. first \in DOMAIN f.conds /\ f.conds[first].field = "id" /\ Equal(f.conds[first].op)
  BY <1>6 DEF at
<1> DEFINE c == f.conds[first]
<1>8. c \in Cond /\ c.field = "id" /\ Equal(c.op) /\ c.want # {} /\ matchCondition({id}, c)
  BY <1>1, <1>3, <1>7
<1> HIDE DEF c
<1>9. \E w \in c.want : w \in {id}
  BY <1>8, EqualMeans
<1> QED BY <1>1, <1>9 DEF c

\* The event IDs the index is asked for are those of every row the filter lets through.
LEMMA EventIdsAlone ==
  ASSUME NEW f \in Filter, extractEventIds(f) # {}, NEW r, Passes(f, r),
         \A a, b \in r.val["eventId"] : a = b
  PROVE  r.val["eventId"] \cap extractEventIds(f) # {}
<1> DEFINE all == ToSet(f.conds)
           pinning == {c \in all : Pins(c, "eventId")}
           wanted == UNION {c.want : c \in pinning}
           has == r.val["eventId"]
<1>1. f.conds \in Seq(Cond)
  BY DEF Filter
<1>2. DOMAIN f.conds = 1 .. Len(f.conds) /\ Len(f.conds) \in Nat /\ \A i \in DOMAIN f.conds : f.conds[i] \in Cond
  BY <1>1
<1>3. all = {f.conds[i] : i \in DOMAIN f.conds}
  BY DEF ToSet
<1>4. /\ ~(pinning = {} \/ (f.or /\ pinning # all))
      /\ extractEventIds(f) = IF f.or THEN wanted ELSE {w \in wanted : \A c \in pinning : w \in c.want}
  BY DEF extractEventIds
<1>5. f.conds # <<>>
  BY <1>3, <1>4
<1>6. ASSUME NEW c \in pinning, matchCondition(r.val[c.field], c) PROVE \E w \in c.want : w \in has
  <2>1. c \in Cond /\ Equal(c.op) /\ c.want # {} /\ c.field = "eventId"
    BY <1>2, <1>3 DEF Pins
  <2> HIDE DEF pinning
  <2>2. matchCondition(has, c)
    BY <1>6, <2>1
  <2> HIDE DEF has
  <2> QED BY <2>1, <2>2, EqualMeans
<1>7. \/ f.or /\ \E i \in DOMAIN f.conds : matchCondition(r.val[f.conds[i].field], f.conds[i])
      \/ ~f.or /\ \A i \in DOMAIN f.conds : matchCondition(r.val[f.conds[i].field], f.conds[i])
  BY <1>5 DEF Passes
<1>8. pinning \in SUBSET all
  OBVIOUS
<1> HIDE DEF all, pinning, has
<1>9. CASE f.or
  <2>1. PICK i \in DOMAIN f.conds : matchCondition(r.val[f.conds[i].field], f.conds[i])
    BY <1>7, <1>9
  <2>2. f.conds[i] \in pinning
    BY <1>3, <1>4, <1>9
  <2>3. PICK w \in f.conds[i].want : w \in has
    BY <1>6, <2>1, <2>2
  <2>4. w \in wanted
    BY <2>2, <2>3
  <2> QED BY <1>4, <1>9, <2>3, <2>4 DEF has
<1>10. CASE ~f.or
  <2>1. \A c \in pinning : \E w \in c.want : w \in has
    <3> TAKE c \in pinning
    <3>1. matchCondition(r.val[c.field], c)
      BY <1>3, <1>7, <1>8, <1>10
    <3> QED BY <1>6, <3>1
  <2>2. PICK c \in pinning : TRUE
    BY <1>4
  <2>3. PICK w \in c.want : w \in has
    BY <2>1
  <2>4. \A d \in pinning : w \in d.want
    <3> TAKE d \in pinning
    <3>1. PICK x \in d.want : x \in has
      BY <2>1
    <3>2. x = w
      BY <2>3, <3>1 DEF has
    <3> QED BY <3>1, <3>2
  <2>5. w \in wanted
    BY <2>2, <2>3
  <2> QED BY <1>4, <1>10, <2>3, <2>4, <2>5 DEF has
<1> QED BY <1>9, <1>10

-----------------------------------------------------------------------------
(* Searches: the newest first, or the oldest *)

\* Rows listed of some matches: no match left out comes before one that is listed.
Best(listed, matches, sort) ==
  /\ \A k \in DOMAIN listed : listed[k] \in matches
  /\ sort.field = "ts" =>
       \A r \in matches \ ToSet(listed) : \A k \in DOMAIN listed : r.ts # 0 /\ listed[k].ts # 0 =>
         IF sort.desc THEN r.ts <= listed[k].ts ELSE listed[k].ts <= r.ts

\* What was read, sorted and cut: the best of the matches, when they were all read or the sort is no sort by time.
LEMMA SortedBest ==
  ASSUME NEW rows, NEW sortable, IsRows(rows, sortable), NEW matches \in SUBSET rows, NEW s \in Seq(matches),
         NEW sort, sort.field \in {"ts"} \cup sortable, NEW limit \in Nat,
         sort.field = "ts" => \A r \in matches : \E i \in 1 .. Len(s) : s[i] = r
  PROVE  Best(Leading(Sorted(s, sort), limit), matches, sort)
<1> DEFINE t == Sorted(s, sort)
           listed == Leading(t, limit)
<1>1. /\ t \in Seq(matches) /\ Len(t) = Len(s)
      /\ \A i \in 1 .. Len(s) : \E k \in 1 .. Len(s) : t[k] = s[i]
      /\ \A j, k \in 1 .. Len(s) : j < k => ~Earlier(Value(t[k], sort.field), Value(t[j], sort.field), sort.desc)
  BY SortedIs
<1> HIDE DEF t
<1>2. /\ listed \in Seq(matches) /\ Len(listed) = IF Len(t) < limit THEN Len(t) ELSE limit
      /\ \A i \in 1 .. Len(listed) : listed[i] = t[i]
  BY <1>1, LeadingIs
<1> HIDE DEF listed
<1>3. /\ Len(s) \in Nat /\ Len(listed) \in Nat
      /\ DOMAIN listed = 1 .. Len(listed) /\ \A k \in DOMAIN listed : listed[k] \in matches
  BY <1>2
<1>4. ASSUME sort.field = "ts", NEW r \in matches \ ToSet(listed), NEW k \in DOMAIN listed, r.ts # 0, listed[k].ts # 0
      PROVE  IF sort.desc THEN r.ts <= listed[k].ts ELSE listed[k].ts <= r.ts
  <2>1. PICK i \in 1 .. Len(s) : s[i] = r
    BY <1>4
  <2>2. PICK j \in 1 .. Len(s) : t[j] = r
    BY <1>1, <2>1
  <2>3. j > Len(listed)
    <3>1. SUFFICES ASSUME j <= Len(listed) PROVE FALSE
      BY <1>3
    <3>2. j \in DOMAIN listed /\ listed[j] = r
      BY <1>2, <1>3, <2>2, <3>1
    <3> QED BY <1>4, <3>2 DEF ToSet
  <2>4. k \in 1 .. Len(s) /\ k < j /\ t[k] = listed[k]
    <3>1. k \in 1 .. Len(listed) /\ listed[k] = t[k]
      BY <1>2, <1>3
    <3>2. k \in Nat /\ k >= 1 /\ k <= Len(listed) /\ j \in Nat /\ j <= Len(s)
      BY <1>3, <3>1
    <3>3. k \in 1 .. Len(s) /\ k < j
      BY <1>3, <2>3, <3>2
    <3> QED BY <3>1, <3>3
  <2>5. ~Earlier(Value(r, "ts"), Value(listed[k], "ts"), sort.desc)
    BY <1>1, <1>4, <2>2, <2>4
  <2>6. r.ts \in Int /\ listed[k].ts \in Int
    <3>1. r \in rows /\ listed[k] \in rows
      BY <1>3
    <3> QED BY <3>1 DEF IsRows
  <2>7. Value(r, "ts") = r.ts /\ Value(listed[k], "ts") = listed[k].ts
    BY DEF Value
  <2> DEFINE x == r.ts
             y == listed[k].ts
  <2>8. x \in Int /\ y \in Int /\ x # 0 /\ y # 0 /\ ~Earlier(x, y, sort.desc)
    BY <1>4, <2>5, <2>6, <2>7
  <2> HIDE DEF x, y
  <2>9. CASE sort.desc
    <3>1. ~(x > y)
      BY <2>8, <2>9 DEF Earlier
    <3>2. x <= y
      BY <2>8, <3>1
    <3> QED BY <2>9, <3>2 DEF x, y
  <2>10. CASE ~sort.desc
    <3>1. ~(x < y)
      BY <2>8, <2>10 DEF Earlier
    <3>2. y <= x
      BY <2>8, <3>1
    <3> QED BY <2>10, <3>2 DEF x, y
  <2> QED BY <2>9, <2>10
<1>5. Best(listed, matches, sort)
  BY <1>3, <1>4 DEF Best
<1> QED BY <1>5 DEF listed, t

\* Rows pinned by their keys are read through the keys.
LEMMA PinnedBest ==
  ASSUME NEW rows, NEW sortable, IsRows(rows, sortable), NEW matches \in SUBSET rows, NEW f \in Filter,
         f.sort.field \in {"ts"} \cup sortable, NEW limit \in Nat, \A r \in matches : r.id \in pinnedIds(f)
  PROVE  Best(Pinned(matches, f, limit).rows, matches, f.sort)
<1> DEFINE S == {r \in matches : r.id \in pinnedIds(f)}
           s == Ingested(S)
<1>1. S = matches
  OBVIOUS
<1>2. s \in Seq(matches) /\ \A r \in matches : \E i \in 1 .. Len(s) : s[i] = r
  BY <1>1, IngestedIs
<1>3. Pinned(matches, f, limit).rows = Leading(Sorted(s, f.sort), limit)
  BY DEF Pinned, Answer
<1> HIDE DEF s
<1>4. Best(Leading(Sorted(s, f.sort), limit), matches, f.sort)
  BY <1>2, SortedBest
<1> QED BY <1>3, <1>4

\* The event-ID index yields rows in the order they came in, and is cut before the sort: for a sort by
\* time it is used when it is not cut.
LEMMA ByEventIdBest ==
  ASSUME NEW rows, NEW sortable, IsRows(rows, sortable), NEW f \in Filter,
         f.sort.field \in {"ts"} \cup sortable, NEW limit \in Nat, NEW cap \in Nat, ByIndex(rows, f, cap)
  PROVE  Best(ByEventId(rows, {r \in rows : Passes(f, r)}, f, limit, cap).rows, {r \in rows : Passes(f, r)}, f.sort)
<1> DEFINE matches == {r \in rows : Passes(f, r)}
           found == {r \in rows : r.val["eventId"] \cap extractEventIds(f) # {}}
           all == Ingested(matches)
           s == Leading(all, cap)
<1>1. matches \in SUBSET rows /\ matches \in SUBSET found /\ found \in SUBSET rows
  <2>1. extractEventIds(f) # {}
    BY DEF ByIndex, Indexed
  <2>2. \A r \in matches : r.val["eventId"] \cap extractEventIds(f) # {}
    BY <2>1, EventIdsAlone DEF IsRows
  <2> QED BY <2>2
<1>2. f.sort.field = "ts" => Cardinality(found) <= cap
  BY DEF ByIndex
<1>3. ByEventId(rows, matches, f, limit, cap).rows = Leading(Sorted(s, f.sort), limit)
  BY DEF ByEventId, Answer
<1> HIDE DEF matches, found
<1>4. /\ all \in Seq(matches) /\ Len(all) = Cardinality(matches) /\ Cardinality(matches) \in Nat
      /\ \A r \in matches : \E i \in 1 .. Len(all) : all[i] = r
  BY <1>1, IngestedIs
<1> HIDE DEF all
<1>5. /\ s \in Seq(matches) /\ Len(s) = IF Len(all) < cap THEN Len(all) ELSE cap
      /\ \A i \in 1 .. Len(s) : s[i] = all[i]
  BY <1>4, LeadingIs
<1> HIDE DEF s
<1>6. IsFiniteSet(found)
  BY <1>1, FS_Subset DEF IsRows
<1>7. Cardinality(matches) <= Cardinality(found) /\ Cardinality(found) \in Nat
  BY <1>1, <1>6, FS_Subset, FS_CardinalityType
<1>8. f.sort.field = "ts" => \A r \in matches : \E i \in 1 .. Len(s) : s[i] = r
  <2> SUFFICES ASSUME f.sort.field = "ts" PROVE \A r \in matches : \E i \in 1 .. Len(s) : s[i] = r
    OBVIOUS
  <2>1. Len(s) = Len(all)
    BY <1>2, <1>4, <1>5, <1>7
  <2> QED BY <1>4, <1>5, <2>1
<1>9. Best(Leading(Sorted(s, f.sort), limit), matches, f.sort)
  BY <1>1, <1>5, <1>8, SortedBest
<1> QED BY <1>3, <1>9 DEF matches

\* A sort by time: the time index, then the rows without a time.
LEMMA TimesBest ==
  ASSUME NEW rows, NEW sortable, IsRows(rows, sortable), NEW matches \in SUBSET rows, NEW desc,
         NEW sort, sort.desc = desc, NEW listed, NEW n \in Nat, DOMAIN listed = 1 .. n,
         NEW m \in Nat, m <= n, m <= Len(ByTime(matches, desc)),
         \A k \in 1 .. m : listed[k] = ByTime(matches, desc)[k],
         \A k \in m + 1 .. n : listed[k] \in matches /\ listed[k].ts = 0
  PROVE  Best(listed, matches, sort)
<1> DEFINE dated == ByTime(matches, desc)
           D == {r \in matches : r.ts # 0}
<1>a. dated \in Seq(D)
  BY ByTimeIs
<1>b. Timed(dated, matches)
  BY ByTimeIs
<1>c. TimesGo(dated, desc)
  BY ByTimeIs
<1>1. dated \in Seq(D) /\ Timed(dated, matches) /\ TimesGo(dated, desc)
  BY <1>a, <1>b, <1>c
<1>2. D \in SUBSET matches
  OBVIOUS
<1> HIDE DEF dated, D
<1>3. Len(dated) \in Nat /\ \A k \in 1 .. Len(dated) : dated[k] \in D
  BY <1>1
<1>4. \A k \in 1 .. m : listed[k] = dated[k] /\ k \in 1 .. Len(dated)
  BY <1>3 DEF dated
<1>5. \A k \in 1 .. n : k \in 1 .. m \/ k \in m + 1 .. n
  OBVIOUS
<1>6. \A k \in DOMAIN listed : listed[k] \in matches
  BY <1>2, <1>3, <1>4, <1>5
<1>7. ASSUME NEW r \in matches \ ToSet(listed), NEW k \in DOMAIN listed, r.ts # 0, listed[k].ts # 0
      PROVE  IF sort.desc THEN r.ts <= listed[k].ts ELSE listed[k].ts <= r.ts
  <2>1. k \in 1 .. m
    BY <1>5, <1>7
  <2>2. PICK i \in 1 .. Len(dated) : dated[i] = r
    BY <1>1, <1>7 DEF Timed
  <2>3. i > m
    <3>1. SUFFICES ASSUME i <= m PROVE FALSE
      BY <1>3
    <3>2. i \in DOMAIN listed /\ listed[i] = r
      BY <1>4, <2>2, <3>1
    <3> QED BY <1>7, <3>2 DEF ToSet
  <2>4. k \in 1 .. Len(dated) /\ listed[k] = dated[k] /\ k < i
    BY <1>4, <2>1, <2>3
  <2> QED BY <1>1, <2>2, <2>4 DEF TimesGo
<1> QED BY <1>6, <1>7 DEF Best

\* What a time index yields and the rows without a time are rows of the matches.
LEMMA IndexesYield ==
  ASSUME NEW rows, NEW sortable, IsRows(rows, sortable), NEW matches \in SUBSET rows, NEW desc, NEW f
  PROVE  ByTime(matches, desc) \in Seq(matches) /\ Undated(matches, f) \in Seq(matches)
<1> DEFINE D == {r \in matches : r.ts # 0}
           U == {r \in matches : r.ts = 0}
<1>1. ByTime(matches, desc) \in Seq(D) /\ Undated(matches, f) \in Seq(U)
  BY ByTimeIs, UndatedIs
<1>2. D \subseteq matches /\ U \subseteq matches
  OBVIOUS
<1> HIDE DEF D, U
<1> QED BY <1>1, <1>2, SeqMonotonic

\* Some of the time index, then rows without a time.
LEMMA TimesThenUndated ==
  ASSUME NEW rows, NEW sortable, IsRows(rows, sortable), NEW matches \in SUBSET rows, NEW f, NEW n \in Nat, NEW more,
         more = Undated(matches, f) \/ \E limit \in Nat : more = Leading(Undated(matches, f), limit)
  PROVE  LET listed == Leading(ByTime(matches, f.sort.desc), n) \o more
         IN  Best(listed, matches, f.sort) /\ listed \in Seq(matches)
<1> DEFINE dated == ByTime(matches, f.sort.desc)
           head == Leading(dated, n)
           U == {r \in matches : r.ts = 0}
           listed == head \o more
           m == Len(head)
<1>1. dated \in Seq(matches) /\ Undated(matches, f) \in Seq(U)
  BY IndexesYield, UndatedIs
<1>2. U \subseteq matches /\ \A r \in U : r.ts = 0
  OBVIOUS
<1> HIDE DEF dated, U
<1>3. head \in Seq(matches) /\ Len(head) <= Len(dated) /\ Len(dated) \in Nat /\ \A i \in 1 .. Len(head) : head[i] = dated[i]
  BY <1>1, LeadingIs
<1>4. more \in Seq(U)
  BY <1>1, LeadingIs
<1>5. more \in Seq(matches)
  BY <1>2, <1>4, SeqMonotonic
<1> HIDE DEF head
<1>6. /\ listed \in Seq(matches) /\ Len(listed) = Len(head) + Len(more)
      /\ \A i \in 1 .. Len(head) + Len(more) : listed[i] = IF i <= Len(head) THEN head[i] ELSE more[i - Len(head)]
  BY <1>3, <1>5, ConcatProperties
<1> HIDE DEF listed
<1>7. Len(head) \in Nat /\ Len(more) \in Nat
  BY <1>3, <1>4
<1>8. DOMAIN listed = 1 .. Len(head) + Len(more)
  BY <1>6
<1>9. \A k \in 1 .. m : listed[k] = dated[k]
  BY <1>3, <1>6, <1>7
<1>10. \A k \in m + 1 .. Len(head) + Len(more) : listed[k] \in matches /\ listed[k].ts = 0
  <2> TAKE k \in m + 1 .. Len(head) + Len(more)
  <2> DEFINE i == k - Len(head)
  <2>1. i \in 1 .. Len(more) /\ ~(k <= Len(head)) /\ k \in 1 .. Len(head) + Len(more)
    BY <1>7
  <2>2. listed[k] = more[i]
    BY <1>6, <2>1
  <2>3. more[i] \in U
    BY <1>4, <2>1
  <2> QED BY <1>2, <2>2, <2>3
<1>11. Best(listed, matches, f.sort)
  <2> DEFINE all == Len(head) + Len(more)
             size == Len(head)
  <2>1. all \in Nat /\ size \in Nat /\ size <= all /\ size <= Len(ByTime(matches, f.sort.desc)) /\ DOMAIN listed = 1 .. all
    BY <1>3, <1>7, <1>8 DEF dated
  <2>2. /\ \A k \in 1 .. size : listed[k] = ByTime(matches, f.sort.desc)[k]
        /\ \A k \in size + 1 .. all : listed[k] \in matches /\ listed[k].ts = 0
    BY <1>9, <1>10 DEF dated
  <2> HIDE DEF all, size
  <2> QED BY <2>1, <2>2, TimesBest
<1> QED BY <1>6, <1>11 DEF listed, head, dated

\* A filter that pins rows by their keys lets those through alone.
LEMMA PinnedPass ==
  ASSUME NEW rows, NEW sortable, IsRows(rows, sortable), NEW f \in Filter, pinnedIds(f) # {}, NEW r \in rows, Passes(f, r)
  PROVE  r.id \in pinnedIds(f)
<1>1. f.or \/ \A i \in DOMAIN f.conds : matchCondition(r.val[f.conds[i].field], f.conds[i])
  BY DEF Passes
<1> DEFINE val == r.val
           id == r.id
<1>2. val["id"] = {id}
  BY DEF IsRows
<1>3. f.or \/ \A i \in DOMAIN f.conds : matchCondition(val[f.conds[i].field], f.conds[i])
  BY <1>1
<1> HIDE DEF val, id
<1>4. id \in pinnedIds(f)
  BY <1>2, <1>3, PinnedAlone
<1> QED BY <1>4 DEF id

\* searchEvents: the best of the events that pass.
THEOREM EventsBest ==
  ASSUME NEW rows, NEW sortable, IsRows(rows, sortable), NEW f \in Filter, f.sort.field \in {"ts"} \cup sortable,
         NEW wanted \in Nat, NEW cap \in Nat
  PROVE  Best(searchEvents(rows, f, wanted, cap).rows, {r \in rows : Passes(f, r)}, f.sort)
<1> DEFINE limit == IF wanted < cap THEN wanted ELSE cap
           matches == {r \in rows : Passes(f, r)}
           found == searchEvents(rows, f, wanted, cap)
<1>1. limit \in Nat /\ matches \in SUBSET rows /\ \A r \in matches : Passes(f, r)
  OBVIOUS
<1>2. found = IF pinnedIds(f) # {} THEN Pinned(matches, f, limit)
              ELSE IF ByIndex(rows, f, cap) THEN ByEventId(rows, matches, f, limit, cap)
              ELSE IF f.sort.field = "ts" THEN ByTimeIndex(matches, f, limit) ELSE ByOther(matches, f, limit, cap)
  BY DEF searchEvents
<1> HIDE DEF limit, found
<1>3. CASE pinnedIds(f) # {}
  <2> HIDE DEF matches
  <2>1. \A r \in matches : r.id \in pinnedIds(f)
    BY <1>1, <1>3, PinnedPass
  <2>2. Best(Pinned(matches, f, limit).rows, matches, f.sort)
    BY <1>1, <2>1, PinnedBest
  <2> QED BY <1>2, <1>3, <2>2 DEF matches, found
<1>4. CASE pinnedIds(f) = {} /\ ByIndex(rows, f, cap)
  <2>1. Best(ByEventId(rows, matches, f, limit, cap).rows, matches, f.sort)
    BY <1>1, <1>4, ByEventIdBest
  <2> QED BY <1>2, <1>4, <2>1 DEF found
<1>5. CASE pinnedIds(f) = {} /\ ~ByIndex(rows, f, cap) /\ f.sort.field = "ts"
  <2> HIDE DEF matches
  <2> DEFINE more == Leading(Undated(matches, f), limit)
             listed == Leading(ByTime(matches, f.sort.desc), limit) \o more
  <2>1. found.rows = listed
    BY <1>2, <1>5 DEF ByTimeIndex
  <2>2. \E n \in Nat : more = Leading(Undated(matches, f), n)
    BY <1>1
  <2> HIDE DEF more
  <2>3. Best(listed, matches, f.sort)
    BY <1>1, <2>2, TimesThenUndated
  <2> QED BY <2>1, <2>3 DEF found, matches
<1>6. CASE pinnedIds(f) = {} /\ ~ByIndex(rows, f, cap) /\ f.sort.field # "ts"
  <2> HIDE DEF matches
  <2> DEFINE first == Leading(ByTime(matches, FALSE), cap)
             both == first \o Undated(matches, f)
             read == Leading(both, cap)
  <2>1. found.rows = Leading(Sorted(read, f.sort), limit)
    BY <1>2, <1>6 DEF ByOther, Answer
  <2>2. ByTime(matches, FALSE) \in Seq(matches) /\ Undated(matches, f) \in Seq(matches)
    BY <1>1, IndexesYield
  <2>3. first \in Seq(matches)
    BY <2>2, LeadingIs
  <2>4. both \in Seq(matches)
    <3> HIDE DEF first
    <3> QED BY <2>2, <2>3, ConcatProperties
  <2>5. read \in Seq(matches)
    <3> HIDE DEF both
    <3> QED BY <2>4, LeadingIs
  <2> HIDE DEF read
  <2>6. Best(Leading(Sorted(read, f.sort), limit), matches, f.sort)
    BY <1>1, <1>6, <2>5, SortedBest
  <2> QED BY <2>1, <2>6 DEF found, matches
<1> QED BY <1>3, <1>4, <1>5, <1>6

\* The same of a mail: the bodies change nothing of its key.
LEMMA MailPinned ==
  ASSUME NEW rows, NEW sortable, IsRows(rows, sortable), NEW f \in Filter, pinnedIds(f) # {}, NEW r \in rows,
         mailPredicate(f, r)
  PROVE  r.id \in pinnedIds(f)
<1> DEFINE body == [r EXCEPT !.val["bodyText"] = r.body]
           plain == [f EXCEPT !.text = No]
           val == body.val
           id == r.id
<1>1. f.conds = plain.conds /\ f.or = plain.or
  BY DEF Filter
<1>2. Passes(f, body) \/ Passes(plain, body)
  BY DEF mailPredicate
<1> HIDE DEF plain
<1>3. f.or \/ \A i \in DOMAIN f.conds : matchCondition(val[f.conds[i].field], f.conds[i])
  <2> HIDE DEF body
  <2> QED BY <1>1, <1>2 DEF Passes
<1>4. val["id"] = {id}
  <2>1. "val" \in DOMAIN r /\ "id" \in DOMAIN r.val /\ r.val["id"] = {r.id}
    BY DEF IsRows
  <2> QED BY <2>1
<1> HIDE DEF val, id
<1>5. id \in pinnedIds(f)
  BY <1>3, <1>4, PinnedAlone
<1> QED BY <1>5 DEF id

\* searchMails: the best of the mails that pass.
THEOREM MailsBest ==
  ASSUME NEW rows, NEW sortable, IsRows(rows, sortable), NEW f \in Filter, f.sort.field \in {"ts"} \cup sortable,
         NEW wanted \in Nat, HARD_CAP \in Nat
  PROVE  Best(searchMails(rows, f, wanted).rows, {r \in rows : mailPredicate(f, r)}, f.sort)
<1> DEFINE limit == IF wanted < HARD_CAP THEN wanted ELSE HARD_CAP
           matches == {r \in rows : mailPredicate(f, r)}
           found == searchMails(rows, f, wanted)
           dated == Leading(ByTime(matches, f.sort.field = "ts" /\ f.sort.desc), IF f.sort.field = "ts" THEN limit + 1 ELSE HARD_CAP)
           all == dated \o Undated(matches, f)
<1>1. limit \in Nat /\ matches \in SUBSET rows /\ \A r \in matches : mailPredicate(f, r)
  OBVIOUS
<1>2. found = IF pinnedIds(f) # {} THEN Pinned(matches, f, limit)
              ELSE Answer(IF f.sort.field = "ts" THEN all ELSE Sorted(all, f.sort), limit, FALSE, 0)
  BY DEF searchMails
<1> HIDE DEF limit, found, matches
<1>3. CASE pinnedIds(f) # {}
  <2>1. \A r \in matches : r.id \in pinnedIds(f)
    BY <1>1, <1>3, MailPinned
  <2>2. Best(Pinned(matches, f, limit).rows, matches, f.sort)
    BY <1>1, <2>1, PinnedBest
  <2> QED BY <1>2, <1>3, <2>2 DEF matches, found
<1>4. CASE pinnedIds(f) = {} /\ f.sort.field # "ts"
  <2>1. found.rows = Leading(Sorted(all, f.sort), limit)
    BY <1>2, <1>4 DEF Answer
  <2> DEFINE up == ByTime(matches, f.sort.field = "ts" /\ f.sort.desc)
             first == Leading(up, HARD_CAP)
  <2>2. up \in Seq(matches) /\ Undated(matches, f) \in Seq(matches)
    BY <1>1, IndexesYield
  <2>3. dated = first
    BY <1>4
  <2> HIDE DEF up, dated
  <2>4. first \in Seq(matches)
    BY <2>2, LeadingIs
  <2> HIDE DEF first
  <2>5. all \in Seq(matches)
    BY <2>2, <2>3, <2>4, ConcatProperties
  <2> HIDE DEF all
  <2>6. Best(Leading(Sorted(all, f.sort), limit), matches, f.sort)
    BY <1>1, <1>4, <2>5, SortedBest
  <2> QED BY <2>1, <2>6 DEF found, matches
<1>5. CASE pinnedIds(f) = {} /\ f.sort.field = "ts"
  <2>1. found.rows = Leading(all, limit)
    BY <1>2, <1>5 DEF Answer
  <2> DEFINE down == ByTime(matches, f.sort.desc)
             U == {r \in matches : r.ts = 0}
             first == Leading(down, limit + 1)
             listed == Leading(all, limit)
             m == IF Len(first) < limit THEN Len(first) ELSE limit
             n == Len(listed)
  <2>2. (f.sort.field = "ts" /\ f.sort.desc) = f.sort.desc
    BY <1>5 DEF Filter
  <2>3. dated = first
    BY <1>5, <2>2
  <2>4. down \in Seq(matches) /\ Undated(matches, f) \in Seq(matches) /\ Undated(matches, f) \in Seq(U)
    BY <1>1, IndexesYield, UndatedIs
  <2>5. (\A r \in U : r.ts = 0) /\ limit + 1 \in Nat
    BY <1>1
  <2> HIDE DEF down, dated, U
  <2>6. /\ first \in Seq(matches) /\ Len(first) = IF Len(down) < limit + 1 THEN Len(down) ELSE limit + 1
        /\ \A i \in 1 .. Len(first) : first[i] = down[i]
    BY <2>4, <2>5, LeadingIs
  <2> DEFINE more == Undated(matches, f)
  <2>7. more \in Seq(matches) /\ more \in Seq(U) /\ all = first \o more
    BY <2>3, <2>4
  <2> HIDE DEF first, more, all
  <2>8. /\ all \in Seq(matches) /\ Len(all) = Len(first) + Len(more)
        /\ \A i \in 1 .. Len(first) + Len(more) : all[i] = IF i <= Len(first) THEN first[i] ELSE more[i - Len(first)]
    <3>1. first \in Seq(matches) /\ more \in Seq(matches) /\ all = first \o more
      BY <2>6, <2>7
    <3>2. /\ first \o more \in Seq(matches) /\ Len(first \o more) = Len(first) + Len(more)
          /\ \A i \in 1 .. Len(first) + Len(more) : (first \o more)[i] = IF i <= Len(first) THEN first[i] ELSE more[i - Len(first)]
      BY <3>1, ConcatProperties
    <3> QED BY <3>1, <3>2
  <2>9. /\ listed \in Seq(matches) /\ Len(listed) = IF Len(all) < limit THEN Len(all) ELSE limit
        /\ \A i \in 1 .. Len(listed) : listed[i] = all[i]
    BY <1>1, <2>8, LeadingIs
  <2> HIDE DEF listed
  <2>10. Len(first) \in Nat /\ Len(more) \in Nat /\ Len(down) \in Nat /\ Len(all) \in Nat
    BY <2>4, <2>6, <2>7, <2>8
  <2>11. m \in Nat /\ n \in Nat /\ m <= n /\ m <= Len(down) /\ m <= Len(first) /\ n <= limit /\ n <= Len(all)
    BY <1>1, <2>6, <2>8, <2>9, <2>10
  <2>12. DOMAIN listed = 1 .. n
    BY <2>9
  <2>13. \A k \in 1 .. m : listed[k] = down[k]
    <3> TAKE k \in 1 .. m
    <3>1. k \in 1 .. n /\ k \in 1 .. Len(first) /\ k <= Len(first) /\ k \in 1 .. Len(first) + Len(more)
      BY <2>10, <2>11
    <3> QED BY <2>6, <2>8, <2>9, <3>1
  <2>14. \A k \in m + 1 .. n : listed[k] \in matches /\ listed[k].ts = 0
    <3> TAKE k \in m + 1 .. n
    <3> DEFINE i == k - Len(first)
    <3>1. m = Len(first)
      BY <1>1, <2>10, <2>11
    <3>2. k \in 1 .. n /\ k \in 1 .. Len(first) + Len(more) /\ ~(k <= Len(first)) /\ i \in 1 .. Len(more)
      BY <2>8, <2>10, <2>11, <3>1
    <3>3. listed[k] = more[i] /\ listed[k] \in matches
      BY <2>8, <2>9, <3>2
    <3>4. more[i] \in U
      BY <2>7, <3>2
    <3> QED BY <2>5, <3>3, <3>4
  <2>15. Best(listed, matches, f.sort)
    <3> HIDE DEF m, n
    <3> QED BY <1>1, <2>11, <2>12, <2>13, <2>14, TimesBest DEF down
  <2> QED BY <2>1, <2>15 DEF listed, found, matches
<1> QED BY <1>3, <1>4, <1>5

-----------------------------------------------------------------------------
(* Filters: every edit of a filter is a filter *)

\* The filters a page may have: sorted by the time, or by a field every row has.
Lookups == {f \in Filter : f.sort.field \in {"ts"} \cup Sortable}

\* A list without one of its elements is a list of the same.
LEMMA RemovedIs ==
  ASSUME NEW S, NEW s \in Seq(S), NEW i \in DOMAIN s
  PROVE  RemoveAt(s, i) \in Seq(S)
<1>1. Len(s) \in Nat /\ i \in 1 .. Len(s) /\ \A k \in 1 .. Len(s) : s[k] \in S
  OBVIOUS
<1> DEFINE m == i - 1
           n == i + 1
           l == Len(s)
<1>2. m \in Int /\ n \in Int /\ l \in Int /\ \A k \in 1 .. m : k \in 1 .. Len(s)
  BY <1>1
<1>3. \A k \in n .. l : k \in 1 .. Len(s)
  BY <1>1
<1>4. RemoveAt(s, i) = SubSeq(s, 1, m) \o SubSeq(s, n, l)
  BY DEF RemoveAt
<1> HIDE DEF m, n, l
<1>5. \A k \in 1 .. m : s[k] \in S
  BY <1>1, <1>2
<1>6. \A k \in n .. l : s[k] \in S
  BY <1>1, <1>3
<1>7. SubSeq(s, 1, m) \in Seq(S)
  BY <1>2, <1>5, SubSeqProperties
<1>8. SubSeq(s, n, l) \in Seq(S)
  BY <1>2, <1>6, SubSeqProperties
<1> QED BY <1>4, <1>7, <1>8, ConcatProperties

\* A finite set in some order is a list of its members.
LEMMA InSomeOrder ==
  ASSUME NEW S, NEW T \in SUBSET S, IsFiniteSet(T)
  PROVE  SetToSeq(T) \in Seq(S)
<1> DEFINE n == Cardinality(T)
<1>1. n \in Nat /\ ExistsBijection(1 .. n, T)
  BY FS_CardinalityType
<1>2. PICK f \in [1 .. n -> T] : \A a, b \in 1 .. n : f[a] = f[b] => a = b
  BY <1>1 DEF ExistsBijection, Bijection, Injection, IsInjective
<1>3. DOMAIN f = 1 .. n
  OBVIOUS
<1>4. \E g \in [1 .. n -> T] : IsInjective(g)
  BY <1>2, <1>3 DEF IsInjective
<1>5. SetToSeq(T) \in [1 .. n -> T]
  BY <1>4 DEF SetToSeq
<1> QED BY <1>1, <1>5

\* Other conditions, one more, fewer: the filter is a filter.
LEMMA CondsStay ==
  ASSUME NEW f \in Lookups, NEW c \in Seq(Cond)
  PROVE  [f EXCEPT !.conds = c] \in Lookups
BY DEF Lookups, Filter

\* With one condition more.
LEMMA AndIs ==
  ASSUME NEW f \in Lookups, NEW c \in Cond
  PROVE  And(f, c) \in Lookups
<1>1. f.conds \in Seq(Cond)
  BY DEF Lookups, Filter
<1>2. Append(f.conds, c) \in Seq(Cond)
  BY <1>1
<1> QED BY <1>2, CondsStay DEF And

\* With some of its conditions alone.
LEMMA KeptConds ==
  ASSUME NEW f \in Lookups, NEW places \in SUBSET (DOMAIN f.conds)
  PROVE  Kept(f.conds, places) \in Seq(Cond) /\ [f EXCEPT !.conds = Kept(f.conds, places)] \in Lookups
<1>1. f.conds \in Seq(Cond)
  BY DEF Lookups, Filter
<1>2. Kept(f.conds, places) \in Seq(Cond)
  BY <1>1, KeptIs
<1> QED BY <1>2, CondsStay

\* A condition as it is written.
LEMMA WhereIs ==
  ASSUME NEW field \in Columns, NEW op \in Op, NEW want \in SUBSET Int
  PROVE  Where(field, op, want) \in Cond
BY DEF Where, Cond

\* A filter that is cleared, whatever it is sorted by.
LEMMA NoFilterIs ==
  ASSUME NEW field \in {"ts"} \cup Sortable, field \in Columns, NEW desc \in BOOLEAN
  PROVE  NoFilter([field |-> field, desc |-> desc]) \in Lookups
<1> DEFINE sort == [field |-> field, desc |-> desc]
<1>1. sort \in [field : Columns, desc : BOOLEAN] /\ sort.field \in {"ts"} \cup Sortable
  OBVIOUS
<1>2. <<>> \in Seq(Cond) /\ 0 \in Int
  OBVIOUS
<1> HIDE DEF sort
<1> DEFINE f == NoFilter(sort)
<1>3. f = [conds |-> <<>>, or |-> FALSE, from |-> 0, to |-> 0, hours |-> "any", regex |-> 0, text |-> 0, sort |-> sort]
  BY DEF NoFilter, No
<1>4. f.sort = sort
  BY <1>3
<1> DEFINE any == "any"
           no == FALSE
<1>5. any \in {"any", "within", "outside"} /\ no \in BOOLEAN
  OBVIOUS
<1>6. f = [conds |-> <<>>, or |-> no, from |-> 0, to |-> 0, hours |-> any, regex |-> 0, text |-> 0, sort |-> sort]
  BY <1>3
<1> HIDE DEF f, any, no
<1>7. f \in Filter
  BY <1>1, <1>2, <1>5, <1>6 DEF Filter
<1> QED BY <1>1, <1>4, <1>7 DEF Lookups, f, sort

\* A facet value more or less.
LEMMA ToggledIs ==
  ASSUME NEW f \in Lookups, NEW field \in Columns, NEW value \in Int, NEW negate \in BOOLEAN
  PROVE  toggleFacetValue(f, field, value, negate) \in Lookups
<1> DEFINE ops == IF negate THEN <<"ne", "nin">> ELSE <<"eq", "in">>
           at == {i \in DOMAIN f.conds : f.conds[i].field = field /\ f.conds[i].op \in ToSet(ops)}
           i == CHOOSE i \in at : \A j \in at : i <= j
           next == (f.conds[i].want \cup {value}) \ (f.conds[i].want \cap {value})
           new == Where(field, ops[IF Cardinality(next) = 1 THEN 1 ELSE 2], next)
           t == toggleFacetValue(f, field, value, negate)
<1>1. f.conds \in Seq(Cond)
  BY DEF Lookups, Filter
<1>2. DOMAIN f.conds = 1 .. Len(f.conds) /\ \A k \in DOMAIN f.conds : f.conds[k] \in Cond
  BY <1>1
<1>3. ops[1] \in Op /\ ops[2] \in Op
  <2>1. CASE negate
    BY <2>1, ColumnsAssumption DEF Op
  <2>2. CASE ~negate
    BY <2>2, ColumnsAssumption DEF Op
  <2> QED BY <2>1, <2>2
<1>4. t = IF at = {} THEN And(f, Where(field, ops[1], {value}))
          ELSE IF next = {} THEN [f EXCEPT !.conds = RemoveAt(f.conds, i)] ELSE [f EXCEPT !.conds[i] = new]
  BY DEF toggleFacetValue
<1> HIDE DEF t, ops
<1>5. CASE at = {}
  <2>1. Where(field, ops[1], {value}) \in Cond
    BY <1>3, WhereIs
  <2> QED BY <1>4, <1>5, <2>1, AndIs DEF t
<1>6. CASE at # {}
  <2>1. at \in SUBSET Nat
    BY <1>2
  <2>2. at \in SUBSET (DOMAIN f.conds)
    OBVIOUS
  <2> HIDE DEF at
  <2>3. \E k \in at : \A j \in at : k <= j
    BY <1>6, <2>1, LeastNumber
  <2>4. i \in DOMAIN f.conds
    BY <2>2, <2>3
  <2> HIDE DEF i
  <2>5. f.conds[i].want \in SUBSET Int
    BY <1>2, <2>4 DEF Cond
  <2>6. next \in SUBSET Int
    BY <2>5
  <2> HIDE DEF next
  <2>7. new \in Cond
    <3>1. ops[IF Cardinality(next) = 1 THEN 1 ELSE 2] \in Op
      BY <1>3
    <3> QED BY <2>6, <3>1, WhereIs
  <2> HIDE DEF new
  <2>8. RemoveAt(f.conds, i) \in Seq(Cond)
    BY <1>1, <2>4, RemovedIs
  <2>9. [f.conds EXCEPT ![i] = new] \in Seq(Cond)
    BY <1>1, <2>4, <2>7
  <2>10. [f EXCEPT !.conds[i] = new] = [f EXCEPT !.conds = [f.conds EXCEPT ![i] = new]]
    BY DEF Lookups, Filter
  <2>11. [f EXCEPT !.conds = RemoveAt(f.conds, i)] \in Lookups /\ [f EXCEPT !.conds[i] = new] \in Lookups
    BY <2>8, <2>9, <2>10, CondsStay
  <2> QED BY <1>4, <1>6, <2>11 DEF t
<1> QED BY <1>5, <1>6

\* A flag, a band of risk, a stacked value.
LEMMA FlagIs ==
  ASSUME NEW f \in Lookups, NEW field \in Columns, NEW value \in Int, NEW negate \in BOOLEAN
  PROVE  ToggleFlag(f, field, value, negate) \in Lookups
<1> DEFINE op == IF negate THEN "not_contains" ELSE "contains"
           c == Where(field, op, {value})
           places == {i \in DOMAIN f.conds : f.conds[i] # c}
<1>1. ToggleFlag(f, field, value, negate) =
        IF c \in ToSet(f.conds) THEN [f EXCEPT !.conds = Kept(f.conds, places)] ELSE And(f, c)
  BY DEF ToggleFlag
<1>2. op \in Op
  <2>1. CASE negate
    BY <2>1, ColumnsAssumption DEF Op
  <2>2. CASE ~negate
    BY <2>2, ColumnsAssumption DEF Op
  <2> QED BY <2>1, <2>2
<1> HIDE DEF op
<1>3. c \in Cond
  BY <1>2, WhereIs
<1> HIDE DEF c
<1>4. [f EXCEPT !.conds = Kept(f.conds, places)] \in Lookups
  BY KeptConds
<1>5. And(f, c) \in Lookups
  BY <1>3, AndIs
<1> QED BY <1>1, <1>4, <1>5

\* A band of risk.
LEMMA BandIs ==
  ASSUME NEW f \in Lookups, NEW lo \in Int, NEW hi \in Int, NEW negate \in BOOLEAN
  PROVE  ToggleBand(f, lo, hi, negate) \in Lookups
<1> DEFINE op == IF negate THEN "lt" ELSE "gte"
           c == Where("risk", op, {lo})
           d == Where("risk", "lt", {hi})
           places == {i \in DOMAIN f.conds : f.conds[i].field # "risk"}
           rest == [f EXCEPT !.conds = Kept(f.conds, places)]
<1>1. ToggleBand(f, lo, hi, negate) =
        IF c \in ToSet(f.conds) THEN rest ELSE IF hi # 0 /\ ~negate THEN And(And(rest, c), d) ELSE And(rest, c)
  BY DEF ToggleBand
<1>2. op \in Op /\ "risk" \in Columns /\ "lt" \in Op
  <2>1. CASE negate
    BY <2>1, ColumnsAssumption DEF Op
  <2>2. CASE ~negate
    BY <2>2, ColumnsAssumption DEF Op
  <2> QED BY <2>1, <2>2
<1> HIDE DEF op
<1>3. c \in Cond /\ d \in Cond
  BY <1>2, WhereIs
<1>4. rest \in Lookups
  BY KeptConds
<1> HIDE DEF c, d, rest
<1>5. And(rest, c) \in Lookups
  BY <1>3, <1>4, AndIs
<1>6. And(And(rest, c), d) \in Lookups
  BY <1>3, <1>5, AndIs
<1> QED BY <1>1, <1>4, <1>5, <1>6

\* A stacked value.
LEMMA StackedIs ==
  ASSUME NEW f \in Lookups, NEW s \in Seq(Cond)
  PROVE  pickStacked(f, s) \in Lookups
<1> DEFINE fields == {c.field : c \in ToSet(s)}
           places == {i \in DOMAIN f.conds : ~(f.conds[i].field \in fields /\ Equal(f.conds[i].op))}
           left == Kept(f.conds, places)
<1>1. pickStacked(f, s) = [f EXCEPT !.conds = left \o s]
  BY DEF pickStacked
<1>2. left \in Seq(Cond)
  BY KeptConds
<1> HIDE DEF left
<1>3. left \o s \in Seq(Cond)
  BY <1>2, ConcatProperties
<1> QED BY <1>1, <1>3, CondsStay

\* A range of time, another sort, a text.
LEMMA RangeIs ==
  ASSUME NEW f \in Lookups, NEW range \in Int \X Int
  PROVE  WithRange(f, range) \in Lookups
BY DEF WithRange, Lookups, Filter

\* Another sort.
LEMMA SortIs ==
  ASSUME NEW f \in Lookups, NEW field \in {"ts", "user"}
  PROVE  WithSort(f, field) \in Lookups
<1> DEFINE desc == ~(f.sort.field = field /\ f.sort.desc)
           sort == [field |-> field, desc |-> desc]
<1>1. desc \in BOOLEAN
  OBVIOUS
<1>2. field \in Columns /\ field \in {"ts"} \cup Sortable
  BY ColumnsAssumption DEF Sortable
<1>3. WithSort(f, field) = [f EXCEPT !.sort = sort]
  BY DEF WithSort
<1> HIDE DEF desc
<1>4. sort \in [field : Columns, desc : BOOLEAN] /\ sort.field \in {"ts"} \cup Sortable
  BY <1>1, <1>2
<1> HIDE DEF sort
<1> QED BY <1>3, <1>4 DEF Lookups, Filter

\* Whatever the analyst picks, types or takes out, what a page is filtered by is a filter.
LEMMA EditIs ==
  ASSUME NEW screen \in Lists, NEW f \in Lookups, NEW g \in EditsOf(screen, f)
  PROVE  g \in Lookups
<1> USE PicksAssumption
<1>1. f.conds \in Seq(Cond) /\ f \in Filter
  BY DEF Lookups, Filter
<1>2. ASSUME NEW p \in Facet PROVE FacetEdit(screen, f, p) \in Lookups
  <2>1. p.field \in Columns /\ p.value \in Int /\ p.to \in Int /\ p.negate \in BOOLEAN
    OBVIOUS
  <2> QED BY <2>1, FlagIs, BandIs, ToggledIs DEF FacetEdit
<1>3. ASSUME NEW h \in TypedEdits(f, Texts) PROVE h \in Lookups
  <2>1. \E t \in Texts \cup {No} : h = [f EXCEPT !.text = t] \/ h = [f EXCEPT !.regex = t]
    BY <1>3 DEF TypedEdits
  <2>2. PICK t \in Texts \cup {No} : h = [f EXCEPT !.text = t] \/ h = [f EXCEPT !.regex = t]
    BY <2>1
  <2>3. t \in Int
    BY DEF No
  <2> QED BY <2>2, <2>3 DEF Lookups, Filter
<1>4. ASSUME NEW h \in ConditionEdits(f, Added) PROVE h \in Lookups
  <2> DEFINE either == IF Len(f.conds) > 1 THEN ~f.or ELSE f.or
  <2>1. \/ \E c \in Added : h = And(f, c)
        \/ \E i \in DOMAIN f.conds : h = [f EXCEPT !.conds = RemoveAt(f.conds, i)]
        \/ h = [f EXCEPT !.or = either]
    BY <1>4 DEF ConditionEdits
  <2>2. ASSUME NEW c \in Added, h = And(f, c) PROVE h \in Lookups
    BY <2>2, AndIs
  <2>3. ASSUME NEW i \in DOMAIN f.conds, h = [f EXCEPT !.conds = RemoveAt(f.conds, i)] PROVE h \in Lookups
    BY <1>1, <2>3, RemovedIs, CondsStay
  <2>4. ASSUME h = [f EXCEPT !.or = either] PROVE h \in Lookups
    <3>1. either \in BOOLEAN
      BY DEF Lookups, Filter
    <3> HIDE DEF either
    <3> QED BY <2>4, <3>1 DEF Lookups, Filter
  <2> QED BY <2>1, <2>2, <2>3, <2>4
<1>5. ASSUME NEW h \in TimeEdits(f, Ranges) PROVE h \in Lookups
  <2> DEFINE hours == IF f.hours = "any" THEN "outside" ELSE "any"
  <2>1. (\E r \in Ranges \cup {<<0, 0>>} : h = WithRange(f, r)) \/ h = [f EXCEPT !.hours = hours]
    BY <1>5 DEF TimeEdits
  <2>2. ASSUME NEW r \in Ranges \cup {<<0, 0>>}, h = WithRange(f, r) PROVE h \in Lookups
    <3>1. r \in Int \X Int
      OBVIOUS
    <3> QED BY <2>2, <3>1, RangeIs
  <2>3. ASSUME h = [f EXCEPT !.hours = hours] PROVE h \in Lookups
    <3>1. hours \in {"any", "within", "outside"}
      OBVIOUS
    <3> HIDE DEF hours
    <3> QED BY <2>3, <3>1 DEF Lookups, Filter
  <2> QED BY <2>1, <2>2, <2>3
<1>6. ASSUME NEW h \in SavedEdits(f, Searches) PROVE h \in Lookups
  <2>1. h \in Searches \/ h = NoFilter(f.sort)
    BY <1>6 DEF SavedEdits
  <2>2. ASSUME h \in Searches PROVE h \in Lookups
    BY <2>2 DEF Lookups, Sortable
  <2>3. NoFilter(f.sort) \in Lookups
    <3> DEFINE field == f.sort.field
               desc == f.sort.desc
    <3>1. field \in Columns /\ field \in {"ts"} \cup Sortable /\ desc \in BOOLEAN /\ f.sort = [field |-> field, desc |-> desc]
      BY DEF Lookups, Filter
    <3> HIDE DEF field, desc
    <3> QED BY <3>1, NoFilterIs
  <2> QED BY <2>1, <2>2, <2>3
<1>7. ASSUME NEW s \in Stacked PROVE pickStacked(f, s) \in Lookups
  BY StackedIs
<1>8. ASSUME NEW field \in {"ts", "user"} PROVE WithSort(f, field) \in Lookups
  BY SortIs
<1>9. \/ \E p \in Facet : g = FacetEdit(screen, f, p)
      \/ g \in TypedEdits(f, Texts) \/ g \in ConditionEdits(f, Added) \/ g \in TimeEdits(f, Ranges)
      \/ g \in SavedEdits(f, Searches)
      \/ \E field \in {"ts", "user"} : g = WithSort(f, field)
      \/ \E s \in Stacked : g = pickStacked(f, s)
  BY DEF EditsOf
<1> QED BY <1>2, <1>3, <1>4, <1>5, <1>6, <1>7, <1>8, <1>9

\* The filter a page starts with.
LEMMA NewestIs == NoFilter(Newest) \in Lookups
<1>1. "ts" \in Columns
  BY ColumnsAssumption
<1> QED BY <1>1, NoFilterIs DEF Newest

\* "Marked only", switched on and off.
LEMMA WithoutIdsIs ==
  ASSUME NEW f \in Lookups
  PROVE  WithoutIds(f) \in Lookups
<1> DEFINE places == {i \in DOMAIN f.conds : f.conds[i].field # "id"}
<1>1. WithoutIds(f) = [f EXCEPT !.conds = Kept(f.conds, places)]
  BY DEF WithoutIds
<1>2. places \in SUBSET (DOMAIN f.conds)
  OBVIOUS
<1> HIDE DEF places
<1> QED BY <1>1, <1>2, KeptConds

\* The marked rows alone.
LEMMA OnlyIdsIs ==
  ASSUME NEW f \in Lookups, NEW ids \in SUBSET Int
  PROVE  OnlyIds(f, ids) \in Lookups
<1> DEFINE want == IF ids = {} THEN {-1} ELSE ids
<1>1. want \in SUBSET Int
  OBVIOUS
<1>2. OnlyIds(f, ids) = And(WithoutIds(f), Where("id", "in", want))
  BY DEF OnlyIds
<1> HIDE DEF want
<1>3. Where("id", "in", want) \in Cond
  BY <1>1, WhereIs, ColumnsAssumption DEF Op
<1> QED BY <1>2, <1>3, WithoutIdsIs, AndIs

\* The effect that takes "marked only" out.
LEMMA EffectIs ==
  ASSUME NEW fs \in [Lists -> Lookups], NEW screen, NEW l
  PROVE  MarkedEffect(screen, fs, l) \in [Lists -> Lookups]
<1>1. WithoutIds(fs["events"]) \in Lookups
  BY WithoutIdsIs DEF Lists
<1> DEFINE g == WithoutIds(fs["events"])
<1>2. MarkedEffect(screen, fs, l) = IF screen = "events" /\ ~l.only THEN [fs EXCEPT !["events"] = g] ELSE fs
  BY DEF MarkedEffect
<1> HIDE DEF g
<1>3. [fs EXCEPT !["events"] = g] \in [Lists -> Lookups]
  BY <1>1 DEF g
<1> QED BY <1>2, <1>3

\* What an entity is looked for with, page by page.
LEMMA EntityFilterIs ==
  ASSUME NEW e \in Entities, NEW screen \in Lists
  PROVE  EntityFilter(e, screen) = {} \/ \E f \in Lookups : EntityFilter(e, screen) = {f}
<1> DEFINE fields == FieldsOf[e.kind][screen]
           conds == {Where(x, "eq", {e.value}) : x \in fields}
           f == [NoFilter(Newest) EXCEPT !.or = TRUE, !.conds = SetToSeq(conds)]
<1>1. e.kind \in {"user", "host", "ip", "address", "domain"} /\ e.value \in Int
  BY PicksAssumption
<1>2. fields = {} \/ \E x \in Columns : fields = {x}
  <2>1. CASE screen = "events"
    BY <1>1, <2>1, ColumnsAssumption DEF FieldsOf
  <2>2. CASE screen = "mails"
    BY <1>1, <2>2, ColumnsAssumption DEF FieldsOf
  <2> QED BY <2>1, <2>2 DEF Lists
<1>3. EntityFilter(e, screen) = IF fields = {} THEN {} ELSE {f}
  BY DEF EntityFilter
<1> HIDE DEF fields
<1>4. conds \in SUBSET Cond /\ IsFiniteSet(conds)
  <2>1. \A x \in Columns : Where(x, "eq", {e.value}) \in Cond
    BY <1>1, WhereIs DEF Op
  <2>2. conds = {} \/ \E x \in Columns : conds = {Where(x, "eq", {e.value})}
    BY <1>2
  <2> QED BY <2>1, <2>2, FS_EmptySet, FS_Singleton
<1> HIDE DEF conds
<1>5. SetToSeq(conds) \in Seq(Cond)
  BY <1>4, InSomeOrder
<1> DEFINE yes == TRUE
           s == SetToSeq(conds)
           n == NoFilter(Newest)
<1>6. f = [n EXCEPT !.or = yes, !.conds = s] /\ yes \in BOOLEAN /\ s \in Seq(Cond) /\ n \in Lookups
  BY <1>5, NewestIs
<1> HIDE DEF f, yes, s, n
<1>7. f \in Lookups
  BY <1>6 DEF Lookups, Filter
<1> QED BY <1>3, <1>7

-----------------------------------------------------------------------------
(* The queries of a page and of the panel *)

Pages == Lists \cup {"timeline", "other"}
What == {"search", "count", "bars", "stack", "host"}

\* What a query asks, and whatever it may be answered.
Questions == [who : {"page", "panel"}, what : What, page : Lists, filter : Lookups, kase : Books]
Answers == {Failure} \cup {AnswerAt(a, n) : a \in Questions, n \in Nat}

\* A query under way: if it has an answer, it is a failure or what its case held at some time since it was opened.
Answerable(a) == a.answer = {} \/ a.answer = {Failure} \/ \E n \in 1 .. Len(RowsIn[a.kase]) : a.answer = {AnswerAt(a, n)}
Asking ==
  {a \in [who : {"page", "panel"}, what : What, page : Lists, filter : Lookups, kase : Books, answer : SUBSET Answers,
          alive : BOOLEAN] : Answerable(a)}

\* The search a page waits for is of what the page shows: its case, its rows, its filter.
ForPage(a, k, screen, fs) ==
  a.who = "page" /\ a.what = "search" /\ a.alive => screen \in Lists /\ a.page = screen /\ a.kase = k /\ a.filter = fs[screen]
AsksOf(k, screen, fs) == {a \in Asking : ForPage(a, k, screen, fs)}

\* An answer depends on what was asked alone.
LEMMA SameAnswer ==
  ASSUME NEW a, NEW b, NEW n, a.who = b.who, a.what = b.what, a.page = b.page, a.filter = b.filter, a.kase = b.kase
  PROVE  AnswerAt(a, n) = AnswerAt(b, n)
<1>1. RowsNow(a.kase, a.page, n) = RowsNow(b.kase, b.page, n)
  OBVIOUS
<1> DEFINE ra == RowsNow(a.kase, a.page, n)
           rb == RowsNow(b.kase, b.page, n)
           la == IF a.who = "panel" THEN ENTITY_ROWS ELSE LIMIT_ROWS
           lb == IF b.who = "panel" THEN ENTITY_ROWS ELSE LIMIT_ROWS
<1>2. ra = rb /\ la = lb
  OBVIOUS
<1>3. AnswerAt(a, n) =
        [asOf |-> n,
         value |-> CASE a.what = "search" -> IF a.page = "events" THEN searchEvents(ra, a.filter, la, HARD_CAP)
                                             ELSE searchMails(ra, a.filter, la)
                     [] a.what = "count" -> IF a.page = "events" THEN countEvents(ra, a.filter) ELSE countMails(ra, a.filter)
                     [] a.what = "bars" -> timeline(ra, a.filter)
                     [] a.what = "stack" -> stackEvents(ra, a.filter, "user", "rare", 2)
                     [] OTHER -> aggregate(ra, a.filter, a.what, 6)]
  BY DEF AnswerAt
<1>4. AnswerAt(b, n) =
        [asOf |-> n,
         value |-> CASE b.what = "search" -> IF b.page = "events" THEN searchEvents(rb, b.filter, lb, HARD_CAP)
                                             ELSE searchMails(rb, b.filter, lb)
                     [] b.what = "count" -> IF b.page = "events" THEN countEvents(rb, b.filter) ELSE countMails(rb, b.filter)
                     [] b.what = "bars" -> timeline(rb, b.filter)
                     [] b.what = "stack" -> stackEvents(rb, b.filter, "user", "rare", 2)
                     [] OTHER -> aggregate(rb, b.filter, b.what, 6)]
  BY DEF AnswerAt
<1> HIDE DEF ra, rb, la, lb
<1> QED BY <1>2, <1>3, <1>4

\* A query as it is asked.
LEMMA QueryIs ==
  ASSUME NEW who \in {"page", "panel"}, NEW what \in What, NEW screen \in Lists, NEW f \in Lookups, NEW k \in Books
  PROVE  Query(who, what, screen, f, k) \in Asking /\ Query(who, what, screen, f, k).who = who
<1> DEFINE yes == TRUE
           none == {}
           q == Query(who, what, screen, f, k)
<1>1. q = [who |-> who, what |-> what, page |-> screen, filter |-> f, kase |-> k, answer |-> none, alive |-> yes]
  BY DEF Query
<1>2. yes \in BOOLEAN /\ none \in SUBSET Answers /\ q.answer = {}
  BY <1>1
<1> HIDE DEF yes, none, q
<1>3. q \in [who : {"page", "panel"}, what : What, page : Lists, filter : Lookups, kase : Books, answer : SUBSET Answers,
             alive : BOOLEAN]
  BY <1>1, <1>2
<1> QED BY <1>1, <1>2, <1>3 DEF Asking, Answerable, q

\* A query that is stopped, and one that is answered, is the same query.
LEMMA DeadIs ==
  ASSUME NEW a \in Asking
  PROVE  LET d == [a EXCEPT !.alive = FALSE]
         IN  d \in Asking /\ d.who = a.who /\ ~d.alive
<1> DEFINE no == FALSE
           d == [a EXCEPT !.alive = no]
<1>1. no \in BOOLEAN /\ ~no
  OBVIOUS
<1>2. d = [a EXCEPT !.alive = FALSE]
  OBVIOUS
<1> HIDE DEF no
<1>3. d = [who |-> a.who, what |-> a.what, page |-> a.page, filter |-> a.filter, kase |-> a.kase, answer |-> a.answer, alive |-> no]
  BY DEF Asking
<1> HIDE DEF d
<1>4. /\ d.who = a.who /\ d.what = a.what /\ d.page = a.page /\ d.filter = a.filter /\ d.kase = a.kase /\ d.answer = a.answer
      /\ d.alive = no
  BY <1>3
<1>5. \A n : AnswerAt(d, n) = AnswerAt(a, n)
  BY <1>4, SameAnswer
<1>6. Answerable(d)
  BY <1>4, <1>5 DEF Answerable, Asking
<1>7. d \in Asking
  BY <1>3, <1>1, <1>6 DEF Asking
<1> QED BY <1>1, <1>2, <1>4, <1>7

\* A query that fails, or is answered by what its case holds, is the same query.
LEMMA AnsweredIs ==
  ASSUME NEW k, NEW screen, NEW fs, NEW a \in AsksOf(k, screen, fs),
         NEW x, x = Failure \/ \E n \in 1 .. Len(RowsIn[a.kase]) : x = AnswerAt(a, n)
  PROVE  [a EXCEPT !.answer = {x}] \in AsksOf(k, screen, fs)
<1> DEFINE z == {x}
           d == [a EXCEPT !.answer = z]
<1>1. a \in Asking /\ ForPage(a, k, screen, fs)
  BY DEF AsksOf
<1> HIDE DEF z
<1>2. d = [who |-> a.who, what |-> a.what, page |-> a.page, filter |-> a.filter, kase |-> a.kase, answer |-> z, alive |-> a.alive]
  BY <1>1 DEF Asking
<1> DEFINE q == [who |-> a.who, what |-> a.what, page |-> a.page, filter |-> a.filter, kase |-> a.kase]
<1>3. q \in Questions /\ q.who = a.who /\ q.what = a.what /\ q.page = a.page /\ q.filter = a.filter /\ q.kase = a.kase
  BY <1>1 DEF Asking, Questions
<1> HIDE DEF q
<1>4. \A n : AnswerAt(q, n) = AnswerAt(a, n)
  BY <1>3, SameAnswer
<1>5. x \in Answers
  <2>1. ASSUME NEW n \in 1 .. Len(RowsIn[a.kase]), x = AnswerAt(a, n) PROVE x \in Answers
    <3>1. n \in Nat /\ x = AnswerAt(q, n)
      BY <1>1, <1>4, <2>1, RowsAssumption DEF Asking
    <3> QED BY <1>3, <3>1 DEF Answers
  <2> QED BY <2>1 DEF Answers
<1>6. z \in SUBSET Answers /\ z = {x}
  BY <1>5 DEF z
<1> HIDE DEF d
<1>7. /\ d.who = a.who /\ d.what = a.what /\ d.page = a.page /\ d.filter = a.filter /\ d.kase = a.kase /\ d.answer = z
      /\ d.alive = a.alive
  BY <1>2
<1>8. \A n : AnswerAt(d, n) = AnswerAt(a, n)
  BY <1>7, SameAnswer
<1>9. Answerable(d)
  BY <1>6, <1>7, <1>8 DEF Answerable
<1>10. d \in Asking
  BY <1>1, <1>2, <1>6, <1>9 DEF Asking
<1>11. ForPage(d, k, screen, fs)
  BY <1>1, <1>7 DEF ForPage
<1> QED BY <1>10, <1>11 DEF AsksOf, d, z

\* When a page stops what it asked, it waits for nothing; when the panel does, the page waits for what it waited for.
LEMMA PageStopped ==
  ASSUME NEW q \in Seq(Asking), NEW k, NEW screen, NEW fs
  PROVE  Stopped(q, "page") \in Seq(AsksOf(k, screen, fs))
<1> DEFINE places == {i \in DOMAIN q : q[i].who # "page" \/ q[i].answer # {}}
           left == Kept(q, places)
           after == [i \in DOMAIN left |-> IF left[i].who = "page" THEN [left[i] EXCEPT !.alive = FALSE] ELSE left[i]]
<1>1. Stopped(q, "page") = after
  BY DEF Stopped
<1>2. left \in Seq(Asking)
  BY KeptIs
<1> HIDE DEF left
<1>3. DOMAIN left = 1 .. Len(left) /\ Len(left) \in Nat
  BY <1>2
<1>4. ASSUME NEW i \in DOMAIN left PROVE after[i] \in AsksOf(k, screen, fs)
  <2> DEFINE a == left[i]
             d == [a EXCEPT !.alive = FALSE]
  <2>1. a \in Asking /\ after[i] = IF a.who = "page" THEN d ELSE a
    BY <1>2
  <2>2. d \in Asking /\ d.who = a.who /\ ~d.alive
    BY <2>1, DeadIs
  <2> HIDE DEF a, d
  <2> QED BY <2>1, <2>2 DEF AsksOf, ForPage
<1> DEFINE T == AsksOf(k, screen, fs)
<1>5. after \in [1 .. Len(left) -> T]
  BY <1>3, <1>4
<1> HIDE DEF after, T
<1>6. after \in Seq(T)
  BY <1>3, <1>5
<1> QED BY <1>1, <1>6 DEF T

\* The queries of the panel stop.
LEMMA PanelStopped ==
  ASSUME NEW k, NEW screen, NEW fs, NEW q \in Seq(AsksOf(k, screen, fs))
  PROVE  Stopped(q, "panel") \in Seq(AsksOf(k, screen, fs))
<1> DEFINE places == {i \in DOMAIN q : q[i].who # "panel" \/ q[i].answer # {}}
           left == Kept(q, places)
           after == [i \in DOMAIN left |-> IF left[i].who = "panel" THEN [left[i] EXCEPT !.alive = FALSE] ELSE left[i]]
<1>1. Stopped(q, "panel") = after
  BY DEF Stopped
<1>2. left \in Seq(AsksOf(k, screen, fs))
  BY KeptIs
<1> HIDE DEF left
<1>3. DOMAIN left = 1 .. Len(left) /\ Len(left) \in Nat
  BY <1>2
<1>4. ASSUME NEW i \in DOMAIN left PROVE after[i] \in AsksOf(k, screen, fs)
  <2> DEFINE a == left[i]
             d == [a EXCEPT !.alive = FALSE]
  <2>1. a \in AsksOf(k, screen, fs) /\ after[i] = IF a.who = "panel" THEN d ELSE a
    BY <1>2
  <2>2. a \in Asking
    BY <2>1 DEF AsksOf
  <2>3. d \in Asking /\ d.who = a.who /\ ~d.alive
    BY <2>2, DeadIs
  <2> HIDE DEF a, d
  <2> QED BY <2>1, <2>3 DEF AsksOf, ForPage
<1> DEFINE T == AsksOf(k, screen, fs)
<1>5. after \in [1 .. Len(left) -> T]
  BY <1>3, <1>4
<1> HIDE DEF after, T
<1>6. after \in Seq(T)
  BY <1>3, <1>5
<1> QED BY <1>1, <1>6 DEF T

\* What a page asks when it opens, or when its filter changes: its search is of what it shows.
LEMMA PageAsksIs ==
  ASSUME NEW k \in Books, NEW screen \in Pages, NEW fs \in [Lists -> Lookups]
  PROVE  PageAsks(screen, fs, k) \in Seq(AsksOf(k, screen, fs))
<1> DEFINE T == AsksOf(k, screen, fs)
<1>1. ASSUME NEW what \in What, NEW p \in Lists, what = "search" => p = screen
      PROVE  Query("page", what, p, fs[p], k) \in T
  <2> DEFINE f == fs[p]
             q == Query("page", what, p, f, k)
  <2>1. f \in Lookups
    OBVIOUS
  <2>2. q \in Asking
    BY <2>1, QueryIs
  <2>3. q.who = "page" /\ q.what = what /\ q.page = p /\ q.kase = k /\ q.filter = f
    BY DEF Query
  <2> HIDE DEF q
  <2>4. ForPage(q, k, screen, fs)
    BY <1>1, <2>3 DEF ForPage
  <2> QED BY <2>2, <2>4 DEF AsksOf, q
<1> HIDE DEF T
<1>2. CASE screen = "other"
  BY <1>2 DEF PageAsks
<1>3. CASE screen = "timeline"
  <2> DEFINE a == Query("page", "bars", "events", fs["events"], k)
             b == Query("page", "bars", "mails", fs["mails"], k)
  <2>1. a \in T /\ b \in T
    BY <1>1 DEF What, Lists
  <2>2. PageAsks(screen, fs, k) = <<a, b>>
    BY <1>3 DEF PageAsks
  <2> HIDE DEF a, b
  <2> QED BY <2>1, <2>2 DEF T
<1>4. CASE screen \in Lists
  <2> DEFINE a == Query("page", "search", screen, fs[screen], k)
             b == Query("page", "count", screen, fs[screen], k)
             c == Query("page", "bars", screen, fs[screen], k)
  <2>1. a \in T /\ b \in T /\ c \in T
    BY <1>1, <1>4 DEF What
  <2>2. PageAsks(screen, fs, k) = <<a, b, c>>
    BY <1>4 DEF PageAsks, Lists
  <2> HIDE DEF a, b, c
  <2> QED BY <2>1, <2>2 DEF T
<1> QED BY <1>2, <1>3, <1>4 DEF Pages

\* Asked again: what was asked before is stopped, what is asked now is of what the page shows.
LEMMA AskedAgain ==
  ASSUME NEW q \in Seq(Asking), NEW k \in Books, NEW screen \in Pages, NEW fs \in [Lists -> Lookups]
  PROVE  Stopped(q, "page") \o PageAsks(screen, fs, k) \in Seq(AsksOf(k, screen, fs))
<1> DEFINE T == AsksOf(k, screen, fs)
<1>1. Stopped(q, "page") \in Seq(T) /\ PageAsks(screen, fs, k) \in Seq(T)
  BY PageStopped, PageAsksIs
<1> HIDE DEF T
<1>2. Stopped(q, "page") \o PageAsks(screen, fs, k) \in Seq(T)
  BY <1>1, ConcatProperties
<1> QED BY <1>2 DEF T

\* The panel's queries are no page's.
LEMMA EntityAsksIs ==
  ASSUME NEW e \in Entities, NEW what \in What, NEW c \in Books, NEW k, NEW screen, NEW fs
  PROVE  EntityAsks(e, what, c) \in Seq(AsksOf(k, screen, fs))
<1> DEFINE of(p) == {Query("panel", what, p, f, c) : f \in EntityFilter(e, p)}
           all == UNION {of(p) : p \in Lists}
           T == AsksOf(k, screen, fs)
<1>1. ASSUME NEW p \in Lists PROVE of(p) \in SUBSET T /\ IsFiniteSet(of(p))
  <2>1. CASE EntityFilter(e, p) = {}
    <3>1. of(p) = {}
      BY <2>1
    <3> QED BY <3>1, FS_EmptySet
  <2>2. CASE \E f \in Lookups : EntityFilter(e, p) = {f}
    <3>1. PICK f \in Lookups : EntityFilter(e, p) = {f}
      BY <2>2
    <3> DEFINE q == Query("panel", what, p, f, c)
    <3>2. of(p) = {q}
      BY <3>1
    <3>3. q \in Asking /\ q.who = "panel"
      BY QueryIs
    <3> HIDE DEF q
    <3>4. q \in T
      BY <3>3 DEF AsksOf, ForPage
    <3> HIDE DEF of
    <3> QED BY <3>2, <3>4, FS_Singleton
  <2> QED BY <2>1, <2>2, EntityFilterIs
<1>2. all = of("events") \cup of("mails")
  BY DEF Lists
<1> HIDE DEF of, T
<1>3. /\ of("events") \in SUBSET T /\ IsFiniteSet(of("events"))
      /\ of("mails") \in SUBSET T /\ IsFiniteSet(of("mails"))
  BY <1>1 DEF Lists
<1> HIDE DEF all
<1>4. all \in SUBSET T /\ IsFiniteSet(all)
  BY <1>2, <1>3, FS_Union
<1>5. EntityAsks(e, what, c) = SetToSeq(all)
  BY DEF EntityAsks, all, of
<1> QED BY <1>4, <1>5, InSomeOrder DEF T

\* The rows of a case, in what it held, that pass a filter.
Matches(k, screen, n, f) == {r \in RowsNow(k, screen, n) : PassesOn(screen, f, r)}

\* The rows a search found are the best of those.
LEMMA SearchIs ==
  ASSUME NEW a \in Asking, a.who = "page", a.what = "search", NEW n \in 1 .. Len(RowsIn[a.kase])
  PROVE  /\ AnswerAt(a, n).asOf = n
         /\ Best(AnswerAt(a, n).value.rows, Matches(a.kase, a.page, n, a.filter), a.filter.sort)
<1> DEFINE rows == RowsNow(a.kase, a.page, n)
           f == a.filter
           found == AnswerAt(a, n)
<1>1. a.page \in Lists /\ f \in Lookups /\ a.kase \in Books
  BY DEF Asking
<1>2. IsRows(rows, Sortable)
  BY <1>1, RowsAssumption DEF RowsNow
<1>3. f \in Filter /\ f.sort.field \in {"ts"} \cup Sortable
  BY <1>1 DEF Lookups
<1>4. found = [asOf |-> n, value |-> IF a.page = "events" THEN searchEvents(rows, f, LIMIT_ROWS, HARD_CAP)
                                     ELSE searchMails(rows, f, LIMIT_ROWS)]
  BY DEF AnswerAt
<1> HIDE DEF found
<1>5. CASE a.page = "events"
  <2> DEFINE matches == {r \in rows : Passes(f, r)}
  <2>1. Matches(a.kase, a.page, n, f) = matches
    BY <1>5 DEF Matches, PassesOn
  <2> HIDE DEF rows
  <2>2. Best(searchEvents(rows, f, LIMIT_ROWS, HARD_CAP).rows, matches, f.sort)
    BY <1>2, <1>3, CapsAssumption, EventsBest
  <2>3. found.asOf = n /\ found.value = searchEvents(rows, f, LIMIT_ROWS, HARD_CAP)
    BY <1>4, <1>5
  <2> HIDE DEF matches, f
  <2> QED BY <2>1, <2>2, <2>3 DEF found, f
<1>6. CASE a.page = "mails"
  <2> DEFINE matches == {r \in rows : mailPredicate(f, r)}
  <2>1. Matches(a.kase, a.page, n, f) = matches
    BY <1>6 DEF Matches, PassesOn
  <2> HIDE DEF rows
  <2>2. Best(searchMails(rows, f, LIMIT_ROWS).rows, matches, f.sort)
    BY <1>2, <1>3, CapsAssumption, MailsBest
  <2>3. found.asOf = n /\ found.value = searchMails(rows, f, LIMIT_ROWS)
    BY <1>4, <1>6
  <2> HIDE DEF matches, f
  <2> QED BY <2>1, <2>2, <2>3 DEF found, f
<1> QED BY <1>1, <1>5, <1>6 DEF Lists

-----------------------------------------------------------------------------
(* The pages over the rows: the inductive invariant *)

IsScope(s) == {"kase", "page", "opened"} \subseteq DOMAIN s /\ s.kase \in Books /\ s.page \in Pages
IsListing(l) == {"rows", "loading", "error", "asOf"} \subseteq DOMAIN l /\ \A k \in DOMAIN l.rows : l.rows[k].id \in Int
IsPanel(p) == {"entity", "stage"} \subseteq DOMAIN p /\ p.entity \subseteq Entities /\ (p.stage # "closed" => p.entity # {})
IsContent(c) == c = [k \in Books |-> c[k]] /\ \A k \in Books : c[k] \in 1 .. Len(RowsIn[k])

\* A list at rest shows the best of the rows that pass its filter, in what its case held when they were read.
AtRest(s, l, fs) ==
  s.page \in Lists /\ ~l.loading /\ ~l.error /\ l.asOf # 0 =>
    /\ l.asOf \in 1 .. Len(RowsIn[s.kase])
    /\ Best(l.rows, Matches(s.kase, s.page, l.asOf, fs[s.page]), fs[s.page].sort)

\* The search a page waits for is of what the page shows, and its answer of what the case held: whatever
\* was asked before is stopped, so that it brings nothing when it arrives.
ExploreInv ==
  /\ IsScope(scope) /\ IsContent(content) /\ filters \in [Lists -> Lookups] /\ IsListing(list) /\ IsPanel(panel)
  /\ asks \in Seq(AsksOf(scope.kase, scope.page, filters))
  /\ \A d \in direct : d.filter \in Lookups
  /\ \A m \in DOMAIN marks : m[3] \in Int
  /\ AtRest(scope, list, filters)

\* The queries under way, one by one.
LEMMA AsksAre ==
  ASSUME NEW k, NEW screen, NEW fs, NEW q \in Seq(AsksOf(k, screen, fs))
  PROVE  q \in Seq(Asking) /\ DOMAIN q = 1 .. Len(q) /\ \A i \in DOMAIN q : q[i] \in AsksOf(k, screen, fs)
<1> DEFINE T == AsksOf(k, screen, fs)
<1>1. T \in SUBSET Asking
  BY DEF AsksOf
<1> HIDE DEF T
<1>2. q \in Seq(T)
  BY DEF T
<1>3. q \in Seq(Asking) /\ DOMAIN q = 1 .. Len(q) /\ \A i \in DOMAIN q : q[i] \in T
  BY <1>1, <1>2
<1> QED BY <1>3 DEF T

\* A list that is being read shows nothing of its own.
LEMMA ReadingIs ==
  ASSUME NEW l, IsListing(l)
  PROVE  IsListing(Reading(l)) /\ Reading(l).loading
<1> DEFINE yes == TRUE
           no == FALSE
           r == [l EXCEPT !.loading = yes, !.error = no, !.total = -1]
<1>1. Reading(l) = r /\ yes
  BY DEF Reading
<1> HIDE DEF yes, no
<1>2. DOMAIN r = DOMAIN l /\ r.rows = l.rows /\ r.loading = yes
  BY DEF IsListing
<1> HIDE DEF r
<1>3. IsListing(r)
  BY <1>2 DEF IsListing
<1> QED BY <1>1, <1>2, <1>3

\* The list of a page that has just opened.
LEMMA EmptyIs == IsListing(EmptyList) /\ EmptyList.loading = FALSE /\ EmptyList.asOf = 0
<1>1. EmptyList.rows = <<>> /\ {"rows", "loading", "error", "asOf"} \subseteq DOMAIN EmptyList
  BY DEF EmptyList
<1>2. EmptyList.loading = FALSE /\ EmptyList.asOf = 0
  BY DEF EmptyList
<1> QED BY <1>1, <1>2 DEF IsListing

\* What else changes of a list leaves what it shows.
LEMMA SameList ==
  ASSUME NEW l, NEW m, IsListing(l), {"rows", "loading", "error", "asOf"} \subseteq DOMAIN m,
         m.rows = l.rows, m.loading = l.loading, m.error = l.error, m.asOf = l.asOf
  PROVE  IsListing(m) /\ \A s, fs : AtRest(s, l, fs) => AtRest(s, m, fs)
BY DEF IsListing, AtRest

\* A page that shows a list which is being read.
LEMMA ReadingRests ==
  ASSUME NEW l, l.loading, NEW s, NEW fs
  PROVE  AtRest(s, l, fs)
BY DEF AtRest

\* A page is shown: it is filtered, its list is read, and it asks for what it shows.
LEMMA ShowPageIs ==
  ASSUME NEW screen \in Pages, NEW k \in Books, NEW fs \in [Lists -> Lookups], NEW l, IsListing(l), asks \in Seq(Asking),
         ShowPage(screen, k, fs, l)
  PROVE  /\ filters' \in [Lists -> Lookups] /\ IsListing(list') /\ list'.loading
         /\ asks' \in Seq(AsksOf(k, screen, filters'))
<1>1. /\ filters' = MarkedEffect(screen, fs, l) /\ list' = Reading(l)
      /\ asks' = Stopped(asks, "page") \o PageAsks(screen, filters', k)
  BY DEF ShowPage
<1>2. filters' \in [Lists -> Lookups]
  BY <1>1, EffectIs
<1>3. IsListing(list') /\ list'.loading
  BY <1>1, ReadingIs
<1> DEFINE gs == filters'
<1>4. asks' = Stopped(asks, "page") \o PageAsks(screen, gs, k) /\ gs \in [Lists -> Lookups]
  BY <1>1, <1>2
<1> HIDE DEF gs
<1>5. asks' \in Seq(AsksOf(k, screen, gs))
  BY <1>4, AskedAgain
<1> QED BY <1>2, <1>3, <1>5 DEF gs

\* What an answer brings to the list that waits for it.
LEMMA AnswerListed ==
  ASSUME IsScope(scope), NEW l, IsListing(l), NEW a \in AsksOf(scope.kase, scope.page, filters), a.who = "page", a.alive,
         a.answer # {}, AtRest(scope, l, filters)
  PROVE  IsListing(Listed(l, a)) /\ AtRest(scope, Listed(l, a), filters)
<1> DEFINE m == Listed(l, a)
<1>1. a \in Asking /\ ForPage(a, scope.kase, scope.page, filters)
  BY DEF AsksOf
<1>2. CASE a.answer = {Failure} /\ a.what = "search"
  <2> DEFINE yes == TRUE
             no == FALSE
             e == [l EXCEPT !.loading = no, !.error = yes]
  <2>1. m = e /\ yes
    BY <1>2 DEF Listed
  <2> HIDE DEF yes, no, m
  <2>2. DOMAIN e = DOMAIN l /\ e.rows = l.rows /\ e.error = yes
    BY DEF IsListing
  <2> HIDE DEF e
  <2>3. IsListing(e) /\ AtRest(scope, e, filters)
    BY <2>1, <2>2 DEF IsListing, AtRest
  <2> QED BY <2>1, <2>3 DEF m
<1>3. CASE a.answer = {Failure} /\ a.what # "search"
  <2>1. m = l \/ m = [l EXCEPT !.bars = {}]
    BY <1>3 DEF Listed
  <2> HIDE DEF m
  <2>2. /\ {"rows", "loading", "error", "asOf"} \subseteq DOMAIN m
        /\ m.rows = l.rows /\ m.loading = l.loading /\ m.error = l.error /\ m.asOf = l.asOf
    BY <2>1 DEF IsListing
  <2>3. IsListing(m) /\ AtRest(scope, m, filters)
    BY <2>2, SameList
  <2> QED BY <2>3 DEF m
<1>4. CASE a.answer # {Failure}
  <2>1. PICK n \in 1 .. Len(RowsIn[a.kase]) : a.answer = {AnswerAt(a, n)}
    BY <1>1, <1>4 DEF Asking, Answerable
  <2> DEFINE got == AnswerAt(a, n)
             bars == IF scope.page = "timeline" THEN l.bars \cup {<<a.page, got.value>>} ELSE {<<a.page, got.value>>}
             no == FALSE
             found == [l EXCEPT !.rows = got.value.rows, !.truncated = got.value.truncated, !.sampled = got.value.sampled,
                                !.loading = no, !.asOf = got.asOf]
  <2>2. (CHOOSE x \in a.answer : TRUE) = got
    BY <2>1
  <2>3. m = CASE a.what = "search" -> found
              [] a.what = "count" -> [l EXCEPT !.total = got.value]
              [] a.what = "stack" -> [l EXCEPT !.stack = got.value.rows]
              [] OTHER -> [l EXCEPT !.bars = bars]
    BY <1>4, <2>2 DEF Listed
  <2> HIDE DEF m, bars
  <2>4. CASE a.what = "search"
    <3>1. got.asOf = n /\ Best(got.value.rows, Matches(a.kase, a.page, n, a.filter), a.filter.sort)
      BY <1>1, <2>4, SearchIs
    <3>2. scope.page \in Lists /\ a.page = scope.page /\ a.kase = scope.kase /\ a.filter = filters[scope.page]
      BY <1>1, <2>4 DEF ForPage
    <3> DEFINE all == Matches(a.kase, a.page, n, a.filter)
    <3>3. \A r \in all : r.id \in Int
      <4>1. a.kase \in Books /\ a.page \in Lists
        BY <1>1 DEF Asking
      <4>2. IsRows(RowsNow(a.kase, a.page, n), Sortable)
        BY <4>1, RowsAssumption DEF RowsNow
      <4> QED BY <4>2 DEF IsRows, Matches
    <3> HIDE DEF all, got
    <3>4. \A k \in DOMAIN got.value.rows : got.value.rows[k].id \in Int
      BY <3>1, <3>3 DEF Best, all
    <3>5. m = found
      BY <2>3, <2>4
    <3>6. DOMAIN found = DOMAIN l /\ found.rows = got.value.rows /\ found.asOf = got.asOf
      BY DEF IsListing
    <3> HIDE DEF found
    <3>7. IsListing(m)
      BY <3>4, <3>5, <3>6 DEF IsListing
    <3>8. m.asOf \in 1 .. Len(RowsIn[scope.kase])
          /\ Best(m.rows, Matches(scope.kase, scope.page, m.asOf, filters[scope.page]), filters[scope.page].sort)
      BY <3>1, <3>2, <3>5, <3>6
    <3>9. AtRest(scope, m, filters)
      BY <3>8 DEF AtRest
    <3> QED BY <3>7, <3>9 DEF m
  <2>5. CASE a.what # "search"
    <3>1. m = [l EXCEPT !.total = got.value] \/ m = [l EXCEPT !.stack = got.value.rows] \/ m = [l EXCEPT !.bars = bars]
      BY <2>3, <2>5
    <3> HIDE DEF got
    <3>2. /\ {"rows", "loading", "error", "asOf"} \subseteq DOMAIN m
          /\ m.rows = l.rows /\ m.loading = l.loading /\ m.error = l.error /\ m.asOf = l.asOf
      BY <3>1 DEF IsListing
    <3>3. IsListing(m) /\ AtRest(scope, m, filters)
      BY <3>2, SameList
    <3> QED BY <3>3 DEF m
  <2> QED BY <2>4, <2>5
<1> QED BY <1>2, <1>3, <1>4

-----------------------------------------------------------------------------
(* Every action keeps it *)

\* It holds when a case is opened.
LEMMA ExploreStarts == ExploreInit => ExploreInv
<1> SUFFICES ASSUME ExploreInit PROVE ExploreInv
  OBVIOUS
<1>1. PICK k \in Books : scope = [kase |-> k, page |-> "other", opened |-> {}]
  BY DEF ExploreInit
<1>2. IsScope(scope) /\ scope.page = "other"
  BY <1>1 DEF IsScope, Pages
<1>3. IsContent(content)
  BY RowsAssumption DEF ExploreInit, IsContent
<1>4. filters \in [Lists -> Lookups]
  BY NewestIs DEF ExploreInit
<1>5. IsListing(list)
  BY EmptyIs DEF ExploreInit
<1>6. IsPanel(panel)
  BY DEF ExploreInit, NoPanel, IsPanel
<1>7. asks \in Seq(AsksOf(scope.kase, scope.page, filters)) /\ direct = {}
  BY DEF ExploreInit
<1>8. marks = <<>>
  BY DEF ExploreInit
<1>9. \A m \in DOMAIN marks : m[3] \in Int
  BY <1>8
<1>10. AtRest(scope, list, filters)
  BY <1>2 DEF AtRest, Lists
<1> QED BY <1>2, <1>3, <1>4, <1>5, <1>6, <1>7, <1>9, <1>10 DEF ExploreInv

\* An answer comes to a query.
LEMMA AnswerKeeps ==
  ASSUME ExploreInv, NEW i \in DOMAIN asks, NEW x, Answered(i, x), x = Failure \/ x = AnswerOf(asks[i]),
         UNCHANGED <<scope, content, filters, list, panel, direct, marks>>
  PROVE  ExploreInv'
<1> DEFINE T == AsksOf(scope.kase, scope.page, filters)
           a == asks[i]
           z == {x}
           b == [a EXCEPT !.answer = z]
<1>1. asks \in Seq(T)
  BY DEF ExploreInv
<1>2. DOMAIN asks = 1 .. Len(asks) /\ a \in T /\ a \in Asking
  BY <1>1 DEF AsksOf
<1>3. x = Failure \/ \E n \in 1 .. Len(RowsIn[a.kase]) : x = AnswerAt(a, n)
  <2>1. a.kase \in Books
    BY <1>2 DEF Asking
  <2>2. content[a.kase] \in 1 .. Len(RowsIn[a.kase])
    BY <2>1 DEF ExploreInv, IsContent
  <2>3. AnswerOf(asks[i]) = AnswerAt(a, content[a.kase])
    BY DEF AnswerOf
  <2> HIDE DEF a
  <2> QED BY <2>2, <2>3
<1> HIDE DEF a
<1>4. b \in T
  <2>1. [a EXCEPT !.answer = {x}] \in AsksOf(scope.kase, scope.page, filters)
    BY <1>2, <1>3, AnsweredIs
  <2> QED BY <2>1
<1>5. asks' = [asks EXCEPT ![i].answer = z]
  BY DEF Answered
<1> HIDE DEF z
<1>6. asks' = [asks EXCEPT ![i] = b]
  BY <1>5 DEF a
<1> HIDE DEF b, T
<1>7. asks' \in Seq(T)
  BY <1>1, <1>2, <1>4, <1>6
<1> QED BY <1>7 DEF ExploreInv, T, IsContent

\* An answer arrives at the page, which takes it if it still waits for it.
LEMMA ArriveKeeps ==
  ASSUME ExploreInv, Arrive
  PROVE  ExploreInv'
<1> DEFINE T == AsksOf(scope.kase, scope.page, filters)
<1>1. PICK i \in DOMAIN asks :
        /\ asks[i].who = "page" /\ asks[i].answer # {}
        /\ asks' = RemoveAt(asks, i)
        /\ list' = IF Wanted(asks[i]) THEN Listed(list, asks[i]) ELSE list
        /\ direct' = IF scope.page = "events" /\ list'.rows # list.rows THEN ReadsOf(scope.kase, list', FALSE) ELSE direct
        /\ UNCHANGED <<scope, content, filters, panel, marks, acts, aside>>
  BY DEF Arrive
<1>2. asks \in Seq(T) /\ IsScope(scope) /\ IsListing(list) /\ AtRest(scope, list, filters)
  BY DEF ExploreInv
<1>3. asks[i] \in T
  BY <1>2
<1>4. IsListing(list') /\ AtRest(scope, list', filters)
  <2>1. CASE asks[i].alive
    <3>1. list' = Listed(list, asks[i])
      BY <1>1, <2>1 DEF Wanted
    <3> DEFINE a == asks[i]
    <3>2. a \in T /\ a.who = "page" /\ a.alive /\ a.answer # {} /\ list' = Listed(list, a)
      BY <1>1, <1>3, <2>1, <3>1
    <3> HIDE DEF a
    <3> QED BY <1>2, <3>2, AnswerListed
  <2>2. CASE ~asks[i].alive
    BY <1>1, <1>2, <2>2 DEF Wanted
  <2> QED BY <2>1, <2>2
<1>5. \A d \in direct' : d.filter \in Lookups
  BY <1>1, NewestIs DEF ExploreInv, ReadsOf, MarksRead, OnlyRead, DirectRead
<1> HIDE DEF T
<1>6. asks' \in Seq(T)
  BY <1>1, <1>2, RemovedIs
<1> QED BY <1>1, <1>4, <1>5, <1>6 DEF ExploreInv, T

\* A page opens, with the filters it is opened with.
LEMMA OpenPageKeeps ==
  ASSUME ExploreInv, NEW screen \in Pages, NEW fs \in [Lists -> Lookups], NEW others, \A d \in others : d.filter \in Lookups,
         NEW opened, OpenPage(screen, fs, others, opened), IsPanel(panel')
  PROVE  ExploreInv'
<1> DEFINE s == [scope EXCEPT !.page = screen, !.opened = opened]
           k == scope.kase
           gs == filters'
<1>1. IsScope(scope) /\ k \in Books /\ asks \in Seq(Asking)
  BY AsksAre DEF ExploreInv, IsScope
<1>2. scope' = s /\ ShowPage(screen, k, fs, EmptyList)
      /\ direct' = {d \in direct : d.what \notin {"marks", "facet"}} \cup others /\ UNCHANGED <<content, marks, aside>>
  BY DEF OpenPage
<1>3. DOMAIN s = DOMAIN scope /\ s.kase = k /\ s.page = screen
  BY <1>1 DEF IsScope
<1>4. scope'.kase = k /\ scope'.page = screen /\ IsScope(scope')
  BY <1>1, <1>2, <1>3 DEF IsScope
<1> HIDE DEF s, k
<1>5. gs \in [Lists -> Lookups] /\ IsListing(list') /\ list'.loading /\ asks' \in Seq(AsksOf(k, screen, gs))
  BY <1>1, <1>2, EmptyIs, ShowPageIs
<1>6. asks' \in Seq(AsksOf(scope'.kase, scope'.page, filters'))
  BY <1>4, <1>5
<1>7. \A d \in direct' : d.filter \in Lookups
  BY <1>2 DEF ExploreInv
<1>8. AtRest(scope', list', filters')
  BY <1>5 DEF AtRest
<1>9. IsContent(content') /\ \A m \in DOMAIN marks' : m[3] \in Int
  BY <1>2 DEF ExploreInv
<1> QED BY <1>4, <1>5, <1>6, <1>7, <1>8, <1>9 DEF ExploreInv

\* One page's filter replaced, or all of them as they were.
LEMMA FiltersStay ==
  ASSUME NEW fs \in [Lists -> Lookups], NEW screen \in Lists, NEW f \in Lookups
  PROVE  [fs EXCEPT ![screen] = f] \in [Lists -> Lookups]
OBVIOUS

\* A page opens with a filter of its own.
LEMMA OpeningKeeps ==
  ASSUME ExploreInv, NEW screen \in Pages, NEW p \in Lists, NEW f \in Lookups, NEW others, \A d \in others : d.filter \in Lookups,
         NEW opened, OpenPage(screen, [filters EXCEPT ![p] = f], others, opened), IsPanel(panel')
  PROVE  ExploreInv'
<1> DEFINE fs == [filters EXCEPT ![p] = f]
<1>1. fs \in [Lists -> Lookups]
  BY FiltersStay DEF ExploreInv
<1>2. OpenPage(screen, fs, others, opened)
  OBVIOUS
<1> HIDE DEF fs
<1> QED BY <1>1, <1>2, OpenPageKeeps

\* The panel as it was.
LEMMA PanelStays ==
  ASSUME ExploreInv, UNCHANGED panel
  PROVE  IsPanel(panel')
BY DEF ExploreInv

\* The panel closed.
LEMMA NoPanelIs == IsPanel(NoPanel)
BY DEF IsPanel, NoPanel

\* Another page.
LEMMA SetViewKeeps ==
  ASSUME ExploreInv, NEW screen \in Pages, setView(screen)
  PROVE  ExploreInv'
<1>1. OpenPage(screen, filters, {}, {}) /\ UNCHANGED panel /\ filters \in [Lists -> Lookups]
  BY DEF setView, ExploreInv
<1>2. IsPanel(panel')
  BY <1>1, PanelStays
<1> DEFINE none == {}
<1>3. \A d \in none : d.filter \in Lookups
  OBVIOUS
<1>4. OpenPage(screen, filters, none, {})
  BY <1>1
<1> HIDE DEF none
<1> QED BY <1>1, <1>2, <1>3, <1>4, OpenPageKeeps

\* The rows of a finding.
LEMMA OpenRefsKeeps ==
  ASSUME ExploreInv, NEW id \in EventIds, openRefs({id})
  PROVE  ExploreInv'
<1> DEFINE none == {}
           no == FALSE
           f == And(NoFilter([field |-> "ts", desc |-> no]), Where("id", "in", {id}))
           events == "events"
<1>1. scope.kase \in Books /\ content[scope.kase] \in 1 .. Len(RowsIn[scope.kase])
  BY DEF ExploreInv, IsScope, IsContent
<1>2. id \in Int
  <2>1. IsRows(RowsNow(scope.kase, "events", content[scope.kase]), Sortable)
    BY <1>1, RowsAssumption DEF RowsNow, Lists
  <2> QED BY <2>1 DEF EventIds, IsRows
<1>3. f \in Lookups
  <2>1. Where("id", "in", {id}) \in Cond
    BY <1>2, WhereIs, ColumnsAssumption DEF Op
  <2>2. no \in BOOLEAN /\ "ts" \in Columns
    BY ColumnsAssumption
  <2> HIDE DEF no
  <2>3. NoFilter([field |-> "ts", desc |-> no]) \in Lookups
    BY <2>2, NoFilterIs
  <2> QED BY <2>1, <2>3, AndIs
<1>4. OpenPage(events, [filters EXCEPT ![events] = f], none, {id}) /\ UNCHANGED panel
  BY DEF openRefs
<1>5. events \in Pages /\ events \in Lists /\ \A d \in none : d.filter \in Lookups
  BY DEF Pages, Lists
<1>6. IsPanel(panel')
  BY <1>4, PanelStays
<1> HIDE DEF f, none, events
<1> QED BY <1>3, <1>4, <1>5, <1>6, OpeningKeeps

\* The rows of a value.
LEMMA UsePivotKeeps ==
  ASSUME ExploreInv, NEW p \in Facet, usePivot(p.page, p.field, p.value)
  PROVE  ExploreInv'
<1> DEFINE none == {}
           screen == p.page
           f == And(NoFilter(Newest), Where(p.field, "eq", {p.value}))
<1>1. screen \in Lists /\ p.field \in Columns /\ p.value \in Int
  BY PicksAssumption
<1>2. f \in Lookups
  <2>1. Where(p.field, "eq", {p.value}) \in Cond
    BY <1>1, WhereIs DEF Op
  <2> QED BY <2>1, NewestIs, AndIs
<1>3. OpenPage(screen, [filters EXCEPT ![screen] = f], none, {}) /\ UNCHANGED panel
  BY DEF usePivot
<1>4. screen \in Pages /\ \A d \in none : d.filter \in Lookups
  BY <1>1 DEF Pages
<1>5. IsPanel(panel')
  BY <1>3, PanelStays
<1> HIDE DEF f, none, screen
<1> QED BY <1>1, <1>2, <1>3, <1>4, <1>5, OpeningKeeps

\* A range chosen on the timeline.
LEMMA ApplyRangeKeeps ==
  ASSUME ExploreInv, NEW g \in Ranges, NEW screen \in Lists, applyRange(screen, g)
  PROVE  ExploreInv'
<1> DEFINE none == {}
           f == WithRange(filters[screen], g)
<1>1. f \in Lookups
  <2>1. g \in Int \X Int /\ filters[screen] \in Lookups
    BY PicksAssumption DEF ExploreInv
  <2> QED BY <2>1, RangeIs
<1>2. OpenPage(screen, [filters EXCEPT ![screen] = f], none, {}) /\ UNCHANGED panel
  BY DEF applyRange
<1>3. screen \in Pages /\ \A d \in none : d.filter \in Lookups
  BY DEF Pages
<1>4. IsPanel(panel')
  BY <1>2, PanelStays
<1> HIDE DEF f, none
<1> QED BY <1>1, <1>2, <1>3, <1>4, OpeningKeeps

\* A row to show.
LEMMA SetFocusKeeps ==
  ASSUME ExploreInv, NEW screen \in Lists, NEW id, setFocus(screen, id)
  PROVE  ExploreInv'
<1> DEFINE others == {RowRead(scope.kase, screen, id)}
<1>1. OpenPage(screen, filters, others, {}) /\ panel' = NoPanel /\ filters \in [Lists -> Lookups]
  BY DEF setFocus, ExploreInv
<1>2. \A d \in others : d.filter \in Lookups
  BY NewestIs DEF RowRead, DirectRead
<1>3. screen \in Pages /\ IsPanel(panel')
  BY <1>1, NoPanelIs DEF Pages
<1> HIDE DEF others
<1> QED BY <1>1, <1>2, <1>3, OpenPageKeeps

\* The rows of an entity.
LEMMA FilterEntityKeeps ==
  ASSUME ExploreInv, NEW screen \in Lists, filterEntity(screen)
  PROVE  ExploreInv'
<1> DEFINE none == {}
<1>1. PICK e \in panel.entity : \E f \in EntityFilter(e, screen) : OpenPage(screen, [filters EXCEPT ![screen] = f], {}, {})
  BY DEF filterEntity
<1>2. PICK f \in EntityFilter(e, screen) : OpenPage(screen, [filters EXCEPT ![screen] = f], none, {})
  BY <1>1
<1>3. e \in Entities
  BY DEF ExploreInv, IsPanel
<1>4. f \in Lookups
  BY <1>3, EntityFilterIs
<1>5. screen \in Pages /\ IsPanel(panel') /\ \A d \in none : d.filter \in Lookups
  BY NoPanelIs DEF Pages, filterEntity
<1> HIDE DEF none
<1> QED BY <1>2, <1>4, <1>5, OpeningKeeps

\* The page on the screen stays: its case, its rows; it asks again.
LEMMA AskedAgainKeeps ==
  ASSUME ExploreInv, IsScope(scope'), scope'.kase = scope.kase, scope'.page = scope.page, filters' \in [Lists -> Lookups],
         NEW l, IsListing(l), list' = Reading(l), asks' = Stopped(asks, "page") \o PageAsks(scope.page, filters', scope.kase),
         UNCHANGED <<content, panel, marks>>, \A d \in direct' : d.filter \in Lookups
  PROVE  ExploreInv'
<1> DEFINE gs == filters'
           k == scope.kase
           screen == scope.page
<1>1. k \in Books /\ screen \in Pages /\ asks \in Seq(Asking)
  BY AsksAre DEF ExploreInv, IsScope
<1>2. asks' = Stopped(asks, "page") \o PageAsks(screen, gs, k) /\ gs \in [Lists -> Lookups]
  OBVIOUS
<1> HIDE DEF gs, k, screen
<1>3. asks' \in Seq(AsksOf(k, screen, gs))
  BY <1>1, <1>2, AskedAgain
<1>4. IsListing(list') /\ list'.loading
  BY ReadingIs
<1>5. AtRest(scope', list', filters')
  BY <1>4 DEF AtRest
<1>6. asks' \in Seq(AsksOf(scope'.kase, scope'.page, filters'))
  BY <1>3 DEF k, screen, gs
<1>7. IsContent(content') /\ IsPanel(panel') /\ \A m \in DOMAIN marks' : m[3] \in Int
  BY DEF ExploreInv
<1> QED BY <1>4, <1>5, <1>6, <1>7 DEF ExploreInv

\* What the finding opened is forgotten; nothing else of the scope changes.
LEMMA ForgetIs ==
  ASSUME IsScope(scope), NEW s, s = [scope EXCEPT !.opened = {}]
  PROVE  IsScope(s) /\ s.kase = scope.kase /\ s.page = scope.page
<1> DEFINE none == {}
<1>1. s = [scope EXCEPT !.opened = none]
  OBVIOUS
<1> HIDE DEF none
<1>2. DOMAIN s = DOMAIN scope /\ s.kase = scope.kase /\ s.page = scope.page
  BY <1>1 DEF IsScope
<1> QED BY <1>2 DEF IsScope

\* The filter is edited.
LEMMA EditKeeps ==
  ASSUME ExploreInv, scope.page \in Lists, NEW f \in EditsOf(scope.page, filters[scope.page]), Edit(f)
  PROVE  ExploreInv'
<1>1. f \in Lookups
  <2>1. filters[scope.page] \in Lookups
    BY DEF ExploreInv
  <2> QED BY <2>1, EditIs
<1>2. filters' = [filters EXCEPT ![scope.page] = f] /\ filters \in [Lists -> Lookups]
  BY DEF Edit, ExploreInv
<1>3. filters' \in [Lists -> Lookups]
  BY <1>1, <1>2
<1> DEFINE s == scope'
<1>4. s = [scope EXCEPT !.opened = {}] /\ IsScope(scope)
  BY DEF Edit, ExploreInv
<1> HIDE DEF s
<1>5. IsScope(s) /\ s.kase = scope.kase /\ s.page = scope.page
  BY <1>4, ForgetIs
<1>6. /\ IsListing(list) /\ list' = Reading(list)
      /\ asks' = Stopped(asks, "page") \o PageAsks(scope.page, filters', scope.kase)
      /\ UNCHANGED <<content, panel, marks>> /\ \A d \in direct' : d.filter \in Lookups
  BY DEF Edit, ExploreInv
<1> QED BY <1>3, <1>5, <1>6, AskedAgainKeeps DEF s

\* The imports are over.
LEMMA ImportsOverKeeps ==
  ASSUME ExploreInv, ImportsOver
  PROVE  ExploreInv'
<1>1. IsScope(scope') /\ scope'.kase = scope.kase /\ scope'.page = scope.page /\ filters' \in [Lists -> Lookups]
  BY DEF ImportsOver, ExploreInv
<1>2. /\ IsListing(list) /\ list' = Reading(list)
      /\ asks' = Stopped(asks, "page") \o PageAsks(scope.page, filters', scope.kase)
      /\ UNCHANGED <<content, panel, marks>> /\ \A d \in direct' : d.filter \in Lookups
  BY DEF ImportsOver, ExploreInv
<1> QED BY <1>1, <1>2, AskedAgainKeeps

\* Nothing that the page shows or waits for changes.
LEMMA ElsewhereKeeps ==
  ASSUME ExploreInv, UNCHANGED <<scope, filters, asks>>, IsContent(content'), IsPanel(panel'), \A d \in direct' : d.filter \in Lookups,
         \A m \in DOMAIN marks' : m[3] \in Int, IsListing(list'), AtRest(scope, list', filters)
  PROVE  ExploreInv'
BY DEF ExploreInv

\* An import brings rows: what is shown is of what was there when it was read.
LEMMA BatchKeeps ==
  ASSUME ExploreInv, NEW k \in Books, Batch(k)
  PROVE  ExploreInv'
<1>1. content' = [content EXCEPT ![k] = content[k] + 1] /\ content[k] < Len(RowsIn[k]) /\ IsContent(content)
  BY DEF Batch, ExploreInv
<1>2. \A c \in Books : content[c] \in 1 .. Len(RowsIn[c]) /\ Len(RowsIn[c]) \in Nat
  BY <1>1, RowsAssumption DEF IsContent
<1>3. DOMAIN content = Books
  BY <1>1 DEF IsContent
<1>4. \A c \in Books : content'[c] = IF c = k THEN content[k] + 1 ELSE content[c]
  BY <1>1, <1>3
<1>5. \A c \in Books : content'[c] \in 1 .. Len(RowsIn[c])
  BY <1>1, <1>2, <1>4
<1>6. content' = [c \in Books |-> content'[c]]
  BY <1>1, <1>3
<1>7. IsContent(content')
  BY <1>5, <1>6 DEF IsContent
<1> QED BY <1>7, ElsewhereKeeps DEF Batch, ExploreInv

\* The values of a field are stacked.
LEMMA StackKeeps ==
  ASSUME ExploreInv, stack
  PROVE  ExploreInv'
<1> DEFINE T == AsksOf(scope.kase, scope.page, filters)
           screen == "events"
           q == Query("page", "stack", screen, filters[screen], scope.kase)
<1>1. screen \in Lists /\ filters[screen] \in Lookups /\ scope.kase \in Books /\ asks \in Seq(T)
  BY DEF ExploreInv, IsScope, Lists
<1>2. asks' = Append(asks, q) /\ UNCHANGED <<scope, content, filters, list, panel, direct, marks>>
  BY DEF stack
<1>3. q.what = "stack"
  BY DEF Query
<1>4. q \in Asking
  <2> DEFINE f == filters[screen]
             k == scope.kase
  <2>1. f \in Lookups /\ k \in Books /\ "stack" \in What
    BY <1>1 DEF What
  <2>2. Query("page", "stack", screen, f, k) \in Asking
    <3> HIDE DEF f, k
    <3> QED BY <1>1, <2>1, QueryIs
  <2> QED BY <2>2
<1> HIDE DEF q
<1>5. q \in T
  BY <1>3, <1>4 DEF AsksOf, ForPage
<1> HIDE DEF T
<1>6. asks' \in Seq(T)
  BY <1>1, <1>2, <1>5, AppendProperties
<1> QED BY <1>2, <1>6 DEF ExploreInv, T

\* A filter asked of the model: the answer is sorted as the page's was.
LEMMA AskedIs ==
  ASSUME NEW f \in Lookups, NEW g \in Asked
  PROVE  AskedFilter(f, g) \in Lookups
<1> DEFINE sort == f.sort
<1>1. sort \in [field : Columns, desc : BOOLEAN] /\ sort.field \in {"ts"} \cup Sortable /\ g \in Filter
  BY PicksAssumption DEF Lookups, Filter
<1>2. AskedFilter(f, g) = [g EXCEPT !.sort = sort]
  BY DEF AskedFilter
<1> HIDE DEF sort
<1> QED BY <1>1, <1>2 DEF Lookups, Filter

\* A filter is asked of the model.
LEMMA AskFilterKeeps ==
  ASSUME ExploreInv, askFilter
  PROVE  ExploreInv'
<1> DEFINE f == filters["events"]
           d == [DirectRead("asked", scope.kase, {}) EXCEPT !.filter = f]
<1>1. f \in Lookups
  BY DEF ExploreInv, Lists
<1>2. d.filter = f
  BY DEF DirectRead
<1>3. direct' = direct \cup {d} /\ UNCHANGED <<scope, content, filters, list, panel, asks, marks>>
  BY DEF askFilter
<1> HIDE DEF d, f
<1>4. \A c \in direct' : c.filter \in Lookups
  BY <1>1, <1>2, <1>3 DEF ExploreInv
<1> QED BY <1>3, <1>4, ElsewhereKeeps DEF ExploreInv

\* It arrives, on whatever page the analyst is by then.
LEMMA FilterArrivesKeeps ==
  ASSUME ExploreInv, FilterArrives
  PROVE  ExploreInv'
<1>1. PICK d \in direct, f \in Asked :
        /\ direct' = direct \ {d} /\ filters' = [filters EXCEPT !["events"] = AskedFilter(d.filter, f)]
        /\ IF scope.page = "events"
           THEN list' = Reading(list) /\ asks' = Stopped(asks, "page") \o PageAsks("events", filters', scope.kase)
           ELSE UNCHANGED <<list, asks>>
        /\ scope' = [scope EXCEPT !.opened = {}]
        /\ UNCHANGED <<content, panel, marks, aside, acts>>
  BY DEF FilterArrives
<1> DEFINE g == AskedFilter(d.filter, f)
           s == scope'
<1>2. g \in Lookups
  <2>1. d.filter \in Lookups
    BY DEF ExploreInv
  <2> QED BY <2>1, AskedIs
<1>3. filters' = [filters EXCEPT !["events"] = g] /\ filters \in [Lists -> Lookups]
  BY <1>1 DEF ExploreInv
<1> HIDE DEF g
<1>4. filters' \in [Lists -> Lookups] /\ filters'["mails"] = filters["mails"]
  BY <1>2, <1>3 DEF Lists
<1>5. s = [scope EXCEPT !.opened = {}] /\ IsScope(scope)
  BY <1>1 DEF ExploreInv
<1> HIDE DEF s
<1>6. IsScope(s) /\ s.kase = scope.kase /\ s.page = scope.page
  BY <1>5, ForgetIs
<1>7. \A c \in direct' : c.filter \in Lookups
  BY <1>1 DEF ExploreInv
<1>8. CASE scope.page = "events"
  <2>1. /\ IsListing(list) /\ list' = Reading(list)
        /\ asks' = Stopped(asks, "page") \o PageAsks(scope.page, filters', scope.kase)
    BY <1>1, <1>8 DEF ExploreInv
  <2>2. UNCHANGED <<content, panel, marks>>
    BY <1>1
  <2> QED BY <1>4, <1>6, <1>7, <2>1, <2>2, AskedAgainKeeps DEF s
<1>9. CASE scope.page # "events"
  <2> DEFINE T == AsksOf(scope.kase, scope.page, filters)
             U == AsksOf(s.kase, s.page, filters')
  <2>1. UNCHANGED <<list, asks, content, panel, marks>>
    BY <1>1, <1>9
  <2>2. scope.page \in Lists => filters'[scope.page] = filters[scope.page]
    BY <1>4, <1>9 DEF Lists
  <2>3. T \in SUBSET U
    BY <1>6, <2>2 DEF AsksOf, ForPage
  <2>4. asks \in Seq(T)
    BY DEF ExploreInv
  <2> HIDE DEF T, U
  <2>5. asks' \in Seq(U)
    BY <2>1, <2>3, <2>4
  <2>6. AtRest(s, list, filters')
    BY <1>6, <2>2 DEF ExploreInv, AtRest
  <2>7. IsContent(content') /\ IsListing(list') /\ IsPanel(panel') /\ \A m \in DOMAIN marks' : m[3] \in Int
    BY <2>1 DEF ExploreInv
  <2> QED BY <1>4, <1>6, <1>7, <2>1, <2>5, <2>6, <2>7 DEF ExploreInv, s, U
<1> QED BY <1>8, <1>9

\* What the page also reads.
LEMMA AskAsideKeeps ==
  ASSUME ExploreInv, NEW what, NEW texts, askAside(what, texts)
  PROVE  ExploreInv'
<1> DEFINE a == AsideRead(what, texts)
           fe == filters["events"]
<1>1. fe \in Lookups
  BY DEF ExploreInv, Lists
<1>2. a.filter = IF what = "export" THEN fe ELSE NoFilter(Newest)
  BY DEF AsideRead
<1> HIDE DEF fe
<1>3. a.filter \in Lookups
  BY <1>1, <1>2, NewestIs
<1>4. /\ direct' = {d \in direct : d.what # what \/ what = "export"} \cup {a}
      /\ UNCHANGED <<scope, content, filters, list, panel, asks, marks>>
  BY DEF askAside
<1> HIDE DEF a
<1>5. \A d \in direct' : d.filter \in Lookups
  BY <1>3, <1>4 DEF ExploreInv
<1> QED BY <1>4, <1>5, ElsewhereKeeps DEF ExploreInv

\* What it also read.
LEMMA AsideArrivesKeeps ==
  ASSUME ExploreInv, AsideArrives
  PROVE  ExploreInv'
<1>1. direct' \in SUBSET direct /\ UNCHANGED <<scope, content, filters, list, panel, asks, marks>>
  BY DEF AsideArrives
<1>2. \A d \in direct' : d.filter \in Lookups
  BY <1>1 DEF ExploreInv
<1> QED BY <1>1, <1>2, ElsewhereKeeps DEF ExploreInv

\* Rows are picked.
LEMMA PickKeeps ==
  ASSUME ExploreInv, NEW ids, Pick(ids)
  PROVE  ExploreInv'
<1> DEFINE l == list'
<1>1. l = [list EXCEPT !.picked = ids] /\ UNCHANGED <<scope, content, filters, panel, asks, direct, marks>>
  BY DEF Pick
<1>2. IsListing(list) /\ AtRest(scope, list, filters)
  BY DEF ExploreInv
<1> HIDE DEF l
<1>3. {"rows", "loading", "error", "asOf"} \subseteq DOMAIN l /\ l.rows = list.rows /\ l.loading = list.loading
      /\ l.error = list.error /\ l.asOf = list.asOf
  BY <1>1, <1>2 DEF IsListing
<1>4. IsListing(l) /\ AtRest(scope, l, filters)
  BY <1>2, <1>3, SameList
<1>5. IsListing(list') /\ AtRest(scope, list', filters')
  BY <1>1, <1>4 DEF l
<1> QED BY <1>1, <1>5, ElsewhereKeeps DEF ExploreInv

\* The marks of a case change, and the reads that follow: the page asks again.
LEMMA ReadsAre ==
  ASSUME ExploreInv, NEW k, NEW l, NEW only
  PROVE  \A d \in ReadsOf(k, l, only) : d.filter \in Lookups
BY NewestIs DEF ExploreInv, ReadsOf, MarksRead, OnlyRead, DirectRead

\* The rows picked are marked.
LEMMA MarkingKeeps ==
  ASSUME ExploreInv, NEW new, Marking(new), DOMAIN new \in SUBSET (DOMAIN marks \cup PickedRows)
  PROVE  ExploreInv'
<1> DEFINE screen == "events"
           k == scope.kase
           gs == filters'
<1>1. k \in Books /\ screen \in Pages /\ asks \in Seq(Asking) /\ filters \in [Lists -> Lookups] /\ IsListing(list)
  BY AsksAre DEF ExploreInv, IsScope, Pages, Lists
<1>2. /\ scope.page = screen /\ marks' = new /\ ShowPage(screen, k, filters, list)
      /\ direct' = ReadsOf(k, list, list.only) /\ UNCHANGED <<scope, content, panel, aside>>
  BY DEF Marking
<1>3. \A m \in PickedRows : m[3] \in Int
  BY <1>1 DEF PickedRows, IsListing, ToSet
<1>4. \A m \in DOMAIN marks' : m[3] \in Int
  BY <1>2, <1>3 DEF ExploreInv
<1> HIDE DEF screen, k
<1>5. gs \in [Lists -> Lookups] /\ IsListing(list') /\ list'.loading /\ asks' \in Seq(AsksOf(k, screen, gs))
  BY <1>1, <1>2, ShowPageIs
<1>6. \A d \in direct' : d.filter \in Lookups
  BY <1>2, ReadsAre
<1>7. IsScope(scope') /\ IsContent(content') /\ IsPanel(panel')
  BY <1>2 DEF ExploreInv
<1>8. AtRest(scope', list', filters')
  BY <1>5 DEF AtRest
<1>9. asks' \in Seq(AsksOf(scope'.kase, scope'.page, filters'))
  BY <1>2, <1>5 DEF k
<1> QED BY <1>4, <1>5, <1>6, <1>7, <1>8, <1>9 DEF ExploreInv

\* A verdict, a tag, or no mark any more.
LEMMA MarksKeep ==
  ASSUME ExploreInv, NEW x, markRows(x) \/ addTag(x) \/ clearRowMarks
  PROVE  ExploreInv'
<1>1. ASSUME markRows(x) PROVE ExploreInv'
  <2> DEFINE new == [m \in DOMAIN marks \cup PickedRows |->
                       IF m \in PickedRows THEN [verdict |-> x, tags |-> IF m \in DOMAIN marks THEN marks[m].tags ELSE {}]
                       ELSE marks[m]]
  <2>1. Marking(new) /\ DOMAIN new \in SUBSET (DOMAIN marks \cup PickedRows)
    BY <1>1 DEF markRows
  <2> HIDE DEF new
  <2> QED BY <2>1, MarkingKeeps
<1>2. ASSUME addTag(x) PROVE ExploreInv'
  <2> DEFINE new == [m \in DOMAIN marks \cup PickedRows |->
                       LET old == IF m \in DOMAIN marks THEN marks[m] ELSE [verdict |-> "relevant", tags |-> {}]
                       IN  IF m \in PickedRows THEN [old EXCEPT !.tags = @ \cup {x}] ELSE old]
  <2>1. Marking(new) /\ DOMAIN new \in SUBSET (DOMAIN marks \cup PickedRows)
    BY <1>2 DEF addTag
  <2> HIDE DEF new
  <2> QED BY <2>1, MarkingKeeps
<1>3. ASSUME clearRowMarks PROVE ExploreInv'
  <2> DEFINE new == [m \in DOMAIN marks \ PickedRows |-> marks[m]]
  <2>1. Marking(new) /\ DOMAIN new \in SUBSET (DOMAIN marks \cup PickedRows)
    BY <1>3 DEF clearRowMarks
  <2> HIDE DEF new
  <2> QED BY <2>1, MarkingKeeps
<1> QED BY <1>1, <1>2, <1>3

\* "Marked only" is switched.
LEMMA MarkedOnlyKeeps ==
  ASSUME ExploreInv, setMarkedOnly
  PROVE  ExploreInv'
<1> DEFINE screen == "events"
           k == scope.kase
           gs == filters'
           s == scope'
           only == ~list.only
           l == [list EXCEPT !.only = only]
<1>1. k \in Books /\ screen \in Pages /\ asks \in Seq(Asking) /\ filters \in [Lists -> Lookups] /\ IsListing(list)
  BY AsksAre DEF ExploreInv, IsScope, Pages, Lists
<1>2. /\ scope.page = screen /\ s = [scope EXCEPT !.opened = {}] /\ ShowPage(screen, k, filters, l)
      /\ direct' = (IF l.only THEN direct \cup {OnlyRead(k)} ELSE direct) /\ UNCHANGED <<content, panel, marks, aside>>
  BY DEF setMarkedOnly
<1> HIDE DEF screen, k, s, only
<1>3. {"rows", "loading", "error", "asOf"} \subseteq DOMAIN l /\ l.rows = list.rows /\ l.loading = list.loading
      /\ l.error = list.error /\ l.asOf = list.asOf
  BY <1>1 DEF IsListing
<1> HIDE DEF l
<1>4. IsListing(l)
  BY <1>1, <1>3, SameList
<1>5. gs \in [Lists -> Lookups] /\ IsListing(list') /\ list'.loading /\ asks' \in Seq(AsksOf(k, screen, gs))
  BY <1>1, <1>2, <1>4, ShowPageIs
<1>6. \A d \in direct' : d.filter \in Lookups
  BY <1>2, NewestIs DEF ExploreInv, OnlyRead, DirectRead
<1>7. IsScope(scope)
  BY DEF ExploreInv
<1>8. IsScope(s) /\ s.kase = scope.kase /\ s.page = scope.page
  BY <1>2, <1>7, ForgetIs
<1>9. AtRest(scope', list', filters')
  BY <1>5 DEF AtRest
<1>10. asks' \in Seq(AsksOf(scope'.kase, scope'.page, filters'))
  BY <1>2, <1>5, <1>8 DEF k, s
<1>11. IsContent(content') /\ IsPanel(panel') /\ \A m \in DOMAIN marks' : m[3] \in Int
  BY <1>2 DEF ExploreInv
<1> QED BY <1>5, <1>6, <1>8, <1>9, <1>10, <1>11 DEF ExploreInv, s

\* Another read arrives: the marks, the rows that are marked, or a row to show.
LEMMA ReadArrivesKeeps ==
  ASSUME ExploreInv, ReadArrives
  PROVE  ExploreInv'
<1>1. PICK d \in direct :
        /\ direct' = direct \ {d}
        /\ \/ OnlyArrives(d)
           \/ /\ d.what = "only" => scope.page # "events"
              /\ filters' = IF d.what = "only" THEN [filters EXCEPT !["events"] = OnlyIds(@, markedRowIds(d.kase))] ELSE filters
              /\ list' = IF d.what = "marks" /\ scope.page = "events" THEN [list EXCEPT !.marked = loadRowMarks(d.kase, d.rows)]
                         ELSE IF d.what = scope.page THEN [list EXCEPT !.selected = {<<d.kase, d.rows>>}] ELSE list
              /\ UNCHANGED asks
        /\ UNCHANGED <<scope, content, panel, marks, acts, aside>>
  BY DEF ReadArrives
<1> DEFINE ids == markedRowIds(d.kase)
           screen == "events"
           g == OnlyIds(filters[screen], ids)
<1>2. screen \in Lists /\ filters[screen] \in Lookups /\ ids \in SUBSET Int
  BY DEF ExploreInv, Lists, markedRowIds
<1> HIDE DEF ids
<1>3. g \in Lookups
  BY <1>2, OnlyIdsIs
<1>4. filters \in [Lists -> Lookups] /\ [filters EXCEPT ![screen] = g] \in [Lists -> Lookups]
  BY <1>2, <1>3, FiltersStay DEF ExploreInv
<1>5. \A c \in direct' : c.filter \in Lookups
  BY <1>1 DEF ExploreInv
<1>6. ASSUME OnlyArrives(d) PROVE ExploreInv'
  <2>1. /\ scope.page = screen /\ filters' = [filters EXCEPT ![screen] = g]
        /\ list' = Reading(list) /\ asks' = Stopped(asks, "page") \o PageAsks("events", filters', scope.kase)
    BY <1>6 DEF OnlyArrives, ids
  <2>2. IsScope(scope') /\ scope'.kase = scope.kase /\ scope'.page = scope.page /\ filters' \in [Lists -> Lookups]
    BY <1>1, <1>4, <2>1 DEF ExploreInv
  <2>3. /\ IsListing(list) /\ asks' = Stopped(asks, "page") \o PageAsks(scope.page, filters', scope.kase)
        /\ UNCHANGED <<content, panel, marks>>
    BY <1>1, <2>1 DEF ExploreInv
  <2> QED BY <1>5, <2>1, <2>2, <2>3, AskedAgainKeeps
<1>7. ASSUME d.what = "only" => scope.page # "events",
             filters' = (IF d.what = "only" THEN [filters EXCEPT ![screen] = g] ELSE filters),
             list' = (IF d.what = "marks" /\ scope.page = "events" THEN [list EXCEPT !.marked = loadRowMarks(d.kase, d.rows)]
                      ELSE IF d.what = scope.page THEN [list EXCEPT !.selected = {<<d.kase, d.rows>>}] ELSE list),
             UNCHANGED asks
      PROVE  ExploreInv'
  <2> DEFINE l == list'
             gs == filters'
             T == AsksOf(scope.kase, scope.page, filters)
             U == AsksOf(scope.kase, scope.page, gs)
             mk == loadRowMarks(d.kase, d.rows)
             sl == {<<d.kase, d.rows>>}
  <2>1. l = list \/ l = [list EXCEPT !.marked = mk] \/ l = [list EXCEPT !.selected = sl]
    BY <1>7
  <2>2. gs \in [Lists -> Lookups] /\ (scope.page \in Lists => gs[scope.page] = filters[scope.page])
    BY <1>4, <1>7 DEF Lists
  <2> HIDE DEF l, gs, mk, sl
  <2>3. IsListing(list) /\ AtRest(scope, list, filters)
    BY DEF ExploreInv
  <2>4. {"rows", "loading", "error", "asOf"} \subseteq DOMAIN l /\ l.rows = list.rows /\ l.loading = list.loading
        /\ l.error = list.error /\ l.asOf = list.asOf
    BY <2>1, <2>3 DEF IsListing
  <2>5. IsListing(l) /\ AtRest(scope, l, filters)
    BY <2>3, <2>4, SameList
  <2>6. AtRest(scope, l, gs)
    BY <2>2, <2>5 DEF AtRest
  <2>7. T \in SUBSET U
    BY <2>2 DEF AsksOf, ForPage
  <2>8. asks \in Seq(T)
    BY DEF ExploreInv
  <2> HIDE DEF T, U
  <2>9. asks' \in Seq(U)
    BY <1>7, <2>7, <2>8
  <2>10. asks' \in Seq(AsksOf(scope'.kase, scope'.page, filters'))
    BY <1>1, <2>9 DEF U, gs
  <2>11. AtRest(scope', list', filters') /\ IsListing(list') /\ filters' \in [Lists -> Lookups]
    BY <1>1, <2>2, <2>5, <2>6 DEF l, gs
  <2>12. IsScope(scope') /\ IsContent(content') /\ IsPanel(panel') /\ \A m \in DOMAIN marks' : m[3] \in Int
    BY <1>1 DEF ExploreInv
  <2> QED BY <1>5, <2>10, <2>11, <2>12 DEF ExploreInv
<1>8. OnlyArrives(d) \/ ~OnlyArrives(d)
  OBVIOUS
<1>9. CASE ~OnlyArrives(d)
  <2>1. /\ d.what = "only" => scope.page # "events"
        /\ filters' = IF d.what = "only" THEN [filters EXCEPT ![screen] = g] ELSE filters
        /\ list' = IF d.what = "marks" /\ scope.page = "events" THEN [list EXCEPT !.marked = loadRowMarks(d.kase, d.rows)]
                   ELSE IF d.what = scope.page THEN [list EXCEPT !.selected = {<<d.kase, d.rows>>}] ELSE list
        /\ UNCHANGED asks
    BY <1>1, <1>9 DEF ids
  <2> QED BY <1>7, <2>1
<1> QED BY <1>6, <1>8, <1>9

\* The panel opens, closes, or asks for more: what the page waits for stays.
LEMMA PanelKeeps ==
  ASSUME ExploreInv, UNCHANGED <<scope, content, filters, list, direct, marks>>, IsPanel(panel'),
         asks' \in Seq(AsksOf(scope.kase, scope.page, filters))
  PROVE  ExploreInv'
BY DEF ExploreInv

\* The panel of an entity, as it opens.
LEMMA OpeningIs ==
  ASSUME NEW e, e \subseteq Entities, e # {}
  PROVE  IsPanel(Opening(e))
<1> DEFINE stage == "rows"
           found == panel.found
           p == [NoPanel EXCEPT !.entity = e, !.stage = stage, !.found = found]
<1>1. Opening(e) = p /\ {"entity", "stage"} \subseteq DOMAIN NoPanel
  BY DEF Opening, NoPanel
<1> HIDE DEF stage, found
<1>2. {"entity", "stage"} \subseteq DOMAIN p /\ p.entity = e
  BY <1>1
<1> HIDE DEF p
<1> QED BY <1>1, <1>2 DEF IsPanel

\* The panel opens.
LEMMA SetEntityKeeps ==
  ASSUME ExploreInv, NEW e \in Entities, setEntity(e)
  PROVE  ExploreInv'
<1> DEFINE T == AsksOf(scope.kase, scope.page, filters)
           stopped == Stopped(asks, "panel")
           more == EntityAsks(e, "search", scope.kase)
           k == scope.kase
<1>1. stopped \in Seq(T)
  BY PanelStopped DEF ExploreInv
<1>2. k \in Books /\ "search" \in What
  BY DEF ExploreInv, IsScope, What
<1>3. more \in Seq(T)
  <2>1. EntityAsks(e, "search", k) \in Seq(AsksOf(scope.kase, scope.page, filters))
    <3> HIDE DEF k
    <3> QED BY <1>2, EntityAsksIs
  <2> QED BY <2>1
<1>4. asks' = stopped \o more /\ panel' = Opening({e}) /\ UNCHANGED <<scope, content, filters, list, direct, marks>>
  BY DEF setEntity
<1> HIDE DEF stopped, more, T
<1>5. asks' \in Seq(T)
  BY <1>1, <1>3, <1>4, ConcatProperties
<1>6. IsPanel(panel')
  BY <1>4, OpeningIs
<1> QED BY <1>4, <1>5, <1>6, PanelKeeps DEF T

\* The panel closes.
LEMMA CloseEntityKeeps ==
  ASSUME ExploreInv, closeEntity
  PROVE  ExploreInv'
<1>1. Stopped(asks, "panel") \in Seq(AsksOf(scope.kase, scope.page, filters))
  BY PanelStopped DEF ExploreInv
<1>2. asks' = Stopped(asks, "panel") /\ panel' = NoPanel /\ UNCHANGED <<scope, content, filters, list, direct, marks>>
  BY DEF closeEntity
<1>3. IsPanel(panel')
  BY <1>2, NoPanelIs
<1> QED BY <1>1, <1>2, <1>3, PanelKeeps

\* The panel has its answers and asks for what comes next.
LEMMA EntityArrivesKeeps ==
  ASSUME ExploreInv, EntityArrives
  PROVE  ExploreInv'
<1> DEFINE T == AsksOf(scope.kase, scope.page, filters)
           places == {i \in DOMAIN asks : asks[i].who # "panel"}
           rest == Kept(asks, places)
           k == scope.kase
<1>1. asks \in Seq(T) /\ k \in Books /\ IsPanel(panel) /\ {"count", "host"} \subseteq What
  BY DEF ExploreInv, IsScope, What
<1>2. UNCHANGED <<scope, content, filters, list, direct, marks>>
  BY DEF EntityArrives
<1>3. PICK e \in panel.entity, q \in {OfPanel(asks)}, kept \in {Kept(asks, {i \in DOMAIN asks : asks[i].who # "panel"})} :
        \/ /\ panel.stage = "rows"
           /\ panel' = [panel EXCEPT !.stage = "counts", !.events = Values(q, "events"), !.mails = Values(q, "mails"),
                                     !.found = {f \in FoundIn[scope.kase] : e.value \in f.entities}]
           /\ asks' = kept \o EntityAsks(e, "count", scope.kase)
        \/ /\ panel.stage = "counts"
           /\ panel' = [panel EXCEPT !.stage = "groups", !.counts = {<<a.page, a.answer>> : a \in ToSet(q)}]
           /\ \E more \in {EntityAsks(e, "host", scope.kase)} :
                  asks' = kept \o Kept(more, {i \in DOMAIN more : more[i].page = "events"})
        \/ /\ panel.stage = "groups" /\ asks' = kept
           /\ panel' = [panel EXCEPT !.stage = "done", !.groups = UNION {a.answer : a \in ToSet(q)}]
  BY DEF EntityArrives
<1>4. kept = rest
  OBVIOUS
<1>5. rest \in Seq(T)
  <2> HIDE DEF T
  <2> QED BY <1>1, KeptIs
<1> HIDE DEF rest
<1>6. e \in Entities
  BY <1>1 DEF IsPanel
<1> DEFINE counts == EntityAsks(e, "count", k)
           hosts == EntityAsks(e, "host", k)
           some == Kept(hosts, {i \in DOMAIN hosts : hosts[i].page = "events"})
<1>7. counts \in Seq(T) /\ hosts \in Seq(T)
  <2>1. \A what \in What : EntityAsks(e, what, k) \in Seq(AsksOf(scope.kase, scope.page, filters))
    <3> HIDE DEF k
    <3> QED BY <1>1, <1>6, EntityAsksIs
  <2> QED BY <1>1, <2>1
<1> HIDE DEF T
<1>8. some \in Seq(T)
  <2> HIDE DEF hosts
  <2> QED BY <1>7, KeptIs
<1>9. asks' = rest \o counts \/ asks' = rest \o some \/ asks' = rest
  BY <1>3, <1>4
<1> HIDE DEF counts, some
<1>10. asks' \in Seq(T)
  BY <1>5, <1>7, <1>8, <1>9, ConcatProperties
<1>11. IsPanel(panel')
  <2> DEFINE n == panel'
             c == "counts"
             g == "groups"
             o == "done"
             ve == Values(q, "events")
             vm == Values(q, "mails")
             ff == {f \in FoundIn[scope.kase] : e.value \in f.entities}
             vc == {<<a.page, a.answer>> : a \in ToSet(q)}
             vg == UNION {a.answer : a \in ToSet(q)}
  <2>1. \/ n = [panel EXCEPT !.stage = c, !.events = ve, !.mails = vm, !.found = ff]
        \/ n = [panel EXCEPT !.stage = g, !.counts = vc]
        \/ n = [panel EXCEPT !.stage = o, !.groups = vg]
    BY <1>3
  <2> HIDE DEF n, c, g, o, ve, vm, ff, vc, vg
  <2>2. DOMAIN n = DOMAIN panel /\ n.entity = panel.entity
    BY <1>1, <2>1 DEF IsPanel
  <2>3. n.entity \subseteq Entities /\ n.entity # {} /\ {"entity", "stage"} \subseteq DOMAIN n
    BY <1>1, <1>3, <2>2 DEF IsPanel
  <2>4. IsPanel(n)
    BY <2>3 DEF IsPanel
  <2> QED BY <2>4 DEF n
<1> QED BY <1>2, <1>10, <1>11, PanelKeeps DEF T

\* Another case: the page and the panel ask again, of the case they are in now.
LEMMA SwitchKeeps ==
  ASSUME ExploreInv, NEW k \in Books, switchCase(k)
  PROVE  ExploreInv'
<1> DEFINE none == {}
           s == [scope EXCEPT !.kase = k, !.opened = none]
           screen == scope.page
           fs == filters'
           T == AsksOf(k, screen, fs)
           stopped == Stopped(Stopped(asks, "page"), "panel")
           asked == PageAsks(screen, fs, k)
           e == CHOOSE e \in panel.entity : TRUE
           more == IF panel.stage = "closed" THEN <<>> ELSE EntityAsks(e, "search", k)
           from == IF screen = "mails" THEN [list EXCEPT !.selected = none] ELSE list
<1>1. /\ scope' = s /\ fs = MarkedEffect(screen, filters, list) /\ list' = Reading(from)
      /\ panel' = IF panel.stage = "closed" THEN panel ELSE Opening(panel.entity)
      /\ asks' = (stopped \o asked) \o more
      /\ direct' = {d \in IF screen = "events" THEN ReadsOf(k, list, list.only) ELSE direct : d.what # "facet"}
      /\ UNCHANGED <<content, marks, aside>>
  BY DEF switchCase
<1>2. IsScope(scope) /\ IsListing(list) /\ IsPanel(panel) /\ asks \in Seq(Asking) /\ screen \in Pages
  BY AsksAre DEF ExploreInv, IsScope
<1> HIDE DEF none, screen
<1>3. DOMAIN s = DOMAIN scope /\ s.kase = k /\ s.page = screen
  BY <1>2 DEF IsScope, screen
<1>4. IsScope(scope') /\ scope'.kase = k /\ scope'.page = screen
  <2> HIDE DEF s
  <2> QED BY <1>1, <1>2, <1>3 DEF IsScope
<1>5. fs \in [Lists -> Lookups]
  <2>1. filters \in [Lists -> Lookups]
    BY DEF ExploreInv
  <2> QED BY <1>1, <2>1, EffectIs
<1>6. IsListing(from)
  <2>1. {"rows", "loading", "error", "asOf"} \subseteq DOMAIN from /\ from.rows = list.rows /\ from.loading = list.loading
        /\ from.error = list.error /\ from.asOf = list.asOf
    BY <1>2 DEF IsListing
  <2> HIDE DEF from
  <2> QED BY <1>2, <2>1, SameList
<1> HIDE DEF from
<1>7. IsListing(list') /\ list'.loading
  BY <1>1, <1>6, ReadingIs
<1>8. IsPanel(panel')
  <2>1. CASE panel.stage = "closed"
    BY <1>1, <1>2, <2>1
  <2>2. CASE panel.stage # "closed"
    <3>1. panel.entity \subseteq Entities /\ panel.entity # {}
      BY <1>2, <2>2 DEF IsPanel
    <3> DEFINE ent == panel.entity
    <3>2. panel' = Opening(ent) /\ ent \subseteq Entities /\ ent # {}
      BY <1>1, <2>2, <3>1
    <3> HIDE DEF ent
    <3> QED BY <3>2, OpeningIs
  <2> QED BY <2>1, <2>2
<1> HIDE DEF fs
<1>9. stopped \in Seq(T)
  <2>1. Stopped(asks, "page") \in Seq(AsksOf(k, screen, fs))
    BY <1>2, PageStopped
  <2> DEFINE q == Stopped(asks, "page")
  <2>2. q \in Seq(AsksOf(k, screen, fs))
    BY <2>1
  <2> HIDE DEF q
  <2>3. Stopped(q, "panel") \in Seq(AsksOf(k, screen, fs))
    BY <2>2, PanelStopped
  <2> QED BY <2>3 DEF q
<1>10. asked \in Seq(T)
  BY <1>2, <1>5, PageAsksIs
<1>11. more \in Seq(T)
  <2>1. CASE panel.stage = "closed"
    BY <2>1
  <2>2. CASE panel.stage # "closed"
    <3>1. e \in Entities /\ "search" \in What
      BY <1>2, <2>2 DEF IsPanel, What
    <3> HIDE DEF e
    <3>2. EntityAsks(e, "search", k) \in Seq(AsksOf(k, screen, fs))
      BY <3>1, EntityAsksIs
    <3> QED BY <2>2, <3>2
  <2> QED BY <2>1, <2>2
<1> HIDE DEF stopped, asked, more, T
<1>12. stopped \o asked \in Seq(T)
  BY <1>9, <1>10, ConcatProperties
<1>13. asks' \in Seq(T)
  BY <1>1, <1>11, <1>12, ConcatProperties
<1>14. asks' \in Seq(AsksOf(scope'.kase, scope'.page, filters'))
  BY <1>4, <1>13 DEF T, fs
<1>15. \A d \in direct' : d.filter \in Lookups
  <2>1. \A d \in ReadsOf(k, list, list.only) : d.filter \in Lookups
    BY ReadsAre
  <2> QED BY <1>1, <2>1 DEF ExploreInv
<1>16. AtRest(scope', list', filters')
  BY <1>7 DEF AtRest
<1>17. IsContent(content') /\ \A m \in DOMAIN marks' : m[3] \in Int
  BY <1>1 DEF ExploreInv
<1> QED BY <1>4, <1>5, <1>7, <1>8, <1>14, <1>15, <1>16, <1>17 DEF ExploreInv, fs

\* Every action keeps it.
LEMMA ExploreStep == ExploreInv /\ [ExploreNext]_exploreVars => ExploreInv'
<1> SUFFICES ASSUME ExploreInv, [ExploreNext]_exploreVars PROVE ExploreInv'
  OBVIOUS
<1>1. CASE UNCHANGED exploreVars
  BY <1>1 DEF exploreVars, ExploreInv
<1>2. CASE Work
  <2>1. PICK i \in Running(asks) : Answered(i, AnswerOf(asks[i])) /\ UNCHANGED <<scope, content, filters, list, panel, direct, marks>>
    BY <1>2 DEF Work
  <2> DEFINE x == AnswerOf(asks[i])
  <2>2. i \in DOMAIN asks /\ Answered(i, x) /\ x = AnswerOf(asks[i])
    BY <2>1 DEF Running, Unanswered
  <2> HIDE DEF x
  <2> QED BY <2>1, <2>2, AnswerKeeps
<1>3. CASE Fail
  <2>1. PICK i \in Running(asks) : Answered(i, Failure) /\ UNCHANGED <<scope, content, filters, list, panel, direct, marks>>
    BY <1>3 DEF Fail
  <2> DEFINE x == Failure
  <2>2. i \in DOMAIN asks /\ Answered(i, x) /\ x = Failure
    BY <2>1 DEF Running, Unanswered
  <2> HIDE DEF x
  <2> QED BY <2>1, <2>2, AnswerKeeps
<1>4. CASE Arrive
  BY <1>4, ArriveKeeps
<1>5. CASE ReadArrives
  BY <1>5, ReadArrivesKeeps
<1>6. CASE AsideArrives \/ \E what, texts : askAside(what, texts)
  BY <1>6, AsideArrivesKeeps, AskAsideKeeps
<1>7. CASE FilterArrives \/ askFilter
  BY <1>7, FilterArrivesKeeps, AskFilterKeeps
<1>8. CASE EntityArrives \/ (\E e \in Entities : setEntity(e)) \/ closeEntity \/ \E p \in Lists : filterEntity(p)
  BY <1>8, EntityArrivesKeeps, SetEntityKeeps, CloseEntityKeeps, FilterEntityKeeps
<1>9. CASE \E screen \in Lists \cup {"timeline", "other"} : setView(screen)
  BY <1>9, SetViewKeeps DEF Pages
<1>10. CASE \E id \in EventIds : openRefs({id}) \/ \E p \in Lists : setFocus(p, id)
  BY <1>10, OpenRefsKeeps, SetFocusKeeps
<1>11. CASE \E p \in {p \in Facet : ~p.negate} : usePivot(p.page, p.field, p.value)
  BY <1>11, UsePivotKeeps
<1>12. CASE \E g \in Ranges, p \in Lists : applyRange(p, g)
  BY <1>12, ApplyRangeKeeps
<1>13. CASE scope.page \in Lists /\ \E f \in EditsOf(scope.page, filters[scope.page]) : Edit(f)
  BY <1>13, EditKeeps
<1>14. CASE \E k \in Books : switchCase(k) \/ Batch(k)
  BY <1>14, SwitchKeeps, BatchKeeps
<1>15. CASE ImportsOver \/ stack \/ setMarkedOnly
  BY <1>15, ImportsOverKeeps, StackKeeps, MarkedOnlyKeeps
<1>16. CASE \E ids : Pick(ids)
  BY <1>16, PickKeeps
<1>17. CASE markRows("relevant") \/ addTag("t") \/ clearRowMarks
  BY <1>17, MarksKeep
<1> QED
  BY <1>1, <1>2, <1>3, <1>4, <1>5, <1>6, <1>7, <1>8, <1>9, <1>10, <1>11, <1>12, <1>13, <1>14, <1>15, <1>16, <1>17 DEF ExploreNext

\* For any cases and any imports into them, any filters and whatever is picked, typed, asked or marked, whatever
\* queries are stopped, fail or answer late and in whatever order: what a list page shows at rest are rows that
\* pass the filter on its screen, and a sort by time shows the newest, or the oldest, of them.
THEOREM ShownAreNewest == ExploreSpec => []ShownIsNewest
<1>1. ExploreInv => ShownIsNewest
  <2> SUFFICES ASSUME ExploreInv, scope.page \in Lists, ~list.loading, ~list.error, list.asOf # 0
               PROVE  \E f \in {filters[scope.page]} :
                        /\ \A i \in DOMAIN list.rows :
                             /\ list.rows[i] \in RowsNow(scope.kase, scope.page, list.asOf)
                             /\ PassesOn(scope.page, f, list.rows[i])
                        /\ f.sort.field = "ts" =>
                             \A r \in LeftOut(scope.page, f), s \in ToSet(list.rows) :
                               s.ts # 0 => IF f.sort.desc THEN r.ts <= s.ts ELSE s.ts <= r.ts
    BY DEF ShownIsNewest
  <2> DEFINE f == filters[scope.page]
             rows == RowsNow(scope.kase, scope.page, list.asOf)
             matches == Matches(scope.kase, scope.page, list.asOf, f)
  <2>1. Best(list.rows, matches, f.sort)
    BY DEF ExploreInv, AtRest
  <2>2. \A r : r \in matches <=> r \in rows /\ PassesOn(scope.page, f, r)
    BY DEF Matches
  <2>3. \A r \in LeftOut(scope.page, f) : r \in matches \ ToSet(list.rows) /\ r.ts # 0
    BY <2>2 DEF LeftOut
  <2>4. \A s \in ToSet(list.rows) : \E k \in DOMAIN list.rows : list.rows[k] = s
    BY DEF ToSet
  <2> HIDE DEF matches, rows, f
  <2>5. \A i \in DOMAIN list.rows : list.rows[i] \in rows /\ PassesOn(scope.page, f, list.rows[i])
    BY <2>1, <2>2 DEF Best
  <2>6. f.sort.field = "ts" =>
          \A r \in LeftOut(scope.page, f), s \in ToSet(list.rows) :
            s.ts # 0 => IF f.sort.desc THEN r.ts <= s.ts ELSE s.ts <= r.ts
    BY <2>1, <2>3, <2>4 DEF Best
  <2> QED BY <2>5, <2>6 DEF f, rows
<1> QED BY <1>1, ExploreStarts, ExploreStep, PTL DEF ExploreSpec
==============================================================================
