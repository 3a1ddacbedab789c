------------------------------- MODULE Review -------------------------------
(***************************************************************************)
(* The review of a case and what it concludes: the analyst decides         *)
(* incidents and chains on the Review page, changes what the report        *)
(* prints, and issues it on the Report page; both pages compute the same   *)
(* verdict from the decisions.  The findings and the chain reviews are     *)
(* stored, everything else is computed from them (module Incidents).       *)
(***************************************************************************)
EXTENDS Incidents

CONSTANTS
    Facts,       \* [finding id -> what its rule says: a finding's fields but the decision's, and file]
    ChainSet,    \* the attack chains that can be built
    Files,       \* the evidence files: [id, package, complete, verified]
    StorySet,    \* the stories the analyst may decide: [id, verdict, severity, findings, noted]
    Settings,    \* the print settings: [floor, onlyReviewed, includeFp, chains]
    Filters,     \* what the Findings page shows: [incidents, status, source, sev, showFp]
    PUA,         \* rules that name unwanted software
    UserRuns,    \* rules whose only technique is user execution (T1204)
    Unsupported, \* findings whose rows do not bear out what they claim
    Deciders,    \* who decides: "analyst", or "ai" when the model's proposal is applied
    Targets,     \* the severities given: one, or "none" for the rule's own
    MaxDecisions \* bound: how many decisions and settings are made

\* A finding is its row's id and its times; what its rule says of it (confidence, phase) its rule alone
\* decides (findingPhase reads the techniques and tags of the rule).
ASSUME FactsAssumption ==
    /\ IsFiniteSet(DOMAIN Facts) /\ DOMAIN Facts \subseteq Int
    /\ \A i \in DOMAIN Facts :
        /\ Facts[i].id = i /\ Facts[i].ts \in Int /\ Facts[i].tsEnd \in Int /\ Facts[i].folded \in Nat \ {0}
        /\ Facts[i].sev \in Range(ORDER) /\ Facts[i].conf \in DOMAIN ConfidencePercent
        /\ Facts[i].rule = "chain" \/ Facts[i].rule \in DOMAIN Trust
        /\ \A j \in DOMAIN Facts : Facts[i].rule = Facts[j].rule /\ Facts[i].rule # "chain" => Facts[i].phase = Facts[j].phase
ASSUME ChainsAssumption ==
    /\ IsFiniteSet(ChainSet)
    /\ \A c \in ChainSet : c.score \in Int /\ c.pos \in Int
    /\ \A c, d \in ChainSet : c.id = d.id \/ c.pos = d.pos => c = d
ASSUME ChoicesAssumption ==
    /\ Settings # {} /\ IsFiniteSet(StorySet) /\ Targets \subseteq Range(ORDER) \cup {"none"} /\ MaxDecisions \in Nat

VARIABLES
    found,    \* the findings table: ids
    decided,  \* [finding id -> its status, who decided it, when, and the analyst's overrides]
    verdicts, \* kv chain-reviews: [chain id -> verdict, include, over, by]
    print,    \* kv report-settings
    told,     \* the stories decided
    files,    \* the evidence files in the case
    lastRun,  \* the last rule run: [ran, covered, errors]
    issue,    \* kv report-final: [waived, final]
    decisions \* how many there were: the clock

table == <<found, decided>>
reviewVars == <<found, decided, verdicts, print, told, files, lastRun, issue, decisions>>

Status == {"new", "reviewed", "escalated", "false_positive"}
ChainVerdict == {"confirmed", "unsure", "benign"}
Undecided == [status |-> "new", by |-> "none", at |-> 0, over |-> "none", unlinked |-> FALSE, exclude |-> FALSE]
Unreviewed == [verdict |-> "none", include |-> "none", over |-> "none", by |-> "none"]
Checks == {"rules", "read", "integrity", "decided", "ai", "printed", "claims"}

finding(i) ==
    LET r == Facts[i]
        d == decided[i]
    IN  [id |-> r.id, rule |-> r.rule, source |-> r.source, sev |-> r.sev, conf |-> r.conf, ts |-> r.ts, tsEnd |-> r.tsEnd,
         refs |-> r.refs, count |-> r.count, folded |-> r.folded, user |-> r.user, host |-> r.host, ip |-> r.ip,
         what |-> r.what, phase |-> r.phase, chain |-> r.chain, status |-> d.status, by |-> d.by, at |-> d.at,
         over |-> d.over, unlinked |-> d.unlinked, exclude |-> d.exclude]
fs == {finding(i) : i \in found}
(* Chains are built with a row of their own in the findings table (chains.ts, persistChainResult). *)
Chains == {c \in ChainSet : \E i \in found : Facts[i].rule = "chain" /\ Facts[i].chain = c.id}
AtLeast(s, floor) == sevRank(s) <= sevRank(floor)
worstOf(sevs) == ORDER[Min({sevRank(s) : s \in sevs})]

(***************************************************************************)
(* What the report prints                                                  *)
(***************************************************************************)
chainSeverity(c, r) == IF r.over = "none" THEN c.sev ELSE r.over
chainIncluded(r) == IF r.include = "none" THEN r.verdict # "benign" ELSE r.include = "yes"
IncidentsOf(of, chains, reviews) ==
    LET SeverityOf(c) == chainSeverity(c, reviews[c.id]) IN buildIncidents(of, chains, SeverityOf)

findingInReport(f, s) ==
    /\ ~f.exclude
    /\ f.status = "false_positive" => s.includeFp
    /\ s.onlyReviewed => f.status # "new"
    /\ AtLeast(effectiveSeverity(f), s.floor)

(* A finding linked to a chain follows its chain. *)
InReport(f, chains, s) ==
    LET Of(own) == IF own = {} THEN findingInReport(f, s) ELSE ~f.exclude /\ \E c \in chains : c.id \in own
    IN  Of(chainMembership(f, Chains))
Selection(of, chains, s) == [chains |-> chains, findings |-> {f \in of : InReport(f, chains, s)}]
selectForReport(of, reviews, s) ==
    Selection(of, {c \in Chains : /\ s.chains /\ chainIncluded(reviews[c.id])
                                   /\ AtLeast(chainSeverity(c, reviews[c.id]), s.floor)}, s)

(* The confirmed items the selection leaves out. *)
unprintedConfirmed_Faulty(incidents, reviews, selection) == \* faulty: chains below the floor are left out
    {i \in incidents : i.kind # "chain" /\ i.status = "escalated" /\ i.findings \cap selection.findings = {}}

unprintedConfirmed(incidents, reviews, selection) ==
    {i \in incidents :
        IF i.kind = "chain"
        THEN reviews[i.key[2]].verdict = "confirmed" /\ i.key[2] \notin {c.id : c \in selection.chains}
        ELSE i.status = "escalated" /\ i.findings \cap selection.findings = {}}

(* The decided stories, printed or not: a confirmed one counts as a confirmed incident does. *)
decidedStories(of, s) ==
    {[verdict |-> st.verdict, severity |-> st.severity,
      findings |-> {f \in of : f.id \in st.findings /\ f.status # "false_positive"},
      printed |-> st.verdict \notin {"benign", "false_positive"} /\ AtLeast(st.severity, s.floor)] : st \in told}

(***************************************************************************)
(* The queue: each chain with its incident, then the other incidents       *)
(***************************************************************************)
Item(kind, key, severity, done, members) ==
    [kind |-> kind, key |-> key, severity |-> severity, done |-> done, findings |-> members]
reviewQueue(incidents, chains, reviews) ==
    {Item("chain", <<"chain", c.id>>, chainSeverity(c, reviews[c.id]), reviews[c.id].verdict # "none",
          UNION {i.findings : i \in {j \in incidents : j.key = <<"chain", c.id>>}}) : c \in chains}
    \cup {Item("incident", i.key, i.severity, i.status # "new", i.findings) :
            i \in {j \in incidents : j.kind # "chain"}}
Queue == reviewQueue(IncidentsOf(fs, Chains, verdicts), Chains, verdicts)

Confirmed(it, reviews) ==
    IF it.kind = "chain" THEN reviews[it.key[2]].verdict = "confirmed" ELSE deriveStatus(it.findings) = "escalated"
Rail(queue, reviews) ==
    [todo |-> {it \in queue : ~it.done},
     confirmed |-> {it \in queue : it.done /\ Confirmed(it, reviews)},
     rest |-> {it \in queue : it.done /\ ~Confirmed(it, reviews)}]

(***************************************************************************)
(* The report's cover: the verdict and how far it can be trusted           *)
(***************************************************************************)
Page(of, reviews, s, selection, incidents, grouped) ==
    [chains |-> selection.chains, findings |-> selection.findings, reviews |-> reviews,
     incidents |-> {i \in grouped : i.kind # "chain"},
     members |-> [c \in {i.key[2] : i \in {j \in grouped : j.kind = "chain"}} |->
                    {f \in (CHOOSE i \in grouped : i.key = <<"chain", c>>).findings : f.rule # "chain"}],
     undecided |-> Cardinality(Rail(reviewQueue(incidents, Chains, reviews), reviews).todo),
     unprinted |-> unprintedConfirmed(incidents, reviews, selection),
     stories |-> decidedStories(of, s)]
ReportData(of, reviews, s) ==
    LET Of(selection) == Page(of, reviews, s, selection, IncidentsOf(of, Chains, reviews),
                              IncidentsOf(selection.findings, selection.chains, reviews))
    IN  Of(selectForReport(of, reviews, s))

isUnwanted(f) == f.rule \in PUA
userExecution(f) == ~AtLeast(effectiveSeverity(f), "high") /\ f.rule \in UserRuns
ConfirmedChains(d) == {c \in d.chains : d.reviews[c.id].verdict = "confirmed"}
Escalated(d) == {i \in d.incidents : i.status = "escalated"}
ConfirmedStories(d) == {st \in d.stories : st.verdict = "confirmed"}
MembersIn(d, c) == IF c.id \in DOMAIN d.members THEN d.members[c.id] ELSE {}
ConfirmedFindings(d) ==
    UNION ({i.findings : i \in Escalated(d) \cup d.unprinted} \cup {MembersIn(d, c) : c \in ConfirmedChains(d)}
            \cup {st.findings : st \in ConfirmedStories(d)})

onlyUnwanted(of) == (\E f \in of : isUnwanted(f)) /\ \A f \in of : isUnwanted(f) \/ userExecution(f)
VerdictKind(d, confirmed, reviewed, severity) ==
    CASE confirmed > 0 -> IF onlyUnwanted(ConfirmedFindings(d)) THEN "unwanted"
                          ELSE IF AtLeast(severity, "high") THEN "compromise" ELSE "suspicious"
      [] confirmed = 0 /\ reviewed > 0 -> "unconfirmed"
      [] OTHER -> IF d.undecided > 0 THEN "pending" ELSE "clean"
Verdict(d, confirmed, reviewed, severity) ==
    [kind |-> VerdictKind(d, confirmed, reviewed, severity), confirmed |-> confirmed, reviewed |-> reviewed,
     hidden |-> Cardinality(d.unprinted) + Cardinality({st \in ConfirmedStories(d) : ~st.printed}),
     severity |-> IF confirmed > 0 THEN severity ELSE "none"]
computeVerdict(d) ==
    LET Of(chains, incidents, stories) ==
            Verdict(d, Cardinality(chains) + Cardinality(incidents) + Cardinality(stories),
                    Cardinality({c \in d.chains : d.reviews[c.id].verdict = "unsure"})
                        + Cardinality({i \in d.incidents : i.status = "reviewed"})
                        + Cardinality({st \in d.stories : st.verdict = "reviewed"}),
                    worstOf({chainSeverity(c, d.reviews[c.id]) : c \in chains}
                                \cup {i.severity : i \in incidents} \cup {st.severity : st \in stories}))
    IN  Of(ConfirmedChains(d), Escalated(d) \cup d.unprinted, ConfirmedStories(d))

(* Each badge of the cover: the rules stand for their tactics. *)
Badge(mine, sure, chained) ==
    CASE mine \cap sure # {} \/ chained -> "confirmed"
      [] mine \cap sure = {} /\ ~chained /\ mine # {} -> "observed"
      [] OTHER -> "none"
threatProfile(d) ==
    LET Of(printed, sure) ==
            [tactic \in {f.phase : f \in fs} |->
                Badge({f \in printed : f.phase = tactic}, sure,
                      tactic = "initial-access" /\ ConfirmedChains(d) # {})]
    IN  Of({f \in d.findings : f.status # "false_positive"},
           UNION ({i.findings : i \in Escalated(d)} \cup {MembersIn(d, c) : c \in ConfirmedChains(d)}
                    \cup {st.findings : st \in ConfirmedStories(d)}))

evidenceAfter == files \ lastRun.covered
Incomplete == {e \in files : ~e.complete}
Unverified == {e \in files : ~e.verified}
Confidence(done, all, complete) ==
    CASE 100 * done >= 95 * all /\ Unverified = {} /\ complete -> "high"
      [] 100 * done >= 70 * all /\ Unverified = {} /\ ~(100 * done >= 95 * all /\ complete) -> "medium"
      [] OTHER -> "low"
computeConfidence(d) ==
    LET Of(done) == Confidence(done, done + d.undecided,
                               Incomplete = {} /\ lastRun.ran /\ evidenceAfter = {} /\ ~lastRun.errors)
    IN  Of(Cardinality({c \in d.chains : d.reviews[c.id].verdict # "none"})
            + Cardinality({i \in d.incidents : i.status # "new"}))

(* What is still open before a report is final; the undecided of the Report page are incidents. *)
aiDecided(of) == {f \in of : f.by = "ai" /\ f.status # "new"}
UndecidedIncidents_Faulty(incidents, reviews) == \* faulty: a chain is decided when its findings are
    {i \in incidents : i.status = "new"}

UndecidedIncidents(incidents, reviews) ==
    {i \in incidents : IF i.kind = "chain" THEN reviews[i.key[2]].verdict = "none" ELSE i.status = "new"}
Failing(id, d, of, undecided) ==
    CASE id = "rules" -> ~lastRun.ran \/ lastRun.errors \/ evidenceAfter # {}
      [] id = "read" -> Incomplete # {}
      [] id = "integrity" -> Unverified # {}
      [] id = "decided" -> undecided # {}
      [] id = "ai" -> aiDecided(of) # {}
      [] id = "printed" -> d.unprinted # {} \/ \E st \in ConfirmedStories(d) : ~st.printed
      [] id = "claims" -> \E f \in d.findings : f.id \in Unsupported
preflightChecks(of, reviews, d) ==
    LET Of(undecided) == {id \in Checks : Failing(id, d, of, undecided)}
    IN  Of(UndecidedIncidents(IncidentsOf(of, Chains, reviews), reviews))
OpenChecks == preflightChecks(fs, verdicts, ReportData(fs, verdicts, print))
issueStatus(failing) == IF issue.final /\ failing \subseteq issue.waived THEN "final" ELSE "draft"

(***************************************************************************)
(* What the verdict becomes if the item gets this decision                 *)
(***************************************************************************)
effectOf_Faulty(d, incidents, it, decision) == \* faulty: an incident decided stays among the undecided
    LET AsChain == [d EXCEPT !.reviews[it.key[2]].verdict = decision, !.undecided = @ - (IF it.done THEN 0 ELSE 1)]
        Changed(i) == IF i.key = it.key THEN [i EXCEPT !.status = decision] ELSE i
        Printed == \E i \in d.incidents : i.key = it.key
        AsIncident == [d EXCEPT !.incidents = {Changed(i) : i \in @}
                                    \cup (IF Printed \/ decision # "escalated" THEN {}
                                          ELSE {Changed(i) : i \in {j \in incidents : j.key = it.key}})]
    IN  computeVerdict(IF it.kind = "chain" THEN AsChain ELSE AsIncident).kind

effectOf(d, incidents, it, decision) ==
    LET AsChain == [d EXCEPT !.reviews[it.key[2]].verdict = decision, !.undecided = @ - (IF it.done THEN 0 ELSE 1)]
        Changed(i) == IF i.key = it.key THEN [i EXCEPT !.status = decision] ELSE i
        Printed == \E i \in d.incidents : i.key = it.key
        AsIncident == [d EXCEPT !.incidents = {Changed(i) : i \in @}
                                    \cup (IF Printed \/ decision # "escalated" THEN {}
                                          ELSE {Changed(i) : i \in {j \in incidents : j.key = it.key}}),
                                !.undecided = @ - (IF it.done THEN 0 ELSE 1)]
    IN  computeVerdict(IF it.kind = "chain" THEN AsChain ELSE AsIncident).kind

(***************************************************************************)
(* The case, the decisions, the settings                                   *)
(***************************************************************************)
ReviewInit ==
    /\ found = {} /\ decided = [i \in DOMAIN Facts |-> Undecided]
    /\ verdicts = [c \in {c.id : c \in ChainSet} |-> Unreviewed]
    /\ print \in Settings /\ told = {} /\ files = {}
    /\ lastRun = [ran |-> FALSE, covered |-> {}, errors |-> FALSE]
    /\ issue = [waived |-> {}, final |-> FALSE] /\ decisions = 0

AddEvidence(e) ==
    /\ e \notin files
    /\ files' = files \cup {e}
    /\ UNCHANGED <<found, decided, verdicts, print, told, lastRun, issue, decisions>>

(* A run reads the evidence there is; a finding it no longer makes leaves the table. *)
RunRules(errors) ==
    /\ files # {}
    /\ found' = {i \in DOMAIN Facts : Facts[i].file \in {e.id : e \in files}}
    /\ lastRun' = [ran |-> TRUE, covered |-> files, errors |-> errors]
    /\ UNCHANGED <<decided, verdicts, print, told, files, issue, decisions>>

Ticks == decisions < MaxDecisions /\ decisions' = decisions + 1
Written(ids, change(_)) == decided' = [i \in DOMAIN decided |-> IF i \in ids THEN change(decided[i]) ELSE decided[i]]
Ids(of) == {f.id : f \in of}
WriteStatus(ids, s, by) == Written(ids, LAMBDA r : [r EXCEPT !.status = s, !.by = by, !.at = decisions'])

(* An incident gets a status: the analyst's, or the model's proposal applied. *)
DecideItem(it, s, by) ==
    /\ it.kind = "incident" /\ Ticks
    /\ WriteStatus(Ids(it.findings), s, by)
    /\ UNCHANGED <<found, verdicts, print, told, files, lastRun, issue>>

(* The Findings page: the rows its filter shows, or the incidents made of them; a decision there
   reaches the findings shown, one or those of the incident picked. *)
findingRows(of, q) ==
    {f \in of : /\ f.status = "false_positive" => q.showFp \/ q.status = "false_positive"
                /\ q.status \in {"any", f.status} /\ q.source \in {"any", f.source}
                /\ q.incidents \/ q.sev \in {"any", effectiveSeverity(f)}}
shownIncidents(of, q) ==
    {i \in IncidentsOf(findingRows(of, q), Chains, verdicts) : q.sev \in {"any", i.severity}}
Pickable(q) == IF q.incidents THEN {i.findings : i \in shownIncidents(fs, q)} ELSE {{f} : f \in findingRows(fs, q)}

setStatusFor(of, s) ==
    /\ Ticks
    /\ WriteStatus(Ids(of), s, "analyst")
    /\ UNCHANGED <<found, verdicts, print, told, files, lastRun, issue>>

resetSeverityFor(of) ==
    /\ (\E f \in of : f.over # "none") /\ Ticks
    /\ Written(Ids(of), LAMBDA r : [r EXCEPT !.over = "none"])
    /\ UNCHANGED <<found, verdicts, print, told, files, lastRun, issue>>

(* A chain gets a verdict, its linked findings the status that goes with it. *)
StatusOfVerdict == [confirmed |-> "escalated", benign |-> "false_positive", unsure |-> "reviewed"]
JudgeChain(it, v, by) ==
    /\ it.kind = "chain" /\ Ticks
    /\ WriteStatus(Ids(it.findings), StatusOfVerdict[v], by)
    /\ verdicts' = [verdicts EXCEPT ![it.key[2]].verdict = v, ![it.key[2]].by = by]
    /\ UNCHANGED <<found, print, told, files, lastRun, issue>>

(* Rescored: the members above the target come down to it, or the lead goes up to it. *)
overridesForIncident_Faulty(members, target) == \* faulty: dismissed members count as reaching the target
    LET active == {f \in members : f.status # "false_positive"}
        above == {f \in active : sevRank(effectiveSeverity(f)) < sevRank(target)}
        reached == \E f \in members : effectiveSeverity(f) = target
    IN  IF above # {} \/ reached THEN above ELSE {leadOf(members)}

overridesForIncident(members, target) ==
    LET active == {f \in members : f.status # "false_positive"}
        above == {f \in active : sevRank(effectiveSeverity(f)) < sevRank(target)}
        reached == \E f \in active : effectiveSeverity(f) = target
    IN  IF above # {} \/ reached THEN above ELSE {leadOf(members)}

Rescore(it, target) ==
    /\ it.kind = "incident" /\ Ticks
    /\ IF target = "none" THEN Written(Ids(it.findings), LAMBDA r : [r EXCEPT !.over = "none"])
       ELSE Written(Ids(overridesForIncident(it.findings, target)), LAMBDA r : [r EXCEPT !.over = target])
    /\ UNCHANGED <<found, verdicts, print, told, files, lastRun, issue>>

RescoreChain(it, target) ==
    /\ it.kind = "chain" /\ Ticks
    /\ verdicts' = [verdicts EXCEPT ![it.key[2]].over = target]
    /\ UNCHANGED <<found, decided, print, told, files, lastRun, issue>>

(* Left out of the report or back in it: a chain turns, an incident unless all of it is out already. *)
Exclude(it) ==
    /\ Ticks
    /\ IF it.kind = "chain"
       THEN /\ verdicts' = [verdicts EXCEPT ![it.key[2]].include = IF chainIncluded(verdicts[it.key[2]])
                                                                   THEN "no" ELSE "yes"]
            /\ UNCHANGED decided
       ELSE /\ LET on == \E f \in it.findings : ~f.exclude
               IN  Written(Ids(it.findings), LAMBDA r : [r EXCEPT !.exclude = on])
            /\ UNCHANGED verdicts
    /\ UNCHANGED <<found, print, told, files, lastRun, issue>>

(* Linked findings taken out of their chain, one or all; or the unlinked ones of an incident put back. *)
Unlink(it, of) ==
    /\ it.kind = "chain" /\ of # {} /\ Ticks
    /\ Written(Ids(of), LAMBDA r : [r EXCEPT !.unlinked = TRUE])
    /\ UNCHANGED <<found, verdicts, print, told, files, lastRun, issue>>

LinkBack(it) ==
    /\ it.kind = "incident" /\ (\E f \in it.findings : f.unlinked) /\ Ticks
    /\ Written(Ids({f \in it.findings : f.unlinked}), LAMBDA r : [r EXCEPT !.unlinked = FALSE])
    /\ UNCHANGED <<found, verdicts, print, told, files, lastRun, issue>>

DecideStory(st) ==
    /\ Ticks
    /\ told' = (told \ {st}) \cup ({st} \ told)
    /\ UNCHANGED <<found, decided, verdicts, print, files, lastRun, issue>>

saveReportSettings(s) ==
    /\ s # print
    /\ print' = s
    /\ UNCHANGED <<found, decided, verdicts, told, files, lastRun, issue, decisions>>

(* An open check (id) is waived with a reason, the report issued as final (or taken back). *)
Waive(id) ==
    /\ Ticks
    /\ issue' = [issue EXCEPT !.waived = (@ \ {id}) \cup ({id} \ @)]
    /\ UNCHANGED <<found, decided, verdicts, print, told, files, lastRun>>

Issue(failing) ==
    /\ failing \subseteq issue.waived
    /\ Ticks
    /\ issue' = [issue EXCEPT !.final = issueStatus(failing) = "draft"]
    /\ UNCHANGED <<found, decided, verdicts, print, told, files, lastRun>>

ReviewNext ==
    \/ \E e \in Files : AddEvidence(e)
    \/ \E errors \in BOOLEAN : RunRules(errors)
    \/ \E it \in Queue :
        \/ \E s \in Status \ {"new"}, by \in Deciders : DecideItem(it, s, by)
        \/ \E v \in ChainVerdict, by \in Deciders : JudgeChain(it, v, by)
        \/ \E s \in Targets : Rescore(it, s) \/ RescoreChain(it, s)
        \/ Exclude(it)
        \/ \E of \in {{f} : f \in it.findings} \cup {it.findings} : Unlink(it, {f \in of : f.rule # "chain"})
        \/ LinkBack(it)
    \/ \E q \in Filters : \E of \in Pickable(q) : (\E s \in Status : setStatusFor(of, s)) \/ resetSeverityFor(of)
    \/ \E st \in StorySet : DecideStory(st)
    \/ \E s \in Settings : saveReportSettings(s)
    \/ \E failing \in {OpenChecks} : (\E id \in failing : Waive(id)) \/ Issue(failing)

ReviewSpec == ReviewInit /\ [][ReviewNext]_reviewVars

(***************************************************************************)
(* Properties                                                              *)
(***************************************************************************)
ReviewTypeOK ==
    /\ found \subseteq DOMAIN Facts /\ told \subseteq StorySet /\ files \subseteq Files
    /\ print \in Settings /\ decisions \in 0..MaxDecisions
    /\ \A i \in DOMAIN decided : decided[i].status \in Status

(* What an analyst decides holds every finding once: no finding is lost between the chains, the mails,
   the people and the rest, none is decided in two places, and two incidents of one person lie
   further apart than the gap, however long a finding lasts and whatever name it gives the person. *)
Partition(incidents) ==
    /\ UNION {i.findings : i \in incidents} = fs
    /\ \A i, j \in incidents :
        i # j => /\ i.findings \cap j.findings = {}
                 /\ (/\ i.kind = "entity" /\ j.kind = "entity" /\ i.key[1] = j.key[1]
                      /\ i.key[2] = j.key[2] /\ i.key[3] > 0 /\ j.key[3] > 0)
                        => i.tsEnd + Gap < j.ts \/ j.tsEnd + Gap < i.ts
EachFindingOnce == Partition(IncidentsOf(fs, Chains, verdicts))

(* Marking a finding false positive never moves another one up the list: the analysts' dismissals
   make a rule weigh less, and a finding that is dismissed corroborates nothing. *)
NoneRises(all, then, g) == \A f \in all \ {g} : scoreFindings(f, then) <= scoreFindings(f, all)
DismissalOnlyLowers ==
    \A all \in {fs} : \A g \in all :
        NoneRises(all, (all \ {g}) \cup {[g EXCEPT !.status = "false_positive", !.by = "analyst",
                                                   !.at = decisions + 1]}, g)

Uniform == \A i \in IncidentsOf(fs, Chains, verdicts) : i.kind # "chain" => Cardinality({f.status : f \in i.findings}) = 1
VerdictUnder(s) == computeVerdict(ReportData(fs, verdicts, s))

(* With every incident decided as a whole, what the report prints does not turn a confirmed case into
   an unconfirmed one, nor the other way round. *)
ConfirmedStaysConfirmed ==
    Uniform => Cardinality({VerdictUnder(s).confirmed > 0 : s \in Settings}) = 1

(* An incident that is rescored gets the severity asked for, up or down. *)
RescoreReaches ==
    \A i \in {j \in IncidentsOf(fs, Chains, verdicts) : j.kind # "chain" /\ j.status # "false_positive"},
       target \in Range(ORDER) :
        LET over == overridesForIncident(i.findings, target)
        IN  effectiveSeverity(leadOf({IF f \in over THEN [f EXCEPT !.over = target] ELSE f : f \in i.findings}))
                = target

(* What the decision bar says the verdict becomes is what it becomes, when everything is printed, each
   incident is decided as a whole and no story is (a story's findings may leave it with a decision). *)
AfterDecision(it, decision) ==
    LET s == IF it.kind = "chain" THEN StatusOfVerdict[decision] ELSE decision
        of == {IF f \in it.findings THEN [f EXCEPT !.status = s] ELSE f : f \in fs}
        reviews == IF it.kind = "chain" THEN [verdicts EXCEPT ![it.key[2]].verdict = decision] ELSE verdicts
    IN  computeVerdict(ReportData(of, reviews, print)).kind
PrintsAll ==
    /\ print.floor = "info" /\ ~print.onlyReviewed /\ print.includeFp /\ print.chains
    /\ \A f \in fs : ~f.exclude
    /\ \A c \in Chains : chainIncluded(verdicts[c.id])
EffectForetold ==
    PrintsAll /\ Uniform /\ told = {} =>
        \A incidents \in {IncidentsOf(fs, Chains, verdicts)}, d \in {ReportData(fs, verdicts, print)} :
            \A it \in reviewQueue(incidents, Chains, verdicts) :
                \A decision \in IF it.kind = "chain" THEN ChainVerdict ELSE Status \ {"new"} :
                    effectOf(d, incidents, it, decision) = AfterDecision(it, decision)

(* The cover says what the decisions and the checks say: an escalated finding that is printed outside a
   chain has its tactic confirmed, and a report whose checks all pass is one to be trusted: nothing that
   lowers the confidence (a file unread, unverified, not run over; items undecided) escapes the checks. *)
CoverOf(d, profile) ==
    /\ \A f \in d.findings :
        f.status = "escalated" /\ chainMembership(f, d.chains) = {} => profile[f.phase] = "confirmed"
    /\ preflightChecks(fs, verdicts, d) = {} => computeConfidence(d) = "high"
CoverAgrees == \A d \in {ReportData(fs, verdicts, print)} : CoverOf(d, threatProfile(d))

(***************************************************************************)
(* What the docs say and the code does not do: see the README,             *)
(* Disagreements.                                                          *)
(***************************************************************************)
(* "a confirmed item the print settings leave out is still confirmed: a presentation filter must not
   turn "Compromise confirmed" into "Nothing confirmed"" (reportHtml.ts, computeVerdict). *)
VerdictIgnoresPrint ==
    Cardinality({VerdictUnder(s).confirmed > 0 : s \in Settings}) = 1
==============================================================================
