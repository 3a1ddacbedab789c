------------------------------ MODULE Findings ------------------------------
(***************************************************************************)
(* The findings of a case kept in the browser: rule runs replace them rule *)
(* by rule, the detection level folds them, the analyst decides on them,   *)
(* imports and removals change the rows they cite, and the decisions are   *)
(* archived so that a finding built again gets its decision back.  Every   *)
(* await of the code is a step boundary; a Dexie transaction is one step.  *)
(***************************************************************************)
EXTENDS Integers, Sequences, FiniteSets, FiniteSetsExt

CONSTANTS
    Evidence,   \* evidence files
    Logs,       \* those an engine (Hayabusa) reads at import
    RecordsOf,  \* [Evidence -> set of records]: what a file holds
    HostOf,     \* [record -> host]
    Rule,       \* the rules; each raises one finding per row it matches
    Matches,    \* [Rule -> set of records]
    Noisy,      \* rules whose findings are below their floor at level 2
    Custom,     \* the analyst's own rules: their floor is 0; the others' is above 0 at level 2
    Dropped,    \* bound: the rules that may go (a pack refreshed, a custom rule deleted) and come back
    Failing,    \* bound: the rules whose evaluation may throw
    MIN_HOSTS,  \* WIDESPREAD_MIN_HOSTS
    MaxImports, MaxDecisions, MaxRuns, \* bounds
    MaxAtOnce,  \* bound: imports, removals and runs that go on at once
    MaxMixed,   \* bound: after so many imports, one at a time
    Decided     \* bound: the records and hosts whose findings the analyst decides on

ASSUME FindingsAssumption ==
    /\ MIN_HOSTS \in Nat /\ MaxImports \in Nat /\ MaxDecisions \in Nat
    /\ MaxRuns \in Nat /\ MaxAtOnce \in Nat /\ MaxMixed \in Nat
    /\ Noisy \subseteq Rule /\ Custom \subseteq Rule \ Noisy

VARIABLES
    rows,       \* the rows of the case: [rec, gen], gen being the import that numbered them
    files,      \* [Evidence -> "absent", "importing", "written", "present"]
    engine,     \* evidence whose engine findings are on their way to the table
    addedAfter, \* evidence with addedAt > lastRun
    findings,   \* the table
    archive,    \* the kv entry finding-reviews: [key -> decision]
    level,      \* detectionLevel of the case: 2 or 5
    catalogue,  \* the rules that exist
    run,        \* [Reason -> a call of runEnabledRules]
    running,    \* the module's flag
    timer,      \* autoRunAfterIngest has armed its timer
    decision,   \* history: [key -> the analyst's latest decision]
    errors,     \* the rules that failed in the run the diagnostics are of
    mixed,      \* history: what went on together with a run: a "removal", a "revert", another "change"
    imports, runs

findingsVars == <<rows, files, engine, addedAfter, findings, archive, level, catalogue, run, running,
                  timer, decision, errors, mixed, imports, runs>>

Reason == {"manual", "ingest"}
Record == UNION {RecordsOf[e] : e \in Evidence}
Row == [rec : Record, gen : 0..MaxImports]

(* The files differ in content, and a record's key begins with its file's SHA-256.  The keys of a finding
   tell a record, a row and a host apart (`rk:`, a number, `folded`). *)
ASSUME NamesAssumption ==
    /\ "engine" \notin Rule
    /\ \A e \in Evidence : IsFiniteSet(RecordsOf[e])
    /\ \A e1, e2 \in Evidence : e1 # e2 => RecordsOf[e1] \cap RecordsOf[e2] = {}
    /\ Record \cap Row = {}
    /\ \A x \in Record : HostOf[x] \notin Record \cup Row

NoRun == [pc |-> "off", level |-> 5, rules |-> {}, todo |-> {}, rule |-> {}, seen |-> {}, found |-> {},
          failed |-> {}]

(***************************************************************************)
(* Findings, their keys and their decisions                                *)
(***************************************************************************)
(* A finding cites rows (refs); keyed holds those whose record could be read; n is `folded`. *)
Finding(rule, key, refs) ==
    [rule |-> rule, key |-> key, refs |-> refs, keyed |-> {}, status |-> "new", n |-> 1]

Raised(rule, rs) == {Finding(rule, <<rule, r>>, {r}) : r \in {x \in rs : x.rec \in Matches[rule]}}

withRecordKeys(fs) == {[f EXCEPT !.keyed = f.refs \cap rows] : f \in fs}

(* The record instead of the row id, when the key names the one row cited and its record is known. *)
reviewKey(f) ==
    LET r == CHOOSE r \in f.refs : TRUE
    IN  IF f.key = <<f.rule, r>> /\ f.keyed # {} THEN <<f.rule, r.rec>> ELSE f.key

decided(f) == f.status # "new"

(* What a decision is about: the record, for a finding raised on one row. *)
AboutOneRow(f) == \E r \in f.refs : f.key = <<f.rule, r>>
Subject(f) == IF AboutOneRow(f) THEN <<f.rule, (CHOOSE r \in f.refs : TRUE).rec>> ELSE f.key

Host(f) == HostOf[(CHOOSE r \in f.refs : TRUE).rec]

(* rememberReviews: the archive after the findings fs, and the decisions it can give back. *)
Archived(fs, saved) ==
    LET dropped == {f.key : f \in {g \in fs : reviewKey(g) # g.key}}
                       \cup {reviewKey(f) : f \in {g \in fs : ~decided(g)}}
        kept == {reviewKey(f) : f \in {g \in fs : decided(g)}}
    IN  [k \in (DOMAIN saved \ dropped) \cup kept |->
            IF k \in kept THEN LET f == CHOOSE g \in fs : reviewKey(g) = k /\ decided(g)
                               IN  [key |-> f.key, status |-> f.status]
                          ELSE saved[k]]

(* Map lookups of replaceFindings: the current findings, then the archive, then its aliases. *)
Previous(k, fs, saved) ==
    LET now == {f \in fs : f.key = k \/ reviewKey(f) = k}
        alias == {a \in DOMAIN saved : saved[a].key = k}
    IN  IF now # {} THEN {(CHOOSE f \in now : TRUE).status}
        ELSE IF k \in DOMAIN saved THEN {saved[k].status}
        ELSE {saved[a].status : a \in alias}

PreviousOf(f, fs, saved) ==
    IF Previous(reviewKey(f), fs, saved) # {} THEN Previous(reviewKey(f), fs, saved)
    ELSE Previous(f.key, fs, saved)

(***************************************************************************)
(* Folding                                                                 *)
(***************************************************************************)
Folded_Faulty(rule, h, fs) == \* faulty: the fold cites what its first finding cited
    [(CHOOSE f \in fs : TRUE) EXCEPT !.key = <<rule, h>>, !.status = "new",
      !.n = MapThenSumSet(LAMBDA f : f.n, fs)]

Folded(rule, h, fs) ==
    [rule |-> rule, key |-> <<rule, h>>, refs |-> UNION {f.refs : f \in fs},
     keyed |-> UNION {f.keyed : f \in fs}, status |-> "new", n |-> MapThenSumSet(LAMBDA f : f.n, fs)]

(* One per rule and host of the findings that fold. *)
Folds(fs) ==
    LET group(rule, h) == {f \in fs : f.rule = rule /\ Host(f) = h}
        places == {<<f.rule, Host(f)>> : f \in fs}
    IN  {IF Cardinality(group(p[1], p[2])) = 1 THEN CHOOSE f \in group(p[1], p[2]) : TRUE
                                               ELSE Folded(p[1], p[2], group(p[1], p[2])) : p \in places}

(* Level 5 keeps every finding on its own, and so does a rule without a floor. *)
Floored(rule, lvl) == lvl < 5 /\ rule \in Rule \ Custom
Below(rule, lvl) == lvl < 5 /\ rule \in Noisy

foldBelowLevel(fs, lvl, prior) ==
    LET down == {f \in fs : Below(f.rule, lvl) /\ prior[f] \subseteq {"new"}}
    IN  (fs \ down) \cup Folds(down)

(* The rules of a run that fired on half the case's hosts or more; the others have no floor in it. *)
Widespread(fs, lvl, rules) ==
    LET hosts == {Host(f) : f \in fs}
        on(rule) == {Host(f) : f \in {g \in fs : g.rule = rule}}
        least == Max({2, (Cardinality(hosts) + 1) \div 2})
    IN  IF Cardinality(hosts) < MIN_HOSTS THEN {}
        ELSE {rule \in rules : Cardinality(on(rule)) >= least /\ Floored(rule, lvl)}

(* A decided finding keeps its key: a fold that would take it gets another. *)
foldWidespread(fs, lvl, rules) ==
    LET place(f) == MapThenSumSet(LAMBDA g : g.n, {g \in fs : g.rule = f.rule /\ Host(g) = Host(f)})
        down == {f \in fs : f.rule \in Widespread(fs, lvl, rules) /\ ~decided(f) /\ place(f) > 1}
        taken == {f.key : f \in fs \ down}
    IN  (fs \ down) \cup
        {IF f \notin fs /\ f.key \in taken
            THEN [f EXCEPT !.key = Append(f.key, CHOOSE r \in f.refs : TRUE)]
            ELSE f :
         f \in Folds(down)}

(***************************************************************************)
(* Imports                                                                 *)
(***************************************************************************)
LastDecision(k) == IF k \in DOMAIN decision THEN decision[k] ELSE "new"

RunGoing == \E r \in Reason : run[r].pc # "off"

RunRoom == Cardinality({e \in Evidence : files[e] \in {"importing", "written", "removed"}})
        + Cardinality({r \in Reason : run[r].pc # "off"})
        < IF imports > MaxMixed THEN 1 ELSE MaxAtOnce

(* addedAt is the moment the import starts. *)
BeginImport(e) ==
    /\ files[e] = "absent" /\ imports < MaxImports /\ RunRoom
    /\ files' = [files EXCEPT ![e] = "importing"]
    /\ addedAfter' = addedAfter \cup {e}
    /\ imports' = imports + 1
    /\ UNCHANGED <<rows, engine, findings, archive, level, catalogue, run, running, timer, decision,
                   errors, mixed, runs>>

WriteRows(e) ==
    /\ files[e] = "importing"
    /\ files' = [files EXCEPT ![e] = "written"]
    /\ rows' = rows \cup {[rec |-> rec, gen |-> imports] : rec \in RecordsOf[e]}
    /\ engine' = engine \cup ({e} \cap Logs)
    /\ UNCHANGED <<addedAfter, findings, archive, level, catalogue, run, running, timer, decision,
                   errors, mixed, imports, runs>>

(* persistEngineFindings, started by the worker's message and awaited by nobody. *)
StoreEngine(e) ==
    /\ e \in engine
    /\ engine' = engine \ {e}
    /\ LET cited == {r \in rows : r.rec \in RecordsOf[e]}
       IN  findings' = findings \cup withRecordKeys({Finding("engine", <<"engine", r>>, {r}) : r \in cited})
    /\ UNCHANGED <<rows, files, addedAfter, archive, level, catalogue, run, running, timer, decision,
                   errors, mixed, imports, runs>>

EndImport(e) ==
    /\ files[e] = "written"
    /\ files' = [files EXCEPT ![e] = "present"]
    /\ timer' = TRUE
    /\ mixed' = mixed \cup (IF RunGoing THEN {"change"} ELSE {})
    /\ UNCHANGED <<rows, engine, addedAfter, findings, archive, level, catalogue, run, running, decision,
                   errors, imports, runs>>

(***************************************************************************)
(* Removing evidence: the rows, then the derived state                     *)
(***************************************************************************)
RemoveRows(e) ==
    /\ files[e] = "present" /\ RunRoom
    /\ files' = [files EXCEPT ![e] = "removed"]
    /\ rows' = {r \in rows : r.rec \notin RecordsOf[e]}
    /\ mixed' = mixed \cup (IF RunGoing \/ e \in engine THEN {"removal"} ELSE {})
    /\ UNCHANGED <<engine, addedAfter, findings, archive, level, catalogue, run, running, timer, decision,
                   errors, imports, runs>>

EngineOf(f, e) == f.rule = "engine" /\ \A r \in f.refs : r.rec \in RecordsOf[e]

ClearFindings(e) ==
    /\ files[e] = "removed"
    /\ LET kept == {f \in findings : f.rule = "engine" /\ ~EngineOf(f, e)}
       IN  /\ findings' = kept
           /\ archive' = Archived(findings \ kept, archive)
    /\ files' = [files EXCEPT ![e] = "absent"]
    /\ errors' = {}
    /\ addedAfter' = {x \in Evidence \ {e} : files[x] # "absent"}
    /\ mixed' = mixed \cup (IF RunGoing THEN {"removal"} ELSE {})
    /\ UNCHANGED <<rows, engine, level, catalogue, run, running, timer, decision, imports, runs>>

(***************************************************************************)
(* Rule runs                                                               *)
(***************************************************************************)
Call(r, lvl) == run' = [run EXCEPT ![r] = [NoRun EXCEPT !.pc = "load", !.level = lvl]]

(* The run button; setDetectionLevel calls it too.  The flag is only tested here. *)
RunManually ==
    /\ ~running /\ run["manual"].pc = "off" /\ runs < MaxRuns /\ RunRoom
    /\ Call("manual", level)
    /\ runs' = runs + 1
    /\ UNCHANGED <<rows, files, engine, addedAfter, findings, archive, level, catalogue, running, timer,
                   decision, errors, mixed, imports>>

(* The level is saved; the run is refused when one is going on. *)
setDetectionLevel(lvl) ==
    /\ lvl # level /\ run["manual"].pc = "off" /\ runs < MaxRuns /\ RunRoom
    /\ level' = lvl
    /\ runs' = runs + 1
    /\ IF running \/ \A e \in Evidence : files[e] = "absent" THEN UNCHANGED run ELSE Call("manual", lvl)
    /\ mixed' = mixed \cup (IF RunGoing THEN {"change"} ELSE {})
    /\ UNCHANGED <<rows, files, engine, addedAfter, findings, archive, catalogue, running, timer, decision,
                   errors, imports>>

(* The timer of autoRunAfterIngest: a run that is going on, or another import, drops it. *)
TimerFires ==
    /\ timer /\ run["ingest"].pc = "off" /\ RunRoom
    /\ timer' = FALSE
    /\ IF running \/ \E e \in Evidence : files[e] \in {"importing", "written"}
       THEN UNCHANGED run
       ELSE Call("ingest", level)
    /\ UNCHANGED <<rows, files, engine, addedAfter, findings, archive, level, catalogue, running, decision,
                   errors, mixed, imports, runs>>

(* loadRules has answered: only now the flag is set.  The worker reads the rows once, at its first rule,
   and keeps them for the others. *)
LoadRules(r) ==
    /\ run[r].pc = "load"
    /\ IF catalogue = {}
       THEN run' = [run EXCEPT ![r] = NoRun] /\ UNCHANGED <<running, mixed>>
       ELSE /\ run' = [run EXCEPT ![r] = [run[r] EXCEPT !.rules = catalogue, !.todo = catalogue,
                                                      !.seen = rows, !.pc = "next"]]
            /\ running' = TRUE
            /\ mixed' = mixed \cup (IF running THEN {"change"} ELSE {})
    /\ UNCHANGED <<rows, files, engine, addedAfter, findings, archive, level, catalogue, timer, decision,
                   errors, imports, runs>>

(* runRule, and the record keys read before the transaction. *)
EvaluateRule(r) ==
    /\ run[r].pc = "next"
    /\ LET rule == CHOOSE rule \in run[r].todo : TRUE
       IN  run' = [run EXCEPT ![r] = [run[r] EXCEPT !.found = withRecordKeys(Raised(rule, run[r].seen)),
                                                   !.todo = @ \ {rule}, !.rule = {rule}, !.pc = "store"]]
    /\ UNCHANGED <<rows, files, engine, addedAfter, findings, archive, level, catalogue, running, timer,
                   decision, errors, mixed, imports, runs>>

(* A rule that throws leaves its findings as they were, and what the archive has of them: a decision
   taken back that has not left the archive yet stays there. *)
RuleFails(r) ==
    /\ run[r].pc = "next"
    /\ LET rule == CHOOSE rule \in run[r].todo : TRUE
           stale == {k \in DOMAIN archive : k[1] = rule /\ archive[k].status # LastDecision(k)}
       IN  /\ rule \in Failing
           /\ run' = [run EXCEPT ![r] = [run[r] EXCEPT !.todo = @ \ {rule}, !.failed = @ \cup {rule},
                                                      !.seen = IF run[r].todo = {rule} THEN {} ELSE @,
                                                      !.pc = IF run[r].todo = {rule} THEN "refold" ELSE "next"]]
           /\ mixed' = mixed \cup (IF stale = {} THEN {} ELSE {"revert"})
    /\ UNCHANGED <<rows, files, engine, addedAfter, findings, archive, level, catalogue, running, timer,
                   decision, errors, imports, runs>>

(* The findings a run stores: folded at the level, each with the decision its key had. *)
Rebuilt_Faulty(found, current, saved, lvl) == \* faulty: the decisions are not given back
    foldBelowLevel(found, lvl, [f \in found |-> {}])

Rebuilt(found, current, saved, lvl) ==
    LET prior == [f \in found |-> PreviousOf(f, current, saved)]
        Restored(f) == LET was == PreviousOf(f, current, saved)
                       IN  IF was = {} THEN f ELSE [f EXCEPT !.status = CHOOSE s \in was : TRUE]
    IN  {Restored(f) : f \in foldBelowLevel(found, lvl, prior)}

(* replaceFindings, one transaction: the current findings of the rule are archived and deleted, the
   new ones take their place. *)
replaceFindings(r) ==
    /\ run[r].pc = "store"
    /\ LET current == {f \in findings : f.rule \in run[r].rule}
           saved == Archived(current, archive)
       IN  /\ findings' = (findings \ current) \cup Rebuilt(run[r].found, current, saved, run[r].level)
           /\ archive' = saved
    /\ run' = [run EXCEPT ![r] = [run[r] EXCEPT !.found = {}, !.rule = {},
                                               !.seen = IF run[r].todo = {} THEN {} ELSE @,
                                               !.pc = IF run[r].todo = {} THEN "refold" ELSE "next"]]
    /\ UNCHANGED <<rows, files, engine, addedAfter, level, catalogue, running, timer, decision, errors, mixed,
                   imports, runs>>

refoldWidespread(r) ==
    /\ run[r].pc = "refold"
    /\ findings' = foldWidespread(findings, run[r].level, run[r].rules)
    /\ run' = [run EXCEPT ![r].pc = "diags"]
    /\ UNCHANGED <<rows, files, engine, addedAfter, archive, level, catalogue, running, timer, decision,
                   errors, mixed, imports, runs>>

(* lastRun is now: whatever was added before is taken as seen. *)
saveDiagnostics(r) ==
    /\ run[r].pc = "diags"
    /\ addedAfter' = {}
    /\ errors' = run[r].failed
    /\ run' = [run EXCEPT ![r].pc = "prune"]
    /\ UNCHANGED <<rows, files, engine, findings, archive, level, catalogue, running, timer, decision,
                   mixed, imports, runs>>

(* Undecided findings of rules that were not there when the run loaded them. *)
pruneOrphanFindings(r) ==
    /\ run[r].pc = "prune"
    /\ LET orphans == {f \in findings : f.rule \notin run[r].rules \cup {"engine"} /\ ~decided(f)}
       IN  /\ findings' = findings \ orphans
           /\ archive' = IF orphans = {} THEN archive ELSE Archived(orphans, archive)
    /\ run' = [run EXCEPT ![r] = NoRun]
    /\ running' = FALSE
    /\ UNCHANGED <<rows, files, engine, addedAfter, level, catalogue, timer, decision, errors, mixed, imports,
                   runs>>

(***************************************************************************)
(* The analyst                                                             *)
(***************************************************************************)
(* A status, written to the row of that id: a click on a row a run has replaced writes nothing. *)
setStatusFor(f, s) ==
    /\ f.status # s /\ Subject(f)[2] \in Decided
    /\ Cardinality(DOMAIN decision \cup {Subject(f)}) <= MaxDecisions
    /\ findings' = (findings \ {f}) \cup {[f EXCEPT !.status = s]}
    /\ decision' = [k \in DOMAIN decision \cup {Subject(f)} |-> IF k = Subject(f) THEN s ELSE decision[k]]
    /\ mixed' = mixed \cup (IF RunGoing /\ s = "new" THEN {"revert"} ELSE {})
    /\ UNCHANGED <<rows, files, engine, addedAfter, archive, level, catalogue, run, running, timer,
                   errors, imports, runs>>

DeleteRule(rule) ==
    /\ rule \in catalogue \cap Dropped /\ runs < MaxRuns
    /\ catalogue' = catalogue \ {rule}
    /\ mixed' = mixed \cup (IF RunGoing THEN {"change"} ELSE {})
    /\ UNCHANGED <<rows, files, engine, addedAfter, findings, archive, level, run, running, timer, decision,
                   errors, imports, runs>>

(* The pack can be fetched again, or the rule is written anew. *)
RestoreRule(rule) ==
    /\ rule \in Dropped \ catalogue /\ runs < MaxRuns
    /\ catalogue' = catalogue \cup {rule}
    /\ mixed' = mixed \cup {"change"}
    /\ UNCHANGED <<rows, files, engine, addedAfter, findings, archive, level, run, running, timer, decision,
                   errors, imports, runs>>

(***************************************************************************)
FindingsInit ==
    /\ rows = {} /\ files = [e \in Evidence |-> "absent"] /\ engine = {} /\ addedAfter = {}
    /\ findings = {} /\ archive = <<>> /\ level = 2 /\ catalogue = Rule
    /\ run = [r \in Reason |-> NoRun] /\ running = FALSE /\ timer = FALSE
    /\ decision = <<>> /\ errors = {} /\ mixed = {}
    /\ imports = 0 /\ runs = 0

RuleRun(r) ==
    \/ LoadRules(r) \/ EvaluateRule(r) \/ RuleFails(r) \/ replaceFindings(r)
    \/ refoldWidespread(r) \/ saveDiagnostics(r) \/ pruneOrphanFindings(r)

FindingsNext ==
    \/ \E e \in Evidence :
         BeginImport(e) \/ WriteRows(e) \/ StoreEngine(e) \/ EndImport(e) \/ RemoveRows(e) \/ ClearFindings(e)
    \/ RunManually \/ TimerFires
    \/ \E lvl \in {2, 5} : setDetectionLevel(lvl)
    \/ \E r \in Reason : RuleRun(r)
    \/ \E f \in findings, s \in {"new", "false_positive"} : setStatusFor(f, s)
    \/ \E rule \in Rule : DeleteRule(rule) \/ RestoreRule(rule)

FindingsSpec == FindingsInit /\ [][FindingsNext]_findingsVars

(***************************************************************************)
(* Properties                                                              *)
(***************************************************************************)
(* A decision on a finding raised on one row holds on to the record: whatever was run, folded,
   removed and imported again since, the finding carries the analyst's latest decision, one that was
   set back to undecided stays so, and a decided record is never folded away. *)
DecisionStands ==
    mixed \cap {"removal", "revert"} = {} => \A f \in findings : f.rule # "engine" =>
        /\ AboutOneRow(f) => f.status = LastDecision(Subject(f))
        /\ ~AboutOneRow(f) => \A r \in f.refs : LastDecision(<<f.rule, r.rec>>) = "new"

Idle == /\ ~RunGoing /\ ~timer /\ engine = {}
        /\ \A e \in Evidence : files[e] \in {"absent", "present"}

(* Every row a rule matches is cited by exactly one of its findings, and no other row is. *)
Covers(rule) ==
    LET own == {f \in findings : f.rule = rule}
        matched == {r \in rows : r.rec \in Matches[rule]}
    IN  /\ UNION {f.refs : f \in own} = matched
        /\ \A r \in matched : Cardinality({f \in own : r \in f.refs}) = 1

UpToDate == /\ \A rule \in catalogue : Covers(rule)
            /\ level = 5 => \A f \in findings : f.rule \in catalogue => f.n = 1

(* The banners of the Findings page: evidence added since the last run, rules that failed in it. *)
Flagged == errors # {} \/ \E e \in addedAfter : files[e] = "present"

(* When nothing is going on, the findings are those of the rules on the rows the case has, none
   dropped by folding, or the page says they are behind. *)
FindingsKeepUp == Idle /\ mixed \subseteq {"revert"} => UpToDate \/ Flagged

(***************************************************************************)
(* What the docs say and the code does not do: see the README, Disagreements. *)
(***************************************************************************)
(* autoRunAfterIngest: the findings are refreshed "so the Findings page never lags behind". *)
FindingsNeverLag == Idle => UpToDate \/ Flagged

(* persistFindings: a run preserves the status "on findings whose key still exists". *)
KeyKeepsStatus == \A f \in findings : f.status = LastDecision(Subject(f))
=============================================================================
