------------------------------ MODULE CaseSession ------------------------------
(****************************************************************************)
(* The cases of a browser and the tabs open on them: starting and opening a *)
(* case, deleting it, saving it to a bundle and restoring one, and the start*)
(* of a tab, which clears what a closed tab left half-restored.             *)
(*                                                                          *)
(* Source: frontend/src/data/caseBundle.ts, demoCase.ts, cases.ts,          *)
(* caseState.ts (removeCase), db/schema.ts (deleteCase), App.tsx,           *)
(* views/SettingsView.tsx (wipe, destroy).                                  *)
(*                                                                          *)
(* A tab runs one operation at a time; each step below is what one await of *)
(* the code leaves behind, and the steps of two tabs interleave.  Server    *)
(* cases keep their rows at the server and are not modelled here.  What the *)
(* other parts of the program write into an open case (imports, rule runs,  *)
(* notes) is Write.                                                         *)
(****************************************************************************)
EXTENDS CaseBundle

CONSTANTS Page,         \* the browser's tabs
          Demo,         \* the records of the demo case's bundle, of case 1
          MaxCases,     \* bound: cases ever added
          MaxWrites,    \* bound: records written into open cases
          MaxUses,      \* bound: operations the analyst starts
          MaxEnds,      \* bound: tabs closed or crashed
          MaxFailures   \* bound: batches the database refuses (its quota)

ASSUME CaseSessionAssumption ==
    /\ MaxCases \in Nat /\ MaxWrites \in Nat /\ MaxUses \in Nat /\ MaxEnds \in Nat /\ MaxFailures \in Nat
    /\ \A r \in Demo : /\ DOMAIN r = RecordFields /\ r.case = 1 /\ r.t \in Tables
                        /\ r.text \notin 1..MaxWrites   \* the texts of the records written (Write)

VARIABLES recs,       \* the records of every table but cases
          kases,      \* the cases table: id -> [name, restoring, whole]; whole: history, the bundle it must equal
          lastCase,   \* kv: the case the next tab opens (0: none)
          bundle,     \* the bundle saved last: its records, its case and whether the case changed meanwhile
          pages,      \* each tab: its step, the case it shows, and the locals of its operation
          nextIds,    \* the key generators: of each table, and of the cases
          condemned,  \* history: cases an analyst began to delete, or wrote into where there was no whole case
          spent       \* how much of each bound is used

caseTabs == <<recs, kases, lastCase, bundle, pages, nextIds, condemned, spent>>

Gone == [pc |-> "closed", open |-> 0, todo |-> {}, c |-> 0, from |-> {}, off |-> [t \in Tables |-> 0],
         part |-> {}, then |-> "idle", left |-> {}]
NoBundle == [recs |-> {}, case |-> 0, whole |-> FALSE]
NewCase(name) == [name |-> name, restoring |-> FALSE, whole |-> {}]

Ids == DOMAIN kases
Restoring == {c \in Ids : kases[c].restoring}
Goes(p, pc) == pages' = [pages EXCEPT ![p].pc = pc]
Shows(p, c) == pages' = [pages EXCEPT ![p].pc = "idle", ![p].open = c]
Spend(what) == spent[what] > 0 /\ spent' = [spent EXCEPT ![what] = @ - 1]
AddCase(id, row) == kases' = [i \in Ids \cup {id} |-> IF i = id THEN row ELSE kases[i]]

----------------------------------------------------------------------------
(* Deleting a case: four steps, in this order *)

Deleting(p) == pages[p].pc \in {"delData", "delRules", "delCase", "delLast"}

\* What a tab deletes while it holds the case's restore lock.
Holds(p, c) ==
    /\ pages[p].c = c
    /\ pages[p].pc \in {"fill", "finish"} \/ (Deleting(p) /\ pages[p].then \in {"sweep", "failed"})
LockFree(c) == ~\E p \in Page : Holds(p, c)

\* faulty: the case goes first and its records after it
DeleteStep_CaseFirst(p) ==
    LET c == pages[p].c IN
    /\ UNCHANGED <<lastCase, bundle, nextIds, condemned, spent>>
    /\ \/ pages[p].pc = "delData" /\ kases' = [i \in Ids \ {c} |-> kases[i]] /\ recs' = recs /\ Goes(p, "delRules")
       \/ pages[p].pc = "delRules" /\ recs' = recs \ InCase(recs, c) /\ kases' = kases /\ Goes(p, "delCase")

\* deleteCase: the rows and kv records in one transaction, then the custom rules, then the case.
DeleteStep(p) ==
    LET c == pages[p].c IN
    /\ UNCHANGED <<lastCase, bundle, nextIds, condemned, spent>>
    /\ \/ /\ pages[p].pc = "delData"
          /\ recs' = {r \in recs : r.case = c => r.t = "customRules"}
          /\ kases' = kases /\ Goes(p, "delRules")
       \/ /\ pages[p].pc = "delRules"
          /\ recs' = {r \in recs : r.case = c => r.t # "customRules"}
          /\ kases' = kases /\ Goes(p, "delCase")
       \/ /\ pages[p].pc = "delCase"
          /\ kases' = [i \in Ids \ {c} |-> kases[i]]
          /\ recs' = recs /\ Goes(p, "delLast")

\* The pointer to the last case goes too when it named this one; then what the deletion was part of goes on.
DeleteEnd(p) ==
    /\ pages[p].pc = "delLast"
    /\ lastCase' = IF lastCase = pages[p].c THEN 0 ELSE lastCase
    /\ pages' = [pages EXCEPT ![p].pc = IF pages[p].then = "failed" THEN "idle" ELSE pages[p].then, ![p].c = 0]
    /\ UNCHANGED <<recs, kases, bundle, nextIds, condemned, spent>>

BeginDelete(p, c, then) == pages' = [pages EXCEPT ![p].pc = "delData", ![p].c = c, ![p].then = then]

\* history: the case was given up by an analyst, so nothing of its bundle is owed any more.
Condemn(c) ==
    /\ condemned' = condemned \cup {c}
    /\ kases' = [i \in Ids |-> IF i = c THEN [kases[i] EXCEPT !.whole = {}] ELSE kases[i]]

\* The settings page, destroy: the case the tab shows (deleted in another tab meanwhile or not).
Destroy(p) ==
    /\ pages[p].pc = "idle" /\ pages[p].open # 0 /\ Spend("uses")
    /\ Condemn(pages[p].open)
    /\ BeginDelete(p, pages[p].open, "next")
    /\ UNCHANGED <<recs, lastCase, bundle, nextIds>>

\* removeCase goes on: the case to show is the one used last, or a fresh one when none is left.
ShowNext(p) ==
    /\ pages[p].pc = "next"
    /\ \/ \E c \in Ids : Shows(p, c) /\ lastCase' = c
       \/ Ids = {} /\ Goes(p, "fresh") /\ lastCase' = lastCase
    /\ UNCHANGED <<recs, kases, bundle, nextIds, condemned, spent>>

\* A case of one's own, for removeCase (which read that none was left) and for the dialogs of a new case.
AddAndShow(p, name) ==
    /\ nextIds.cases <= MaxCases
    /\ AddCase(nextIds.cases, NewCase(name))
    /\ nextIds' = [nextIds EXCEPT !.cases = @ + 1]
    /\ lastCase' = nextIds.cases /\ Shows(p, nextIds.cases)
FreshCase(p) ==
    /\ pages[p].pc = "fresh" /\ AddAndShow(p, "Case 1")
    /\ UNCHANGED <<recs, bundle, condemned, spent>>

\* The settings page, wipe: the data of the case, in one transaction; its custom rules and the case stay.
Wipe(p) ==
    /\ pages[p].pc = "idle" /\ pages[p].open \in Ids /\ Spend("uses")
    /\ recs' = {r \in recs : r.case = pages[p].open => r.t = "customRules"}
    /\ kases' = [kases EXCEPT ![pages[p].open].whole = {}]
    /\ UNCHANGED <<lastCase, bundle, pages, nextIds, condemned>>

----------------------------------------------------------------------------
(* A tab opens *)

\* removeInterruptedRestores begins: the cases still restoring, as one list.
Boot(p) ==
    /\ pages[p].pc = "closed"
    /\ pages' = [pages EXCEPT ![p].pc = "sweep", ![p].todo = Restoring]
    /\ UNCHANGED <<recs, kases, lastCase, bundle, nextIds, condemned, spent>>

\* faulty: the lock of the restore is not asked for
Sweep_NoLock(p) ==
    /\ pages[p].pc = "sweep" /\ pages[p].todo # {}
    /\ LET c == Min(pages[p].todo) IN
       pages' = IF c \in Restoring
                THEN [pages EXCEPT ![p].todo = @ \ {c}, ![p].pc = "delData", ![p].c = c, ![p].then = "sweep"]
                ELSE [pages EXCEPT ![p].todo = @ \ {c}]
    /\ UNCHANGED <<recs, kases, lastCase, bundle, nextIds, condemned, spent>>

\* The next of the list: deleted if its lock is free and it is, read again under the lock, still restoring.
Sweep(p) ==
    /\ pages[p].pc = "sweep" /\ pages[p].todo # {}
    /\ LET c == Min(pages[p].todo) IN
       pages' = IF LockFree(c) /\ c \in Restoring
                THEN [pages EXCEPT ![p].todo = @ \ {c}, ![p].pc = "delData", ![p].c = c, ![p].then = "sweep"]
                ELSE [pages EXCEPT ![p].todo = @ \ {c}]
    /\ UNCHANGED <<recs, kases, lastCase, bundle, nextIds, condemned, spent>>

\* One transaction: a default case when there is none; the list of cases the page starts from.
DefaultCase(p) ==
    /\ pages[p].pc = "sweep" /\ pages[p].todo = {}
    /\ \/ /\ Ids = {} /\ nextIds.cases <= MaxCases
          /\ AddCase(nextIds.cases, NewCase("Case 1"))
          /\ nextIds' = [nextIds EXCEPT !.cases = @ + 1]
          /\ lastCase' = nextIds.cases
       \/ Ids # {} /\ UNCHANGED <<kases, nextIds, lastCase>>
    /\ pages' = [pages EXCEPT ![p].pc = "opening", ![p].left = DOMAIN kases']
    /\ UNCHANGED <<recs, bundle, condemned, spent>>

\* The case shown last, if the list has it, or the first of the list; showing it makes it the last.
OpenLast(p) ==
    LET c == IF lastCase \in pages[p].left THEN lastCase ELSE Min(pages[p].left) IN
    /\ pages[p].pc = "opening"
    /\ pages' = [pages EXCEPT ![p].pc = "idle", ![p].open = c, ![p].left = {}]
    /\ lastCase' = c
    /\ UNCHANGED <<recs, kases, bundle, nextIds, condemned, spent>>

\* switchCase: a case of the page's list that is still there; it may be one another tab is restoring.
SwitchTo(p) ==
    /\ pages[p].pc = "idle" /\ Spend("uses")
    /\ \E c \in Ids \ {pages[p].open} : Shows(p, c) /\ lastCase' = c
    /\ UNCHANGED <<recs, kases, bundle, nextIds, condemned>>

\* startCase reads: the only case there is, still untouched, is taken over and not left beside a new one.
Untouched == {c \in Ids : Ids = {c} /\ kases[c].name = "Case 1" /\ Of(InCase(recs, c), "evidence") = {}}
StartRead(p) ==
    /\ pages[p].pc = "idle" /\ Spend("uses")
    /\ pages' = [pages EXCEPT ![p].pc = "start", ![p].left = Untouched]
    /\ UNCHANGED <<recs, kases, lastCase, bundle, nextIds, condemned>>

\* It writes what it read: the update of a case deleted meanwhile changes nothing, and the page shows no case.
StartWrite(p) ==
    /\ pages[p].pc = "start"
    /\ \/ /\ pages[p].left = {}
          /\ AddAndShow(p, "mine")
       \/ \E c \in pages[p].left :
              /\ kases' = [i \in Ids |-> IF i = c THEN [kases[i] EXCEPT !.name = "mine"] ELSE kases[i]]
              /\ lastCase' = c /\ nextIds' = nextIds
              /\ pages' = [pages EXCEPT ![p].pc = "idle", ![p].left = {}, ![p].open = IF c \in Ids THEN c ELSE 0]
    /\ UNCHANGED <<recs, bundle, condemned, spent>>

\* A tab is closed or crashes: its operation stops where it is, and its lock is free.
Close(p) ==
    /\ pages[p].pc # "closed" /\ Spend("ends")
    /\ pages' = [pages EXCEPT ![p] = Gone]
    /\ UNCHANGED <<recs, kases, lastCase, bundle, nextIds, condemned>>

----------------------------------------------------------------------------
(* Saving a case and restoring one *)

\* writeCaseBundle, first half: the tables are read one after the other, while other tabs write.
ExportRows(p) ==
    /\ pages[p].pc = "idle" /\ pages[p].open \in Ids /\ Spend("uses")
    /\ pages' = [pages EXCEPT ![p].pc = "export", ![p].c = pages[p].open, ![p].part = RowsPart(recs, pages[p].open)]
    /\ UNCHANGED <<recs, kases, lastCase, bundle, nextIds, condemned>>

\* Second half; the file is complete, and whole if the rows are still the ones it read.
ExportRest(p) ==
    LET c == pages[p].c IN
    /\ pages[p].pc = "export"
    /\ bundle' = [recs |-> pages[p].part \cup LastPart(recs, c), case |-> c,
                  whole |-> c \in Ids \ Restoring /\ pages[p].part = RowsPart(recs, c)]
    /\ pages' = [pages EXCEPT ![p].pc = "idle", ![p].part = {}, ![p].c = 0]
    /\ UNCHANGED <<recs, kases, lastCase, nextIds, condemned, spent>>

\* restoreRecords begins, the file verified: the lock is taken, the offsets read, and the case added as restoring.
\* whole: history, the records a restore of an unchanged case owes.
BeginRestore(p, b, owed, name, then) ==
    /\ nextIds.cases <= MaxCases
    /\ AddCase(nextIds.cases, [name |-> name, restoring |-> TRUE, whole |-> IF owed.whole THEN owed.recs ELSE {}])
    /\ nextIds' = [nextIds EXCEPT !.cases = @ + 1]
    /\ pages' = [pages EXCEPT ![p].pc = "fill", ![p].c = nextIds.cases, ![p].from = b.recs,
                              ![p].off = Offsets(recs), ![p].left = Tables, ![p].then = then]

\* restoreCaseBundle, on the report's page: a damaged copy is refused before anything is written.
ImportBundle(p) ==
    /\ pages[p].pc = "idle" /\ bundle # NoBundle /\ Spend("uses")
    /\ \E file \in Copies(bundle.recs) :
           IF Verified(file) THEN BeginRestore(p, [bundle EXCEPT !.recs = file.recs], bundle, "imported", "imported")
           ELSE UNCHANGED <<kases, nextIds, pages>>
    /\ UNCHANGED <<recs, lastCase, bundle, condemned>>

\* openDemoCase: a demo case that is whole is opened, one without evidence is deleted, and else it is restored.
OpenDemo(p) ==
    LET demos == {c \in Ids : kases[c].name = "demo" /\ ~kases[c].restoring}
        c == Min(demos)
    IN /\ pages[p].pc = "idle" /\ Spend("uses")
       /\ \/ /\ demos = {} /\ Goes(p, "fetch") /\ UNCHANGED <<kases, lastCase, condemned>>
          \/ /\ demos # {} /\ Of(InCase(recs, c), "evidence") = {}
             /\ BeginDelete(p, c, "fetch") /\ Condemn(c) /\ lastCase' = lastCase
          \/ /\ demos # {} /\ Of(InCase(recs, c), "evidence") # {}
             /\ Shows(p, c) /\ lastCase' = c /\ UNCHANGED <<kases, condemned>>
       /\ UNCHANGED <<recs, bundle, nextIds>>

FetchDemo(p) ==
    /\ pages[p].pc = "fetch"
    /\ LET demo == [recs |-> Demo, case |-> 1, whole |-> TRUE] IN BeginRestore(p, demo, demo, "demo", "demo")
    /\ UNCHANGED <<recs, lastCase, bundle, condemned, spent>>

\* The table whose batch is next, in the order of the file.
NextTable(p) == TABLES[Min({k \in DOMAIN TABLES : TABLES[k] \in pages[p].left})]
BatchOf(p) == {Remap(pages[p].from, pages[p].off, pages[p].c, r) : r \in Of(pages[p].from, NextTable(p))}

\* faulty: a record another tab wrote under the same id is overwritten
Fill_Puts(p) ==
    /\ pages[p].pc = "fill"
    /\ LET batch == BatchOf(p) IN
       /\ recs' = {s \in recs : ~\E r \in batch : Taken({s}, r)} \cup batch
       /\ nextIds' = [nextIds EXCEPT ![NextTable(p)] = Max({@} \cup {r.id + 1 : r \in batch})]
    /\ pages' = [pages EXCEPT ![p].left = @ \ {NextTable(p)},
                              ![p].pc = IF pages[p].left = {NextTable(p)} THEN "finish" ELSE "fill"]
    /\ UNCHANGED <<kases, lastCase, bundle, condemned, spent>>

\* flush: a batch of records under their new ids; the key generator passes them.
Fill(p) ==
    /\ pages[p].pc = "fill"
    /\ LET batch == BatchOf(p) IN
       /\ \A r \in batch : ~Taken(recs, r)
       /\ recs' = recs \cup batch
       /\ nextIds' = [nextIds EXCEPT ![NextTable(p)] = Max({@} \cup {r.id + 1 : r \in batch})]
    /\ pages' = [pages EXCEPT ![p].left = @ \ {NextTable(p)},
                              ![p].pc = IF pages[p].left = {NextTable(p)} THEN "finish" ELSE "fill"]
    /\ UNCHANGED <<kases, lastCase, bundle, condemned, spent>>

\* A batch is refused, for an id another tab has used since the offsets were read or for want of room:
\* the records before it may be in, and the case is deleted again.
FillFails(p) ==
    /\ pages[p].pc = "fill"
    /\ \/ (\E r \in BatchOf(p) : Taken(recs, r)) /\ spent' = spent
       \/ Spend("failures")
    /\ recs' = recs \cup {r \in BatchOf(p) : ~Taken(recs, r)}
    /\ pages' = [pages EXCEPT ![p].pc = "delData", ![p].then = "failed", ![p].left = {}]
    /\ UNCHANGED <<kases, lastCase, bundle, nextIds, condemned>>

\* The last batch is in: the case is no longer restoring.  The demo is then shown, if it is still there.
FinishRestore(p) ==
    LET c == pages[p].c IN
    /\ pages[p].pc = "finish"
    /\ kases' = [i \in Ids |-> IF i = c THEN [kases[i] EXCEPT !.restoring = FALSE] ELSE kases[i]]
    /\ pages' = [pages EXCEPT ![p] = [Gone EXCEPT !.pc = "idle",
                     !.open = IF pages[p].then = "imported" THEN pages[p].open ELSE IF c \in Ids THEN c ELSE 0]]
    /\ lastCase' = IF pages[p].then = "imported" THEN lastCase ELSE c
    /\ UNCHANGED <<recs, bundle, nextIds, condemned, spent>>

----------------------------------------------------------------------------
(* What the rest of the program writes *)

\* The kv records that name findings: the analyst's notes and the stories built.
StoryKeys == {"story-notes", "stories"}
Keyless == ""   \* of a record that is not in kv

\* A new record of the case c, of the table t; a custom rule is nobody's.
NewRecord(c, t, key, rule, ref, means) ==
    [t |-> t, id |-> IF t = "kv" THEN 0 ELSE nextIds[t], case |-> IF t = "customRules" THEN 0 ELSE c,
     key |-> key, rule |-> rule, ref |-> ref, text |-> spent.writes, means |-> means]
Writable(c) ==
    LET mine == InCase(recs, c)
        rules == {BUILT_IN} \cup {s.rule : s \in {r \in Of(recs, "customRules") : r.case \in {0, c}}}
    IN  {NewRecord(c, "evidence", Keyless, BUILT_IN, 0, 0), NewRecord(c, "customRules", Keyless, "custom", 0, 0)}
            \cup {NewRecord(c, "findings", Keyless, rule, e.id, e.text) : e \in Of(mine, "evidence"), rule \in rules}
            \cup {NewRecord(c, "kv", key, f.rule, f.ref, f.text) : f \in Of(mine, "findings"),
                       key \in StoryKeys}

\* An import, a rule run or the analyst adds a record to the case the tab shows, whatever else the tab does;
\* nothing asks whether the case is still there.
Write(p) ==
    LET c == pages[p].open IN
    /\ pages[p].pc # "closed" /\ c # 0 /\ Spend("writes")
    /\ \E r \in Writable(c) :
           /\ r.t = "kv" => ~Taken(recs, r)
           /\ recs' = recs \cup {r}
           /\ nextIds' = IF r.t = "kv" THEN nextIds ELSE [nextIds EXCEPT ![r.t] = @ + 1]
    /\ condemned' = IF c \in Ids \ Restoring THEN condemned ELSE condemned \cup {c}
    /\ UNCHANGED <<kases, lastCase, bundle, pages>>

----------------------------------------------------------------------------

FreshBrowser ==
    /\ recs = {} /\ kases = <<>> /\ lastCase = 0
    /\ bundle \in {NoBundle, [recs |-> Demo, case |-> 1, whole |-> TRUE]}   \* one saved by another browser
    /\ nextIds = [t \in Tables \cup {"cases"} |-> 1]

\* A browser where the demo case was opened, and its data deleted since.
EmptiedDemo ==
    /\ recs = Of(Demo, "customRules") /\ kases = [i \in {1} |-> NewCase("demo")] /\ lastCase = 1
    /\ bundle = NoBundle
    /\ nextIds = [t \in Tables \cup {"cases"} |-> 2]

SessionInit ==
    /\ FreshBrowser \/ EmptiedDemo
    /\ pages = [p \in Page |-> Gone]
    /\ condemned = {}
    /\ spent = [uses |-> MaxUses, writes |-> MaxWrites, ends |-> MaxEnds, failures |-> MaxFailures]

SessionNext ==
    \E p \in Page :
        \/ Boot(p) \/ Sweep(p) \/ DefaultCase(p) \/ OpenLast(p) \/ Close(p)
        \/ SwitchTo(p) \/ StartRead(p) \/ StartWrite(p)
        \/ Destroy(p) \/ DeleteStep(p) \/ DeleteEnd(p) \/ ShowNext(p) \/ FreshCase(p) \/ Wipe(p)
        \/ ExportRows(p) \/ ExportRest(p) \/ ImportBundle(p) \/ OpenDemo(p) \/ FetchDemo(p)
        \/ Fill(p) \/ FillFails(p) \/ FinishRestore(p)
        \/ Write(p)

SessionSpec == SessionInit /\ [][SessionNext]_caseTabs

----------------------------------------------------------------------------
(* Properties *)

\* A case that is no longer restoring holds every record of the bundle it came from, and each of them names
\* the record it named there, whatever the other tabs wrote, deleted or restored meanwhile (caseBundle.ts:197).
RestoredIsWhole == \A c \in Ids \ Restoring : kases[c].whole # {} => Whole(recs, kases[c].whole, c)

\* No record is left of a case that is gone, wherever a deletion or a restore stopped or a tab was closed,
\* unless the analyst deleted that case, or wrote into it while it was being restored or already gone:
\* a tab may still show it and write into it then (schema.ts:679).
NothingWithoutCase == \A r \in recs : r.case \in Ids \cup condemned \cup {0}
==============================================================================
