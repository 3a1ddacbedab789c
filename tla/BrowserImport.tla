---------------------------- MODULE BrowserImport ----------------------------
(***************************************************************************)
(* Imports into a case kept in the browser: several tabs share one         *)
(* IndexedDB.  The import worker writes rows in batches and the derived    *)
(* tables (facets, indicators) at the end; each import holds a Web Lock    *)
(* that the browser releases when its tab goes; a tab that starts stops    *)
(* the imports no live tab runs; removing evidence rebuilds the derived    *)
(* tables.  Every await of the code is a step boundary here.               *)
(***************************************************************************)
EXTENDS Integers, Sequences, FiniteSets, FiniteSetsExt

CONSTANTS
    Tab,        \* tabs of one browser, open on the case
    Import,     \* one per call of ingestToBrowser
    File,       \* [Import -> Seq(record)]: the file, as the record keys of its rows
    NoKey,      \* the key of a row that has none (an event log row)
    BATCH,      \* rows per write
    MaxClosings,\* bound: how often a tab is closed
    MaxRemovals,\* bound: how often evidence is removed
    MaxActive   \* bound: how many imports, repairs and removals run at once

ASSUME ImportAssumption ==
    /\ BATCH \in Nat \ {0} /\ MaxClosings \in Nat /\ MaxRemovals \in Nat /\ MaxActive \in Nat
    /\ \A i \in Import : File[i] \in Seq(Range(File[i]))

VARIABLES
    tabs,       \* the tabs that are open
    evidence,   \* [Import -> status of its row in db.evidence, "none" before, "removed" after]
    count,      \* [Import -> the count written on that row]
    stored,     \* [Import -> positions of File[i] that have a row in db.events / db.mails]
    derived,    \* [Table -> [id -> count]]: the rows that count one facet value, one indicator
    imp,        \* [Import -> the worker's local state]
    mend,       \* [Mender -> the local state of a start-up repair or a removal]
    raced,      \* history: two of them have run at once
    cut,        \* history: a repair or a removal has been cut by a closed tab
    closings, removals

importVars == <<tabs, evidence, count, stored, derived, imp, mend, raced, cut, closings, removals>>

Table == {"facets", "iocs"}
Mender == Tab \X {"boot", "remove"}
UNFINISHED == {"hashing", "uploading", "parsing"}
NoRow == [id |-> 0, n |-> 0]
Keys(i) == {File[i][p] : p \in DOMAIN File[i]} \ {NoKey}

IdleImport == [pc |-> "new", tab |-> {}, pos |-> 0, batch |-> {},
               counted |-> 0, inserted |-> 0, duplicates |-> 0, error |-> FALSE, seen |-> NoRow]
IdleMender == [pc |-> "off", todo |-> {}, it |-> {}, stopped |-> {}, counted |-> 0, seen |-> NoRow]

(***************************************************************************)
(* Who runs, and which locks are held                                      *)
(***************************************************************************)
Running(i) == imp[i].pc \notin {"new", "over", "dead"}
Mending(m) == mend[m].pc # "off"

(* The Web Lock of import i: its own tab's while it runs, a repair's while it stops it. *)
LockFree(i) == ~Running(i) /\ \A m \in Mender : mend[m].it # {i}

Active == ({"import"} \X {i \in Import : Running(i)}) \cup ({"mend"} \X {m \in Mender : Mending(m)})

Room == Cardinality(Active) < MaxActive

Noting == raced' = (raced \/ Cardinality(Active') > 1)

(***************************************************************************)
(* The derived tables.  Both are updated by reading the row of a value and *)
(* putting it back with the new count, outside any transaction.            *)
(***************************************************************************)
(* What the rows of a table count: the sum of their counts, as the size of a disjoint union. *)
SumOf(rows) == Cardinality(UNION {{id} \X (1 .. rows[id]) : id \in DOMAIN rows})
Total(t) == SumOf(derived[t])

(* The rows of the case, each under its import. *)
RowsIn(kept) == UNION {{i} \X kept[i] : i \in Import}
CaseRows == Cardinality(RowsIn(stored))

(* The row that holds the value when it is read (the last one, when there are two). *)
RowOf(t) == IF DOMAIN derived[t] = {} THEN NoRow
            ELSE LET id == Max(DOMAIN derived[t]) IN [id |-> id, n |-> derived[t][id]]

(* bulkPut of the row read, or of a new row (auto-increment) when none was. *)
Put(t, seen, n) ==
    IF n = 0 THEN derived
    ELSE LET id == IF seen.id > 0 THEN seen.id ELSE Max({0} \cup DOMAIN derived[t]) + 1
         IN  [derived EXCEPT ![t] = [k \in DOMAIN @ \cup {id} |-> IF k = id THEN seen.n + n ELSE @[k]]]

Wiped(ts) == [t \in Table |-> IF t \in ts THEN <<>> ELSE derived[t]]

(***************************************************************************)
(* The import worker                                                       *)
(***************************************************************************)
Goto(i, label) == imp' = [imp EXCEPT ![i].pc = label]

(* A status written with db.evidence.update: nothing happens when the row is gone. *)
WithStatus(i, s) == [evidence EXCEPT ![i] = IF @ = "removed" THEN @ ELSE s]

(* ingestToBrowser: the lock is taken, then the evidence is added. *)
StartImport(i, t) ==
    /\ imp[i].pc = "new" /\ t \in tabs /\ Room
    /\ imp' = [imp EXCEPT ![i].pc = "hash", ![i].tab = {t}]
    /\ evidence' = [evidence EXCEPT ![i] = "hashing"]
    /\ UNCHANGED <<tabs, count, stored, derived, mend, cut, closings, removals>> /\ Noting

(* A complete earlier import of the same file. *)
DuplicateOf(i) == {j \in Import \ {i} : evidence[j] = "done" /\ File[j] = File[i]}

Hashed(i) ==
    /\ imp[i].pc = "hash"
    /\ IF DuplicateOf(i) # {}
       THEN /\ evidence' = [evidence EXCEPT ![i] = "removed"]
            /\ Goto(i, "posted")
       ELSE /\ evidence' = WithStatus(i, "uploading")
            /\ Goto(i, "meta")
    /\ UNCHANGED <<tabs, count, stored, derived, mend, cut, closings, removals>> /\ Noting

Meta(i) ==
    /\ imp[i].pc = "meta"
    /\ evidence' = WithStatus(i, "parsing")
    /\ Goto(i, "stream")
    /\ UNCHANGED <<tabs, count, stored, derived, mend, cut, closings, removals>> /\ Noting

(* One row of the stream: a row without a record key is counted as it arrives; a full batch is
   flushed.  A line that does not parse is skipped by readNdjsonBody. *)
ReceiveRow(i) ==
    /\ imp[i].pc = "stream" /\ imp[i].pos < Len(File[i])
    /\ LET p == imp[i].pos + 1
           batch == imp[i].batch \cup {p}
       IN  \/ imp' = [imp EXCEPT ![i].pos = p, ![i].batch = batch,
                                 ![i].counted = @ + (IF File[i][p] = NoKey THEN 1 ELSE 0),
                                 ![i].pc = IF Cardinality(batch) >= BATCH THEN "held" ELSE "stream"]
           \/ imp' = [imp EXCEPT ![i].pos = p]
    /\ UNCHANGED <<tabs, evidence, count, stored, derived, mend, cut, closings, removals>> /\ Noting

(* flushEvents, up to its write: rows whose key the case holds are dropped, and the keyed rows that
   stay are counted. *)
HeldKeys == (UNION {{File[j][p] : p \in stored[j]} : j \in Import}) \ {NoKey}

Held_Faulty(i) == \* faulty: rows with a record key are left out of the counts
    /\ imp[i].pc \in {"held", "heldLast"}
    /\ LET kept == {p \in imp[i].batch : File[i][p] \notin HeldKeys}
       IN  imp' = [imp EXCEPT ![i].batch = kept,
                              ![i].duplicates = @ + Cardinality(imp[i].batch \ kept),
                              ![i].pc = IF @ = "held" THEN "add" ELSE "addLast"]
    /\ UNCHANGED <<tabs, evidence, count, stored, derived, mend, cut, closings, removals>> /\ Noting

Held(i) ==
    /\ imp[i].pc \in {"held", "heldLast"}
    /\ LET kept == {p \in imp[i].batch : File[i][p] \notin HeldKeys}
           keyed == {p \in kept : File[i][p] # NoKey}
       IN  imp' = [imp EXCEPT ![i].batch = kept,
                              ![i].duplicates = @ + Cardinality(imp[i].batch \ kept),
                              ![i].counted = @ + Cardinality(keyed),
                              ![i].pc = IF @ = "held" THEN "add" ELSE "addLast"]
    /\ UNCHANGED <<tabs, evidence, count, stored, derived, mend, cut, closings, removals>> /\ Noting

AddRows(i) ==
    /\ imp[i].pc \in {"add", "addLast"}
    /\ stored' = [stored EXCEPT ![i] = @ \cup imp[i].batch]
    /\ imp' = [imp EXCEPT ![i].inserted = @ + Cardinality(imp[i].batch), ![i].batch = {},
                          ![i].pc = IF @ = "add" THEN "stream" ELSE "facets"]
    /\ UNCHANGED <<tabs, evidence, count, derived, mend, cut, closings, removals>> /\ Noting

(* As the code, without the count of what arrived against what was sent. *)
EndOfStream_Faulty(i) == \* faulty: no comparison of emitted and received
    /\ imp[i].pc = "stream"
    /\ \/ imp[i].pos = Len(File[i]) /\ Goto(i, "heldLast")
       \/ imp' = [imp EXCEPT ![i].error = TRUE, ![i].pc = "heldLast"]
    /\ UNCHANGED <<tabs, evidence, count, stored, derived, mend, cut, closings, removals>> /\ Noting

(* The stream ends: with its completion record, which says how many rows were sent, or without. *)
EndOfStream(i) ==
    /\ imp[i].pc = "stream"
    /\ \/ /\ imp[i].pos = Len(File[i])
          /\ LET received == imp[i].inserted + imp[i].duplicates + Cardinality(imp[i].batch)
             IN  imp' = [imp EXCEPT ![i].error = (received # Len(File[i])), ![i].pc = "heldLast"]
       \/ imp' = [imp EXCEPT ![i].error = TRUE, ![i].pc = "heldLast"]
    /\ UNCHANGED <<tabs, evidence, count, stored, derived, mend, cut, closings, removals>> /\ Noting

ReadDerived(i) ==
    /\ \/ imp[i].pc = "facets" /\ imp' = [imp EXCEPT ![i].seen = RowOf("facets"), ![i].pc = "facetsPut"]
       \/ imp[i].pc = "iocs" /\ imp' = [imp EXCEPT ![i].seen = RowOf("iocs"), ![i].pc = "iocsPut"]
    /\ UNCHANGED <<tabs, evidence, count, stored, derived, mend, cut, closings, removals>> /\ Noting

flushFacets(i) ==
    /\ imp[i].pc = "facetsPut"
    /\ derived' = Put("facets", imp[i].seen, imp[i].counted)
    /\ imp' = [imp EXCEPT ![i].seen = NoRow, ![i].pc = "iocs"]
    /\ UNCHANGED <<tabs, evidence, count, stored, mend, cut, closings, removals>> /\ Noting

flushIocs(i) ==
    /\ imp[i].pc = "iocsPut"
    /\ derived' = Put("iocs", imp[i].seen, imp[i].counted)
    /\ imp' = [imp EXCEPT ![i].seen = NoRow, ![i].counted = 0, ![i].pc = "end"]
    /\ UNCHANGED <<tabs, evidence, count, stored, mend, cut, closings, removals>> /\ Noting

(* The last write of the worker, before it posts what happened. *)
FinishImport(i) ==
    /\ imp[i].pc = "end"
    /\ evidence' = WithStatus(i, IF imp[i].error THEN "error" ELSE "done")
    /\ count' = [count EXCEPT ![i] = imp[i].inserted]
    /\ imp' = [imp EXCEPT ![i] = [IdleImport EXCEPT !.pc = "posted", !.tab = imp[i].tab,
                                                     !.duplicates = imp[i].duplicates]]
    /\ UNCHANGED <<tabs, stored, derived, mend, cut, closings, removals>> /\ Noting

(* The tab gets the worker's last message: the promise resolves and the lock is released. *)
WorkerEnded(i) ==
    /\ imp[i].pc = "posted"
    /\ imp' = [imp EXCEPT ![i].pc = "over", ![i].tab = {}]
    /\ UNCHANGED <<tabs, evidence, count, stored, derived, mend, cut, closings, removals>> /\ Noting

(***************************************************************************)
(* Rebuilding the derived tables: used by the repair and by the removal    *)
(***************************************************************************)
MendTo(m, label) == mend' = [mend EXCEPT ![m].pc = label]

clearDerivedState(m) ==
    /\ mend[m].pc = "clear"
    /\ derived' = Wiped({"facets"})
    /\ MendTo(m, "scan")
    /\ UNCHANGED <<tabs, evidence, count, stored, imp, cut, closings, removals>> /\ Noting

RebuildScan(m) ==
    /\ mend[m].pc = "scan"
    /\ mend' = [mend EXCEPT ![m].counted = CaseRows, ![m].pc = "wipe"]
    /\ UNCHANGED <<tabs, evidence, count, stored, derived, imp, cut, closings, removals>> /\ Noting

RebuildWipe(m) ==
    /\ mend[m].pc = "wipe"
    /\ derived' = Wiped(Table)
    /\ MendTo(m, "facets")
    /\ UNCHANGED <<tabs, evidence, count, stored, imp, cut, closings, removals>> /\ Noting

RebuildRead(m) ==
    /\ \/ mend[m].pc = "facets" /\ mend' = [mend EXCEPT ![m].seen = RowOf("facets"), ![m].pc = "facetsPut"]
       \/ mend[m].pc = "iocs" /\ mend' = [mend EXCEPT ![m].seen = RowOf("iocs"), ![m].pc = "iocsPut"]
    /\ UNCHANGED <<tabs, evidence, count, stored, derived, imp, cut, closings, removals>> /\ Noting

RebuildPut(m) ==
    /\ \/ /\ mend[m].pc = "facetsPut"
          /\ derived' = Put("facets", mend[m].seen, mend[m].counted)
          /\ mend' = [mend EXCEPT ![m].seen = NoRow, ![m].pc = "iocs"]
       \/ /\ mend[m].pc = "iocsPut"
          /\ derived' = Put("iocs", mend[m].seen, mend[m].counted)
          /\ mend' = [mend EXCEPT ![m] = IdleMender]
    /\ UNCHANGED <<tabs, evidence, count, stored, imp, cut, closings, removals>> /\ Noting

(***************************************************************************)
(* The repair a tab makes when it starts                                   *)
(***************************************************************************)
OpenTab(t) ==
    /\ t \notin tabs /\ Room
    /\ tabs' = tabs \cup {t}
    /\ mend' = [mend EXCEPT ![<<t, "boot">>].pc = "list"]
    /\ UNCHANGED <<evidence, count, stored, derived, imp, cut, closings, removals>> /\ Noting

ListUnfinished(m) ==
    /\ mend[m].pc = "list"
    /\ mend' = [mend EXCEPT ![m].todo = {i \in Import : evidence[i] \in UNFINISHED}, ![m].pc = "next"]
    /\ UNCHANGED <<tabs, evidence, count, stored, derived, imp, cut, closings, removals>> /\ Noting

TakeLock_Faulty(m) == \* faulty: the lock is requested but not looked at
    /\ mend[m].pc = "next" /\ mend[m].todo # {}
    /\ \E i \in mend[m].todo :
         mend' = [mend EXCEPT ![m].todo = @ \ {i}, ![m].it = {i}, ![m].pc = "stop"]
    /\ UNCHANGED <<tabs, evidence, count, stored, derived, imp, cut, closings, removals>> /\ Noting

(* locks.request(..., ifAvailable): the next import, when its lock is free. *)
TakeLock(m) ==
    /\ mend[m].pc = "next" /\ mend[m].todo # {}
    /\ \E i \in mend[m].todo :
         mend' = [mend EXCEPT ![m].todo = @ \ {i},
                              ![m].it = IF LockFree(i) THEN {i} ELSE {},
                              ![m].pc = IF LockFree(i) THEN "stop" ELSE "next"]
    /\ UNCHANGED <<tabs, evidence, count, stored, derived, imp, cut, closings, removals>> /\ Noting

Stop_Faulty(m) == \* faulty: the status of the list is trusted
    /\ mend[m].pc = "stop"
    /\ \E i \in mend[m].it : stored' = [stored EXCEPT ![i] = {}]
    /\ MendTo(m, "mark")
    /\ UNCHANGED <<tabs, evidence, count, derived, imp, cut, closings, removals>> /\ Noting

(* stop: the status is read again under the lock, then the rows go. *)
Stop(m) ==
    /\ mend[m].pc = "stop"
    /\ \E i \in mend[m].it :
         IF evidence[i] \in UNFINISHED
         THEN /\ stored' = [stored EXCEPT ![i] = {}]
              /\ MendTo(m, "mark")
         ELSE /\ mend' = [mend EXCEPT ![m].it = {}, ![m].pc = "next"]
              /\ UNCHANGED stored
    /\ UNCHANGED <<tabs, evidence, count, derived, imp, cut, closings, removals>> /\ Noting

MarkStopped(m) ==
    /\ mend[m].pc = "mark"
    /\ \E i \in mend[m].it :
         /\ evidence' = WithStatus(i, "error")
         /\ count' = [count EXCEPT ![i] = 0]
         /\ mend' = [mend EXCEPT ![m].it = {}, ![m].stopped = @ \cup {i}, ![m].pc = "next"]
    /\ UNCHANGED <<tabs, stored, derived, imp, cut, closings, removals>> /\ Noting

EndOfList(m) ==
    /\ mend[m].pc = "next" /\ mend[m].todo = {}
    /\ mend' = [mend EXCEPT ![m] = IF @.stopped = {} THEN IdleMender ELSE [IdleMender EXCEPT !.pc = "clear"]]
    /\ UNCHANGED <<tabs, evidence, count, stored, derived, imp, cut, closings, removals>> /\ Noting

(***************************************************************************)
(* The analyst                                                             *)
(***************************************************************************)
(* The button is offered whatever the status of the evidence. *)
RemoveEvidence(t, i) ==
    /\ t \in tabs /\ removals < MaxRemovals /\ Room
    /\ mend[<<t, "remove">>].pc = "off"
    /\ evidence[i] \notin {"none", "removed"}
    /\ stored' = [stored EXCEPT ![i] = {}]
    /\ evidence' = [evidence EXCEPT ![i] = "removed"]
    /\ removals' = removals + 1
    /\ MendTo(<<t, "remove">>, "clear")
    /\ UNCHANGED <<tabs, count, derived, imp, cut, closings>> /\ Noting

(* Closed, reloaded or crashed: its workers die, its locks are released. *)
CloseTab(t) ==
    /\ t \in tabs /\ closings < MaxClosings
    /\ tabs' = tabs \ {t}
    /\ imp' = [i \in Import |->
                  IF Running(i) /\ t \in imp[i].tab
                  THEN [IdleImport EXCEPT !.pc = "dead", !.duplicates = imp[i].duplicates] ELSE imp[i]]
    /\ mend' = [m \in Mender |-> IF m[1] = t THEN IdleMender ELSE mend[m]]
    /\ cut' = (cut \/ \E m \in Mender : m[1] = t /\ Mending(m))
    /\ closings' = closings + 1
    /\ UNCHANGED <<evidence, count, stored, derived, removals>> /\ Noting

(***************************************************************************)
ImportInit ==
    /\ tabs = {}
    /\ evidence = [i \in Import |-> "none"]
    /\ count = [i \in Import |-> 0]
    /\ stored = [i \in Import |-> {}]
    /\ derived = [t \in Table |-> <<>>]
    /\ imp = [i \in Import |-> IdleImport]
    /\ mend = [m \in Mender |-> IdleMender]
    /\ raced = FALSE /\ cut = FALSE /\ closings = 0 /\ removals = 0

Worker(i) ==
    \/ Hashed(i) \/ Meta(i) \/ ReceiveRow(i) \/ Held(i) \/ AddRows(i) \/ EndOfStream(i)
    \/ ReadDerived(i) \/ flushFacets(i) \/ flushIocs(i) \/ FinishImport(i) \/ WorkerEnded(i)

MenderStep(m) ==
    \/ ListUnfinished(m) \/ TakeLock(m) \/ Stop(m) \/ MarkStopped(m) \/ EndOfList(m)
    \/ clearDerivedState(m) \/ RebuildScan(m) \/ RebuildWipe(m) \/ RebuildRead(m) \/ RebuildPut(m)

ImportNext ==
    \/ \E i \in Import : Worker(i)
    \/ \E i \in Import, t \in Tab : StartImport(i, t) \/ RemoveEvidence(t, i)
    \/ \E m \in Mender : MenderStep(m)
    \/ \E t \in Tab : OpenTab(t) \/ CloseTab(t)

ImportSpec == ImportInit /\ [][ImportNext]_importVars

(***************************************************************************)
(* Properties                                                              *)
(***************************************************************************)
(* The repair re-reads the status under the lock: no step takes an import that ended done to
   "stopped", in whatever order tabs start and imports finish. *)
DoneStaysDone == [][\A i \in Import : evidence[i] = "done" => evidence'[i] \in {"done", "removed"}]_importVars

(* While an import runs, every row it wrote is in the database: a repair in another tab removes the
   rows of imports nobody runs only. *)
LiveRowsKept ==
    \A i \in Import : Running(i) /\ evidence[i] # "removed" =>
        Cardinality(stored[i]) = (IF imp[i].pc = "posted" THEN count[i] ELSE imp[i].inserted)

(* An import marked done holds every record of its file, its own or one the case held already, and
   its count is the number of rows it added. *)
DoneIsComplete ==
    \A i \in Import : evidence[i] = "done" =>
        /\ count[i] = Cardinality(stored[i])
        /\ count[i] + imp[i].duplicates = Len(File[i])

(* Nothing runs and no import is waiting to be repaired. *)
Settled == Active = {} /\ \A i \in Import : evidence[i] \notin UNFINISHED

(* Whatever was closed, stopped, repaired, imported again and removed, one thing at a time: the
   facets and the indicators count the rows that are in the case, each once. *)
DerivedMatchesRows ==
    Settled /\ ~raced /\ ~cut =>
        \A t \in Table : Total(t) = CaseRows

(***************************************************************************)
(* What the docs say and the code does not do: see the README, Disagreements. *)
(***************************************************************************)
(* interruptedImports.ts: partial rows are removed "so the case counts nothing twice". *)
CountsNothingTwice ==
    Settled => \A t \in Table : Total(t) <= CaseRows
==============================================================================
