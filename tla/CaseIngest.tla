----------------------------- MODULE CaseIngest -----------------------------
(***************************************************************************)
(* The ingestion of uploads into the server store of one case: the ingest  *)
(* view and its job function (backend/api/views/store.py), the writer that *)
(* batches rows (backend/services/store/writers.py: EventWriter) and the   *)
(* DuckDB store with its lock (backend/services/store/casestore.py),       *)
(* composed with the job manager of module Jobs: there is one ingestion    *)
(* job per evidence, and what Jobs leaves open, how a job's function ends, *)
(* is the outcome of the steps below.                                      *)
(*                                                                         *)
(* An evidence file is the sequence of the record keys of its rows.  Every *)
(* statement of the store commits on its own under the store's lock, so a  *)
(* step of the model is one statement.  An indicator is counted for every  *)
(* row that is written.  The staged upload is present or not: module       *)
(* Staging has its life.                                                   *)
(***************************************************************************)
EXTENDS Jobs, Sequences, FiniteSetsExt

CONSTANTS Content,    \* the record keys of the rows of each evidence file, in order
          Unkeyed,    \* the key of a row that is not a cloud record
          Packages,   \* the evidence whose writer is flushed even when the parse fails
          Batch,      \* BATCH, the rows of a batch
          MaxFaults,  \* bound: how many parse or write errors there are
          Nothing     \* no evidence

ASSUME ContentAssumption ==
  /\ DOMAIN Content = Jobs
  /\ \A j \in Jobs : \A a, b \in DOMAIN Content[j] :
       Content[j][a] = Content[j][b] => a = b \/ Content[j][a] = Unkeyed
ASSUME BatchAssumption == Batch \in Nat \ {0} /\ MaxFaults \in Nat /\ Packages \subseteq Jobs
ASSUME NothingAssumption == Nothing \notin Jobs

VARIABLES events,    \* the events table: rows [id, ev, n], n the place in the file
          nextId,    \* _next["events"]
          iocs,      \* the indicators counted for each evidence
          evidence,  \* the evidence table: status ("absent": no row) and count
          uploads,   \* the evidence whose upload is staged
          work,      \* the local variables of each job's function
          deleting,  \* the evidence a delete_evidence holds the store's lock for
          removed,   \* history: evidence somebody has removed
          faults     \* errors so far

store == <<events, nextId, iocs, evidence>>
caseVars == <<store, uploads, work, deleting, removed, faults, vars>>

NoWork == [pc |-> "off", fed |-> 0, batch |-> {}, keyed |-> FALSE, start |-> 0, dup |-> 0,
           last |-> FALSE, raised |-> "no"]

Key(j, n) == Content[j][n]
KeyOf(row) == Key(row.ev, row.n)
RowsOf(j) == {r \in events : r.ev = j}
Keys == {KeyOf(r) : r \in events} \ {Unkeyed}

-----------------------------------------------------------------------------
(* The job's function *)

At(j, pc) == thread[j] = "fn" /\ work[j].pc = pc

\* every write of the store takes its lock
Unlocked == deleting = Nothing

Set(j, w) == work' = [work EXCEPT ![j] = w]

\* A row from the parser goes into the batch; a full batch is flushed.
Feed(j) ==
  LET n == work[j].fed + 1
      b == work[j].batch \cup {n}
  IN
  /\ At(j, "parse")
  /\ n <= Len(Content[j])
  /\ Set(j, [work[j] EXCEPT !.fed = n, !.batch = b, !.keyed = @ \/ Key(j, n) # Unkeyed,
                            !.pc = IF Cardinality(b) >= Batch THEN "look" ELSE "parse"])
  /\ UNCHANGED <<store, uploads, deleting, removed, faults, vars>>

\* The parser has no more rows: the writer is flushed a last time.
EndOfFile(j) ==
  /\ At(j, "parse")
  /\ work[j].fed = Len(Content[j])
  /\ Set(j, [work[j] EXCEPT !.last = TRUE, !.pc = IF work[j].batch # {} THEN "look" ELSE "discard"])
  /\ UNCHANGED <<store, uploads, deleting, removed, faults, vars>>

\* The parser raises (or, after its last row, an engine or the statistics), or job.check(), asked
\* after a row, finds the cancellation: a package flushes what it has.
Stop(j, why) ==
  /\ At(j, "parse")
  /\ Set(j, [work[j] EXCEPT !.raised = why,
                            !.pc = IF j \in Packages /\ work[j].batch # {} THEN "look" ELSE "fail"])
  /\ UNCHANGED <<store, uploads, deleting, removed, vars>>

ParserRaises(j) == faults < MaxFaults /\ faults' = faults + 1 /\ Stop(j, "error")
CheckRaises(j) ==
  j \in cancel /\ work[j].fed > 0 /\ ~work[j].last /\ UNCHANGED faults /\ Stop(j, "cancelled")

\* faulty: the rows the case holds already are dropped without being counted
Look_Uncounted(j) ==
  LET have == {n \in work[j].batch : work[j].keyed /\ Key(j, n) \in Keys}
      kept == work[j].batch \ have
  IN
  /\ At(j, "look") /\ Unlocked
  /\ Set(j, [work[j] EXCEPT !.batch = kept, !.keyed = FALSE,
                            !.pc = IF kept = {} THEN "indicators" ELSE "reserve"])
  /\ UNCHANGED <<store, uploads, deleting, removed, faults, vars>>

\* existing_record_keys: rows whose record the case holds are not written
Look(j) ==
  LET have == {n \in work[j].batch : work[j].keyed /\ Key(j, n) \in Keys}
      kept == work[j].batch \ have
  IN
  /\ At(j, "look") /\ Unlocked
  /\ Set(j, [work[j] EXCEPT !.batch = kept, !.keyed = FALSE, !.dup = @ + Cardinality(have),
                            !.pc = IF kept = {} THEN "indicators" ELSE "reserve"])
  /\ UNCHANGED <<store, uploads, deleting, removed, faults, vars>>

\* faulty: the counter is read, not advanced
Reserve_NotAdvanced(j) ==
  /\ At(j, "reserve") /\ Unlocked
  /\ Set(j, [work[j] EXCEPT !.start = nextId, !.pc = "insert"])
  /\ UNCHANGED <<store, uploads, deleting, removed, faults, vars>>

\* reserve_ids
Reserve(j) ==
  /\ At(j, "reserve") /\ Unlocked
  /\ nextId' = nextId + Cardinality(work[j].batch)
  /\ Set(j, [work[j] EXCEPT !.start = nextId, !.pc = "insert"])
  /\ UNCHANGED <<events, iocs, evidence, uploads, deleting, removed, faults, vars>>

\* The rows of a batch get consecutive ids, in the order of the file.
NewRows(j) ==
  LET b == work[j].batch IN
  {[id |-> work[j].start + Cardinality({m \in b : m < n}), ev |-> j, n |-> n] : n \in b}

Insert(j) ==
  /\ At(j, "insert") /\ Unlocked
  /\ events' = events \cup NewRows(j)
  /\ Set(j, [work[j] EXCEPT !.pc = "indicators"])
  /\ UNCHANGED <<nextId, iocs, evidence, uploads, deleting, removed, faults, vars>>

\* The flush is the one of add, in the loop over the rows.
InLoop(j) == work[j].raised = "no" /\ ~work[j].last

\* The statement fails (a full disk).  In the loop, the row at hand is not counted, and a
\* package's finally clause flushes once more: the batch is still there, and its keys are not
\* looked up again.
InsertRaises(j) ==
  /\ At(j, "insert") /\ Unlocked
  /\ faults < MaxFaults /\ faults' = faults + 1
  /\ Set(j, [work[j] EXCEPT !.raised = "error",
                            !.fed = IF InLoop(j) THEN @ - 1 ELSE @,
                            !.pc = IF j \in Packages /\ InLoop(j) THEN "reserve" ELSE "fail"])
  /\ UNCHANGED <<store, uploads, deleting, removed, vars>>

\* The indicators of the batch, if it has any, and back to the caller of flush.
Indicators(j) ==
  /\ At(j, "indicators") /\ Unlocked
  /\ iocs' = [iocs EXCEPT ![j] = @ + Cardinality(work[j].batch)]
  /\ Set(j, [work[j] EXCEPT !.batch = {}, !.start = 0,
                            !.pc = IF work[j].raised = "no" THEN "parse" ELSE "fail"])
  /\ UNCHANGED <<events, nextId, evidence, uploads, deleting, removed, faults, vars>>

\* except: the evidence row says error, and counts the rows that were parsed
MarkFailed(j) ==
  /\ At(j, "fail") /\ Unlocked
  /\ evidence' = [evidence EXCEPT ![j] = [status |-> "error", count |-> work[j].fed]]
  /\ Set(j, [work[j] EXCEPT !.pc = "discard"])
  /\ UNCHANGED <<events, nextId, iocs, uploads, deleting, removed, faults, vars>>

\* faulty: only a successful ingestion discards its upload
Discard_OnSuccess(j) ==
  /\ At(j, "discard")
  /\ uploads' = IF work[j].raised = "no" THEN uploads \ {j} ELSE uploads
  /\ Set(j, [work[j] EXCEPT !.pc = IF work[j].raised = "no" THEN "done" ELSE "raise"])
  /\ UNCHANGED <<store, deleting, removed, faults, vars>>

\* finally: discard_upload
Discard(j) ==
  /\ At(j, "discard")
  /\ uploads' = uploads \ {j}
  /\ Set(j, [work[j] EXCEPT !.pc = IF work[j].raised = "no" THEN "done" ELSE "raise"])
  /\ UNCHANGED <<store, deleting, removed, faults, vars>>

MarkDone(j) ==
  /\ At(j, "done") /\ Unlocked
  /\ evidence' = [evidence EXCEPT ![j] = [status |-> "done", count |-> work[j].fed - work[j].dup]]
  /\ Set(j, [work[j] EXCEPT !.pc = "return"])
  /\ UNCHANGED <<events, nextId, iocs, uploads, deleting, removed, faults, vars>>

\* The function ends: the job manager takes over.  JobCancelled is what check() raised.
EndFn(j) ==
  /\ thread[j] = "fn"
  /\ \/ work[j].pc = "return" /\ FnReturn(j)
     \/ work[j].pc = "raise" /\ work[j].raised = "cancelled" /\ FnCancelled(j)
     \/ work[j].pc = "raise" /\ work[j].raised = "error" /\ FnRaise(j)
  /\ Set(j, NoWork)
  /\ UNCHANGED <<store, uploads, deleting, removed, faults>>

Ingest(j) ==
  \/ Feed(j) \/ EndOfFile(j) \/ ParserRaises(j) \/ CheckRaises(j)
  \/ Look(j) \/ Reserve(j) \/ Insert(j) \/ InsertRaises(j) \/ Indicators(j)
  \/ MarkFailed(j) \/ Discard(j) \/ MarkDone(j) \/ EndFn(j)

-----------------------------------------------------------------------------
(* The views *)

\* POST ingest: the upload is there and complete, the evidence row says parsing, a job is made
Post(j) ==
  /\ Submit(j)
  /\ Unlocked
  /\ evidence' = [evidence EXCEPT ![j] = [status |-> "parsing", count |-> 0]]
  /\ uploads' = uploads \cup {j}
  /\ UNCHANGED <<events, nextId, iocs, work, deleting, removed, faults>>

Start(j) ==
  /\ Acquire(j)
  /\ Set(j, [NoWork EXCEPT !.pc = "parse"])
  /\ UNCHANGED <<store, uploads, deleting, removed, faults>>

\* DELETE evidence: the tables one after the other, under the store's lock; the evidence page
\* offers it whatever the evidence is doing, and does not cancel its job.
DeleteEvents(j) ==
  /\ Unlocked
  /\ status[j] # "none" /\ j \notin removed
  /\ deleting' = j
  /\ removed' = removed \cup {j}
  /\ events' = events \ RowsOf(j)
  /\ UNCHANGED <<nextId, iocs, evidence, uploads, work, faults, vars>>

DeleteRest ==
  /\ deleting # Nothing
  /\ iocs' = [iocs EXCEPT ![deleting] = 0]
  /\ evidence' = [evidence EXCEPT ![deleting] = [status |-> "absent", count |-> 0]]
  /\ deleting' = Nothing
  /\ UNCHANGED <<events, nextId, uploads, work, removed, faults, vars>>

\* _next when the store is opened: one more than the highest id
NextIdOnOpen == IF events = {} THEN 1 ELSE 1 + Max({r.id : r \in events})

\* The process dies: jobs and counters are gone, what was committed and staged stays.
CaseCrash ==
  /\ Crash
  /\ work' = [j \in Jobs |-> NoWork]
  /\ deleting' = Nothing
  /\ nextId' = NextIdOnOpen
  /\ UNCHANGED <<events, iocs, evidence, uploads, removed, faults>>

-----------------------------------------------------------------------------
CaseInit ==
  /\ Init
  /\ events = {} /\ nextId = 1
  /\ iocs = [j \in Jobs |-> 0]
  /\ evidence = [j \in Jobs |-> [status |-> "absent", count |-> 0]]
  /\ uploads = {}
  /\ work = [j \in Jobs |-> NoWork]
  /\ deleting = Nothing
  /\ removed = {}
  /\ faults = 0

\* The steps of the job manager that are not the job's function (who polls the job is in Jobs).
Manage(j) ==
  /\ SetOutcome(j) \/ SetError(j) \/ Finish(j) \/ Cancel(j)
  /\ UNCHANGED <<store, uploads, work, deleting, removed, faults>>

CaseNext ==
  \/ \E j \in Jobs : Post(j) \/ Start(j) \/ Ingest(j) \/ Manage(j) \/ DeleteEvents(j)
  \/ DeleteRest
  \/ CaseCrash

CaseSpec == CaseInit /\ [][CaseNext]_caseVars

-----------------------------------------------------------------------------
(* Properties *)

Row == [id : Nat, ev : Jobs, n : Nat \ {0}]
Evidence == [status : {"absent", "parsing", "done", "error"}, count : Nat]
Work == [pc : {"off", "parse", "look", "reserve", "insert", "indicators", "fail", "discard", "done",
               "raise", "return"},
         fed : Nat, batch : SUBSET Nat, keyed : BOOLEAN, start : Nat, dup : Nat, last : BOOLEAN,
         raised : {"no", "error", "cancelled"}]

CaseTypeOK ==
  /\ events \subseteq Row
  /\ nextId \in Nat
  /\ iocs \in [Jobs -> Nat]
  /\ evidence \in [Jobs -> Evidence]
  /\ uploads \subseteq Jobs /\ removed \subseteq Jobs
  /\ deleting \in Jobs \cup {Nothing}
  /\ work \in [Jobs -> Work]
  /\ faults \in Nat

\* Two jobs that write at the same time, a write that failed and was repeated, and a store that
\* was opened again after a crash never give one id to two rows.
IdsUnique == \A r, s \in events : r.id = s.id => r = s

\* An evidence that is done says how many rows the case has of it, and every one of them has
\* its indicators, whatever was skipped as a repeat: unless somebody removed the evidence.
DoneCountsRows ==
  \A j \in Jobs \ removed : evidence[j].status = "done" =>
    /\ evidence[j].count = Cardinality(RowsOf(j))
    /\ iocs[j] = Cardinality(RowsOf(j))

\* Rows are never there without the evidence they came from, also after a crash half-way
\* through an ingestion ("the store stays consistent"): unless the evidence was removed.
RowsHaveEvidence ==
  \A r \in events : r.ev \notin removed => evidence[r.ev].status # "absent"

\* The evidence table and the rows agree, whoever reads them when.
EvidenceTellsOfRows == DoneCountsRows /\ RowsHaveEvidence

\* Whichever way a job ended, the upload it consumed is off the disk and the evidence row says
\* how it went; a job that said done has its rows marked done.
EndedJobSettled ==
  \A j \in Jobs : status[j] \in Terminal =>
    /\ j \notin uploads
    /\ j \notin removed => evidence[j].status \in {"done", "error"}
    /\ (status[j] = "done" /\ j \notin removed) => evidence[j].status = "done"
    /\ status[j] = "error" => evidence[j].status # "done"

(* What the docs say and the code does not do: see the README, Disagreements *)

\* "a record already in the case is not added again from a later export" (casestore.py:62-63):
\* no two rows of the case carry the same record key.
RecordsUnique ==
  \A r, s \in events : KeyOf(r) = KeyOf(s) /\ KeyOf(r) # Unkeyed => r = s

\* "Removing an evidence file deletes everything derived from it at once: its events, ..."
\* (docs/storage.md:99): once the deletion has been answered, the store has no row of it.
RemovedStaysRemoved ==
  \A j \in removed : deleting # j => RowsOf(j) = {} /\ evidence[j].status = "absent"
=============================================================================
