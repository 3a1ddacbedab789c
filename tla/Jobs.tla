-------------------------------- MODULE Jobs --------------------------------
(***************************************************************************)
(* The job manager (backend/api/jobs.py), the job endpoints                *)
(* (backend/api/views/store.py: job_detail, job_events) and the client     *)
(* that waits for a job (frontend/src/data/jobs.ts: waitForJob).           *)
(*                                                                         *)
(* Every job has a thread of its own that waits for the semaphore.  The    *)
(* runner writes status, result and error without the job's lock, and an   *)
(* answer reads them one after the other: each read and each write that    *)
(* another thread can see is a step.  What the job computes is abstracted  *)
(* to how it ends: it returns, it raises, or it notices the cancellation.  *)
(***************************************************************************)
EXTENDS Integers, FiniteSets

CONSTANTS Jobs,        \* the jobs that may be submitted
          Watched,     \* bound: the jobs whose client is modelled
          MaxWorkers,  \* Semaphore(max_workers)
          Keep,        \* how many finished jobs _gc keeps (200)
          MaxCrashes   \* bound: how often the server process dies

ASSUME JobsAssumption == IsFiniteSet(Jobs) /\ Watched \subseteq Jobs
ASSUME WorkersAssumption == MaxWorkers \in Nat \ {0}
ASSUME BoundsAssumption == Keep \in Nat /\ MaxCrashes \in Nat

VARIABLES status,      \* job.status; "none" before submit, "lost" when its process died
          result,      \* jobs whose job.result is set
          error,       \* jobs whose job.error is set
          cancel,      \* jobs whose cancel event is set
          finished,    \* job.finished, as the rank in which jobs finished; 0 if it has not
          registered,  \* manager._jobs
          thread,      \* where the runner of each job is
          permits,     \* what is left of the semaphore
          watch,       \* where the answer to each job's client is
          answer,      \* what that answer has read so far
          told,        \* what the client was told in the end
          crashes      \* deaths of the process so far

runner == <<status, result, error, finished, thread, permits>>
client == <<watch, answer, told>>
vars == <<runner, cancel, registered, client, crashes>>

Terminal == {"done", "error", "cancelled"}
Holding  == {"fn", "returned", "raised", "ending"}   \* inside `with self._sem`

NoAnswer == [withResult |-> FALSE, status |-> "none"]

Finished == {j \in Jobs : finished[j] > 0}

-----------------------------------------------------------------------------
(* JobManager *)

\* faulty: drops the jobs that finished last
GcDropped_Newest(reg) ==
  {j \in reg \cap Finished :
     Cardinality({k \in reg \cap Finished : finished[k] < finished[j]}) >= Keep}

\* _gc: of the finished jobs of the registry, all but the Keep that finished last
GcDropped(reg) ==
  {j \in reg \cap Finished :
     Cardinality({k \in reg \cap Finished : finished[k] > finished[j]}) >= Keep}

\* The client that submits learns the id and starts to wait for the job.
Submit(j) ==
  /\ status[j] = "none"
  /\ status' = [status EXCEPT ![j] = "queued"]
  /\ registered' = (registered \cup {j}) \ GcDropped(registered)
  /\ thread' = [thread EXCEPT ![j] = "blocked"]
  /\ watch' = [watch EXCEPT ![j] = IF j \in Watched THEN "ask" ELSE "off"]
  /\ UNCHANGED <<result, error, finished, permits, cancel, answer, told, crashes>>

Acquire(j) ==
  /\ thread[j] = "blocked"
  /\ permits > 0
  /\ permits' = permits - 1
  /\ thread' = [thread EXCEPT ![j] = "fn"]
  /\ status' = [status EXCEPT ![j] = "running"]
  /\ UNCHANGED <<result, error, finished, cancel, registered, client, crashes>>

\* job.result = fn(job)
FnReturn(j) ==
  /\ thread[j] = "fn"
  /\ thread' = [thread EXCEPT ![j] = "returned"]
  /\ result' = result \cup {j}
  /\ UNCHANGED <<status, error, finished, permits, cancel, registered, client, crashes>>

\* faulty: does not look at the cancel event
SetOutcome_AlwaysDone(j) ==
  /\ thread[j] = "returned"
  /\ thread' = [thread EXCEPT ![j] = "ending"]
  /\ status' = [status EXCEPT ![j] = "done"]
  /\ UNCHANGED <<result, error, finished, permits, cancel, registered, client, crashes>>

SetOutcome(j) ==
  /\ thread[j] = "returned"
  /\ thread' = [thread EXCEPT ![j] = "ending"]
  /\ status' = [status EXCEPT ![j] = IF j \in cancel THEN "cancelled" ELSE "done"]
  /\ UNCHANGED <<result, error, finished, permits, cancel, registered, client, crashes>>

\* job.check() raises JobCancelled
FnCancelled(j) ==
  /\ thread[j] = "fn"
  /\ j \in cancel
  /\ thread' = [thread EXCEPT ![j] = "ending"]
  /\ status' = [status EXCEPT ![j] = "cancelled"]
  /\ UNCHANGED <<result, error, finished, permits, cancel, registered, client, crashes>>

FnRaise(j) ==
  /\ thread[j] = "fn"
  /\ thread' = [thread EXCEPT ![j] = "raised"]
  /\ status' = [status EXCEPT ![j] = "error"]
  /\ UNCHANGED <<result, error, finished, permits, cancel, registered, client, crashes>>

SetError(j) ==
  /\ thread[j] = "raised"
  /\ thread' = [thread EXCEPT ![j] = "ending"]
  /\ error' = error \cup {j}
  /\ UNCHANGED <<status, result, finished, permits, cancel, registered, client, crashes>>

\* faulty: a job that failed keeps its permit
Finish_KeepsPermit(j) ==
  /\ thread[j] = "ending"
  /\ thread' = [thread EXCEPT ![j] = "gone"]
  /\ finished' = [finished EXCEPT ![j] = Cardinality(Finished) + 1]
  /\ permits' = IF status[j] = "error" THEN permits ELSE permits + 1
  /\ UNCHANGED <<status, result, error, cancel, registered, client, crashes>>

\* the finally clause, and the end of the with
Finish(j) ==
  /\ thread[j] = "ending"
  /\ thread' = [thread EXCEPT ![j] = "gone"]
  /\ finished' = [finished EXCEPT ![j] = Cardinality(Finished) + 1]
  /\ permits' = permits + 1
  /\ UNCHANGED <<status, result, error, cancel, registered, client, crashes>>

\* DELETE /api/jobs/<id>; a job that is not registered is a 404, and nothing reads the event of
\* a job that has finished
Cancel(j) ==
  /\ j \in registered \ Finished
  /\ cancel' = cancel \cup {j}
  /\ UNCHANGED <<runner, registered, client, crashes>>

-----------------------------------------------------------------------------
(* GET /api/jobs/<id>, asked again and again by waitForJob *)

\* faulty: a client whose job is unknown asks on
Peek_AsksOn(j) ==
  /\ watch[j] = "ask"
  /\ j \in registered
  /\ watch' = [watch EXCEPT ![j] = "peeked"]
  /\ answer' = [answer EXCEPT ![j].withResult = status[j] \in Terminal]
  /\ UNCHANGED <<runner, cancel, registered, told, crashes>>

\* manager.get, and job.status read for with_result
Peek(j) ==
  /\ watch[j] = "ask"
  /\ IF j \in registered
       THEN /\ watch' = [watch EXCEPT ![j] = "peeked"]
            /\ answer' = [answer EXCEPT ![j].withResult = status[j] \in Terminal]
            /\ UNCHANGED told
       ELSE /\ watch' = [watch EXCEPT ![j] = "off"]
            /\ told' = [told EXCEPT ![j] = "unknown"]
            /\ UNCHANGED answer
  /\ UNCHANGED <<runner, cancel, registered, crashes>>

\* to_dict reads job.status again
ReadStatus(j) ==
  /\ watch[j] = "peeked"
  /\ watch' = [watch EXCEPT ![j] = "read"]
  /\ answer' = [answer EXCEPT ![j].status = status[j]]
  /\ UNCHANGED <<runner, cancel, registered, told, crashes>>

\* faulty: an answer that has the result counts as done
Told_ByResult(j) ==
  IF answer[j].withResult THEN "done" ELSE answer[j].status

\* What waitForJob makes of the answer: it throws on error and on cancelled, and returns a done
\* job whether or not it carries a result ("empty": it does not).
Told(j) ==
  IF answer[j].status = "done" /\ (~answer[j].withResult \/ j \notin result)
    THEN "empty"
    ELSE answer[j].status

\* The rest of to_dict, and the client reads the answer.
Deliver(j) ==
  /\ watch[j] = "read"
  /\ answer' = [answer EXCEPT ![j] = NoAnswer]
  /\ IF answer[j].status \in Terminal
       THEN /\ watch' = [watch EXCEPT ![j] = "off"]
            /\ told' = [told EXCEPT ![j] = Told(j)]
       ELSE /\ watch' = [watch EXCEPT ![j] = "ask"]
            /\ UNCHANGED told
  /\ UNCHANGED <<runner, cancel, registered, crashes>>

\* A request that fails ends the wait: waitForJob does not ask again.
Unreachable(j) ==
  /\ watch[j] \in {"ask", "peeked", "read"}
  /\ watch' = [watch EXCEPT ![j] = "off"]
  /\ told' = [told EXCEPT ![j] = "unreachable"]
  /\ answer' = [answer EXCEPT ![j] = NoAnswer]
  /\ UNCHANGED <<runner, cancel, registered, crashes>>

\* The process ends: jobs are per process and not persisted.  An answer under way fails.
Crash ==
  /\ crashes < MaxCrashes
  /\ crashes' = crashes + 1
  /\ status' = [j \in Jobs |-> IF status[j] \in {"queued", "running"} THEN "lost" ELSE status[j]]
  /\ thread' = [j \in Jobs |-> IF thread[j] = "none" THEN "none" ELSE "gone"]
  /\ permits' = MaxWorkers
  /\ registered' = {}
  /\ watch' = [j \in Jobs |-> IF watch[j] \in {"peeked", "read"} THEN "off" ELSE watch[j]]
  /\ told' = [j \in Jobs |-> IF watch[j] \in {"peeked", "read"} THEN "unreachable" ELSE told[j]]
  /\ answer' = [j \in Jobs |-> NoAnswer]
  /\ UNCHANGED <<result, error, finished, cancel>>

-----------------------------------------------------------------------------
Init ==
  /\ status = [j \in Jobs |-> "none"]
  /\ result = {} /\ error = {} /\ cancel = {}
  /\ finished = [j \in Jobs |-> 0]
  /\ registered = {}
  /\ thread = [j \in Jobs |-> "none"]
  /\ permits = MaxWorkers
  /\ watch = [j \in Jobs |-> "off"]
  /\ answer = [j \in Jobs |-> NoAnswer]
  /\ told = [j \in Jobs |-> "nothing"]
  /\ crashes = 0

Fn(j)  == FnReturn(j) \/ FnCancelled(j) \/ FnRaise(j)
Run(j) == Acquire(j) \/ Fn(j) \/ SetOutcome(j) \/ SetError(j) \/ Finish(j)
Poll(j) == Peek(j) \/ ReadStatus(j) \/ Deliver(j)

Next == Crash \/ \E j \in Jobs : Submit(j) \/ Run(j) \/ Cancel(j) \/ Poll(j) \/ Unreachable(j)

Spec == Init /\ [][Next]_vars

\* Threads run, what a job computes ends, and a client that waits keeps asking.
FairSpec ==
  /\ Spec
  /\ \A j \in Jobs : WF_vars(Run(j))
  /\ \A j \in Watched : WF_vars(Poll(j))

-----------------------------------------------------------------------------
(* Properties *)

TypeOK ==
  /\ status \in [Jobs -> Terminal \cup {"none", "queued", "running", "lost"}]
  /\ result \subseteq Jobs /\ error \subseteq Jobs /\ cancel \subseteq Jobs
  /\ finished \in [Jobs -> Nat]
  /\ registered \subseteq Jobs
  /\ thread \in [Jobs -> Holding \cup {"none", "blocked", "gone"}]
  /\ permits \in 0 .. MaxWorkers
  /\ watch \in [Jobs -> {"off", "ask", "peeked", "read"}]
  /\ answer \in [Jobs -> [withResult : BOOLEAN,
                          status : Terminal \cup {"none", "queued", "running", "lost"}]]
  /\ told \in [Jobs -> Terminal \cup {"nothing", "empty", "unknown", "unreachable"}]
  /\ crashes \in Nat

\* A client that was told how its job ended was told the truth, although the answer reads the
\* job three times while its thread writes it: no end is announced that the job does not have.
ToldTheTruth ==
  \A j \in Jobs :
    /\ told[j] = "empty" => status[j] = "done"
    /\ told[j] = "done" => status[j] = "done" /\ j \in result
    /\ told[j] \in {"error", "cancelled"} => status[j] = told[j]

\* A job that is waiting or running is in the registry, so it can be polled and cancelled: _gc
\* never drops a job that has not finished, whenever it runs.
LiveJobsRegistered ==
  \A j \in Jobs : thread[j] \in Holding \cup {"blocked"} => j \in registered

\* "keep the last 200 finished jobs": a finished job this process dropped is one that Keep
\* registered jobs finished after.
LastFinishedKept ==
  crashes = 0 =>
    \A j \in Finished \ registered :
      Cardinality({k \in Finished \cap registered : finished[k] > finished[j]}) >= Keep

\* What _gc may drop, whatever finishes between two submissions: only jobs that ended, oldest first.
GcDropsOldFinished == LiveJobsRegistered /\ LastFinishedKept

\* Whatever order the threads, cancellations and polls come in, the manager does what
\* JobPromise says: a bounded number of jobs run, each ends once, its result comes with its end.
Promise == INSTANCE JobPromise WITH
             state <- status, asked <- cancel,
             outcome <- {j \in result : status[j] \in Terminal}

ImplementsPromise == Promise!Spec

\* Every job that was submitted ends, unless the process does: no permit is lost, whichever way
\* a job ends.
JobsEnd == \A j \in Jobs : status[j] = "queued" ~> status[j] \in Terminal \cup {"lost"}

\* A client that waits for a job learns something, even when the process died and the job is
\* unknown to the next one.
WaitEnds == \A j \in Watched : watch[j] = "ask" ~> watch[j] = "off"

\* Nobody waits for ever, neither a job for a permit nor a client for an answer.
WorkAndWaitsEnd == JobsEnd /\ WaitEnds

(* What a test says and the code does not do: see the README, Disagreements *)

\* A "done" answer carries the result (tests/backend/test_store.py:407-413 reads it from the
\* first answer that says done).
DoneAnswerHasResult == \A j \in Jobs : told[j] # "empty"
=============================================================================
