------------------------- MODULE CaseIngest_proofs -------------------------
(***************************************************************************)
(* Proofs about the job manager, then about the ingestions into a server   *)
(* case, which are jobs of it.                                             *)
(*                                                                         *)
(* For any set of jobs, any number of workers and any size of the          *)
(* registry, the manager's variables keep their types, live jobs are       *)
(* registered, clients are told the truth, and the manager implements      *)
(* JobPromise.  An ingestion is also a behaviour of the job manager, so    *)
(* all of this holds of the ingestion jobs.                                *)
(*                                                                         *)
(* For any evidence files, any number of them ingested at the same time,   *)
(* any batch size and any number of failures and restarts, ids are unique, *)
(* a done evidence counts its rows, and a job that ended has settled its   *)
(* evidence and its upload.                                                *)
(***************************************************************************)
EXTENDS CaseIngest, FiniteSetTheorems, WellFoundedInduction, TLAPS

-----------------------------------------------------------------------------
(* The job manager: the inductive invariant *)

Holders == {j \in Jobs : thread[j] \in Holding}

\* Where the runner of a job is says what its fields hold.
RunnerInv ==
  \A j \in Jobs :
    /\ thread[j] = "none" => status[j] = "none"
    /\ thread[j] = "blocked" => status[j] = "queued"
    /\ thread[j] = "fn" => status[j] = "running"
    /\ thread[j] = "returned" => status[j] = "running" /\ j \in result
    /\ thread[j] = "raised" => status[j] = "error"
    /\ thread[j] = "ending" => status[j] \in Terminal
    /\ thread[j] = "gone" => status[j] \in Terminal \cup {"lost"}
    /\ thread[j] \in {"none", "blocked", "fn"} => j \notin result
    /\ thread[j] \in {"none", "blocked", "fn", "returned", "raised", "ending"} => finished[j] = 0
    /\ status[j] = "done" => j \in result

\* Every permit is in the semaphore or held by one runner.
PermitsInv == permits + Cardinality(Holders) = MaxWorkers

\* What is registered was submitted.
RegisteredInv == \A j \in registered : status[j] # "none"

\* An answer under way that has read an end has read the end the job has.
AnswerInv ==
  \A j \in Jobs : answer[j].status \in Terminal => status[j] = answer[j].status

\* No rank is beyond the number of the jobs that have finished, so the next rank is the latest.
RankInv == \A j \in Jobs : finished[j] <= Cardinality(Finished)

Inv ==
  /\ TypeOK
  /\ RunnerInv
  /\ PermitsInv
  /\ RegisteredInv
  /\ LiveJobsRegistered
  /\ AnswerInv
  /\ ToldTheTruth
  /\ RankInv
  /\ LastFinishedKept

-----------------------------------------------------------------------------
(* Type correctness and the semaphore *)

\* The runners that hold a permit are finitely many, and so are the finished jobs.
LEMMA HoldersFinite ==
  ASSUME TypeOK
  PROVE  /\ IsFiniteSet(Holders) /\ Cardinality(Holders) \in Nat
         /\ IsFiniteSet(Finished) /\ Cardinality(Finished) \in Nat
<1>1. Holders \subseteq Jobs /\ Finished \subseteq Jobs
  BY DEF Holders, Finished
<1> QED
  BY <1>1, JobsAssumption, FS_Subset, FS_CardinalityType

\* A runner that takes a permit is one more holder, one that gives it back is one less, and
\* every other step of a runner keeps the holders as they are.
LEMMA HoldersChange ==
  ASSUME TypeOK, NEW j \in Jobs, NEW t \in Holding \cup {"blocked", "gone"},
         thread' = [thread EXCEPT ![j] = t]
  PROVE  /\ thread[j] \in Holding /\ t \in Holding =>
              Cardinality(Holders') = Cardinality(Holders)
         /\ thread[j] \notin Holding /\ t \in Holding =>
              Cardinality(Holders') = Cardinality(Holders) + 1
         /\ thread[j] \in Holding /\ t \notin Holding =>
              Cardinality(Holders') = Cardinality(Holders) - 1
         /\ thread[j] \notin Holding /\ t \notin Holding =>
              Cardinality(Holders') = Cardinality(Holders)
<1>1. CASE thread[j] \in Holding /\ t \in Holding
  <2>1. Holders' = Holders
    BY <1>1 DEF Holders, TypeOK
  <2> QED BY <1>1, <2>1
<1>2. CASE thread[j] \notin Holding /\ t \in Holding
  <2>1. Holders' = Holders \cup {j} /\ j \notin Holders
    BY <1>2 DEF Holders, TypeOK
  <2> QED BY <1>2, <2>1, HoldersFinite, FS_AddElement
<1>3. CASE thread[j] \in Holding /\ t \notin Holding
  <2>1. Holders' = Holders \ {j} /\ j \in Holders
    BY <1>3 DEF Holders, TypeOK
  <2> QED BY <1>3, <2>1, HoldersFinite, FS_RemoveElement
<1>4. CASE thread[j] \notin Holding /\ t \notin Holding
  <2>1. Holders' = Holders
    BY <1>4 DEF Holders, TypeOK
  <2> QED BY <1>4, <2>1
<1> QED BY <1>1, <1>2, <1>3, <1>4

\* The initial state has the invariant.
LEMMA InvInit == Init => Inv
<1> SUFFICES ASSUME Init PROVE Inv
  OBVIOUS
<1> USE DEF Init, NoAnswer, Terminal, Holding
<1>1. TypeOK
  BY WorkersAssumption DEF TypeOK
<1>2. PermitsInv
  <2>1. Holders = {}
    BY DEF Holders
  <2> QED BY <2>1, FS_EmptySet, WorkersAssumption DEF PermitsInv
<1>3. RunnerInv /\ RegisteredInv /\ LiveJobsRegistered /\ AnswerInv /\ ToldTheTruth
  BY DEF RunnerInv, RegisteredInv, LiveJobsRegistered, AnswerInv, ToldTheTruth
<1>4. RankInv /\ LastFinishedKept
  <2>1. Finished = {}
    BY DEF Finished
  <2> QED BY <2>1, FS_EmptySet DEF RankInv, LastFinishedKept
<1> QED BY <1>1, <1>2, <1>3, <1>4 DEF Inv

\* While a runner holds a permit, the semaphore does not have all of them.
LEMMA PermitHeld ==
  ASSUME TypeOK, PermitsInv, NEW j \in Jobs, thread[j] \in Holding
  PROVE  permits < MaxWorkers
<1>1. j \in Holders
  BY DEF Holders
<1>2. Cardinality(Holders) # 0
  <2>1. IsFiniteSet(Holders) /\ Holders # {}
    BY <1>1, HoldersFinite
  <2> QED BY <2>1, FS_EmptySet, Zenon
<1>3. Cardinality(Holders) \in Nat
  BY HoldersFinite
<1>4. permits + Cardinality(Holders) = MaxWorkers /\ permits \in Nat
  BY DEF PermitsInv, TypeOK
<1> QED BY <1>2, <1>3, <1>4, WorkersAssumption

\* Every step keeps the types: a permit that is given back was held.
LEMMA TypeStep == Inv /\ [Next]_vars => TypeOK'
<1> SUFFICES ASSUME Inv, [Next]_vars PROVE TypeOK'
  OBVIOUS
<1> USE DEF Inv, TypeOK, Terminal, Holding, NoAnswer, runner, client
<1>1. ASSUME NEW j \in Jobs, Submit(j) PROVE TypeOK'
  BY <1>1 DEF Submit
<1>2. ASSUME NEW j \in Jobs, Acquire(j) PROVE TypeOK'
  BY <1>2, WorkersAssumption DEF Acquire
<1>3. ASSUME NEW j \in Jobs, FnReturn(j) PROVE TypeOK'
  BY <1>3 DEF FnReturn
<1>4. ASSUME NEW j \in Jobs, FnCancelled(j) PROVE TypeOK'
  BY <1>4 DEF FnCancelled
<1>5. ASSUME NEW j \in Jobs, FnRaise(j) PROVE TypeOK'
  BY <1>5 DEF FnRaise
<1>6. ASSUME NEW j \in Jobs, SetOutcome(j) PROVE TypeOK'
  BY <1>6 DEF SetOutcome
<1>7. ASSUME NEW j \in Jobs, SetError(j) PROVE TypeOK'
  BY <1>7 DEF SetError
<1>8. ASSUME NEW j \in Jobs, Finish(j) PROVE TypeOK'
  <2>1. permits + 1 \in 0 .. MaxWorkers
    BY <1>8, PermitHeld, WorkersAssumption DEF Finish
  <2> QED BY <1>8, <2>1, HoldersFinite DEF Finish
<1>9. ASSUME NEW j \in Jobs, Cancel(j) PROVE TypeOK'
  BY <1>9 DEF Cancel
<1>10. ASSUME NEW j \in Jobs, Peek(j) PROVE TypeOK'
  <2>1. CASE j \in registered
    <3>1. answer' = [answer EXCEPT ![j] = [withResult |-> status[j] \in Terminal,
                                           status |-> answer[j].status]]
      BY <1>10, <2>1 DEF Peek
    <3>2. answer' \in [Jobs -> [withResult : BOOLEAN,
                                status : Terminal \cup {"none", "queued", "running", "lost"}]]
      BY <3>1
    <3> QED BY <1>10, <2>1, <3>2 DEF Peek
  <2>2. CASE j \notin registered
    BY <1>10, <2>2 DEF Peek
  <2> QED BY <2>1, <2>2
<1>11. ASSUME NEW j \in Jobs, ReadStatus(j) PROVE TypeOK'
  BY <1>11 DEF ReadStatus
<1>12. ASSUME NEW j \in Jobs, Deliver(j) PROVE TypeOK'
  BY <1>12 DEF Deliver, Told
<1>13. ASSUME NEW j \in Jobs, Unreachable(j) PROVE TypeOK'
  BY <1>13 DEF Unreachable
<1>14. ASSUME Crash PROVE TypeOK'
  BY <1>14, WorkersAssumption, BoundsAssumption DEF Crash
<1>15. ASSUME UNCHANGED vars PROVE TypeOK'
  BY <1>15 DEF vars, runner, client
<1> QED
  BY <1>1, <1>2, <1>3, <1>4, <1>5, <1>6, <1>7, <1>8, <1>9, <1>10, <1>11, <1>12, <1>13, <1>14, <1>15
  DEF Next, Run, Fn, Poll

\* No permit is lost or made, whichever way a job ends and whenever the process dies.
LEMMA PermitsStep == Inv /\ [Next]_vars => PermitsInv'
<1> SUFFICES ASSUME Inv, [Next]_vars PROVE PermitsInv'
  OBVIOUS
<1> USE DEF Inv
<1>1. ASSUME NEW j \in Jobs, Submit(j) PROVE PermitsInv'
  <2>1. thread[j] \notin Holding
    BY <1>1 DEF Submit, Holding, Terminal, RunnerInv
  <2>2. thread' = [thread EXCEPT ![j] = "blocked"] /\ "blocked" \notin Holding
    BY <1>1 DEF Submit, Holding
  <2>3. Cardinality(Holders') = Cardinality(Holders)
    BY <2>1, <2>2, HoldersChange
  <2> QED BY <1>1, <2>3 DEF Submit, PermitsInv
<1>2. ASSUME NEW j \in Jobs, Acquire(j) PROVE PermitsInv'
  <2>1. Cardinality(Holders') = Cardinality(Holders) + 1
    BY <1>2, HoldersChange DEF Acquire, Holding
  <2> QED BY <1>2, <2>1, HoldersFinite DEF Acquire, PermitsInv, TypeOK
<1>3. ASSUME NEW j \in Jobs, FnReturn(j) PROVE PermitsInv'
  <2>1. Cardinality(Holders') = Cardinality(Holders)
    BY <1>3, HoldersChange DEF FnReturn, Holding
  <2> QED BY <1>3, <2>1 DEF FnReturn, PermitsInv, runner
<1>4. ASSUME NEW j \in Jobs, FnCancelled(j) PROVE PermitsInv'
  <2>1. Cardinality(Holders') = Cardinality(Holders)
    BY <1>4, HoldersChange DEF FnCancelled, Holding
  <2> QED BY <1>4, <2>1 DEF FnCancelled, PermitsInv, runner
<1>5. ASSUME NEW j \in Jobs, FnRaise(j) PROVE PermitsInv'
  <2>1. Cardinality(Holders') = Cardinality(Holders)
    BY <1>5, HoldersChange DEF FnRaise, Holding
  <2> QED BY <1>5, <2>1 DEF FnRaise, PermitsInv, runner
<1>6. ASSUME NEW j \in Jobs, SetOutcome(j) PROVE PermitsInv'
  <2>1. Cardinality(Holders') = Cardinality(Holders)
    BY <1>6, HoldersChange DEF SetOutcome, Holding
  <2> QED BY <1>6, <2>1 DEF SetOutcome, PermitsInv, runner
<1>7. ASSUME NEW j \in Jobs, SetError(j) PROVE PermitsInv'
  <2>1. Cardinality(Holders') = Cardinality(Holders)
    BY <1>7, HoldersChange DEF SetError, Holding
  <2> QED BY <1>7, <2>1 DEF SetError, PermitsInv, runner
<1>8. ASSUME NEW j \in Jobs, Finish(j) PROVE PermitsInv'
  <2>1. thread[j] \in Holding
    BY <1>8 DEF Finish, Holding
  <2>2. thread' = [thread EXCEPT ![j] = "gone"] /\ "gone" \notin Holding
    BY <1>8 DEF Finish, Holding
  <2>3. Cardinality(Holders') = Cardinality(Holders) - 1
    BY <2>1, <2>2, HoldersChange
  <2>4. Cardinality(Holders) \in Nat
    BY HoldersFinite
  <2> QED BY <1>8, <2>3, <2>4 DEF Finish, PermitsInv, TypeOK
<1>9. ASSUME NEW j \in Jobs, Cancel(j) PROVE PermitsInv'
  <2>1. Holders' = Holders
    BY <1>9 DEF Cancel, Holders, runner
  <2> QED BY <1>9, <2>1 DEF Cancel, PermitsInv, runner
<1>10. ASSUME NEW j \in Jobs, Peek(j) PROVE PermitsInv'
  <2>1. Holders' = Holders
    BY <1>10 DEF Peek, Holders, runner
  <2> QED BY <1>10, <2>1 DEF Peek, PermitsInv, runner
<1>11. ASSUME NEW j \in Jobs, ReadStatus(j) PROVE PermitsInv'
  <2>1. Holders' = Holders
    BY <1>11 DEF ReadStatus, Holders, runner
  <2> QED BY <1>11, <2>1 DEF ReadStatus, PermitsInv, runner
<1>12. ASSUME NEW j \in Jobs, Deliver(j) PROVE PermitsInv'
  <2>1. Holders' = Holders
    BY <1>12 DEF Deliver, Holders, runner
  <2> QED BY <1>12, <2>1 DEF Deliver, PermitsInv, runner
<1>13. ASSUME NEW j \in Jobs, Unreachable(j) PROVE PermitsInv'
  <2>1. Holders' = Holders
    BY <1>13 DEF Unreachable, Holders, runner
  <2> QED BY <1>13, <2>1 DEF Unreachable, PermitsInv, runner
<1>14. ASSUME Crash PROVE PermitsInv'
  <2>1. Holders' = {}
    BY <1>14 DEF Crash, Holders, Holding, TypeOK
  <2> QED BY <1>14, <2>1, FS_EmptySet, WorkersAssumption DEF Crash, PermitsInv
<1>15. ASSUME UNCHANGED vars PROVE PermitsInv'
  BY <1>15 DEF vars, runner, PermitsInv, Holders
<1> QED
  BY <1>1, <1>2, <1>3, <1>4, <1>5, <1>6, <1>7, <1>8, <1>9, <1>10, <1>11, <1>12, <1>13, <1>14, <1>15
  DEF Next, Run, Fn, Poll

\* Where a runner is goes on saying what the fields of its job hold.
LEMMA RunnerStep == Inv /\ [Next]_vars => RunnerInv'
<1> SUFFICES ASSUME Inv, [Next]_vars PROVE RunnerInv'
  OBVIOUS
<1> USE DEF Inv, TypeOK, Terminal, Holding, NoAnswer, runner, client, RunnerInv
<1>1. ASSUME NEW j \in Jobs, Submit(j) PROVE RunnerInv'
  BY <1>1 DEF Submit
<1>2. ASSUME NEW j \in Jobs, Acquire(j) PROVE RunnerInv'
  BY <1>2 DEF Acquire
<1>3. ASSUME NEW j \in Jobs, FnReturn(j) PROVE RunnerInv'
  BY <1>3 DEF FnReturn
<1>4. ASSUME NEW j \in Jobs, FnCancelled(j) PROVE RunnerInv'
  BY <1>4 DEF FnCancelled
<1>5. ASSUME NEW j \in Jobs, FnRaise(j) PROVE RunnerInv'
  BY <1>5 DEF FnRaise
<1>6. ASSUME NEW j \in Jobs, SetOutcome(j) PROVE RunnerInv'
  BY <1>6 DEF SetOutcome
<1>7. ASSUME NEW j \in Jobs, SetError(j) PROVE RunnerInv'
  BY <1>7 DEF SetError
<1>8. ASSUME NEW j \in Jobs, Finish(j) PROVE RunnerInv'
  BY <1>8, HoldersFinite DEF Finish
<1>9. ASSUME NEW j \in Jobs, Cancel(j) PROVE RunnerInv'
  BY <1>9 DEF Cancel
<1>10. ASSUME NEW j \in Jobs, Peek(j) PROVE RunnerInv'
  BY <1>10 DEF Peek
<1>11. ASSUME NEW j \in Jobs, ReadStatus(j) PROVE RunnerInv'
  BY <1>11 DEF ReadStatus
<1>12. ASSUME NEW j \in Jobs, Deliver(j) PROVE RunnerInv'
  BY <1>12 DEF Deliver
<1>13. ASSUME NEW j \in Jobs, Unreachable(j) PROVE RunnerInv'
  BY <1>13 DEF Unreachable
<1>14. ASSUME Crash PROVE RunnerInv'
  BY <1>14 DEF Crash
<1>15. ASSUME UNCHANGED vars PROVE RunnerInv'
  BY <1>15 DEF vars, runner, client
<1> QED
  BY <1>1, <1>2, <1>3, <1>4, <1>5, <1>6, <1>7, <1>8, <1>9, <1>10, <1>11, <1>12, <1>13, <1>14, <1>15
  DEF Next, Run, Fn, Poll

\* Only a job that was submitted is in the registry.
LEMMA RegisteredStep == Inv /\ [Next]_vars => RegisteredInv'
<1> SUFFICES ASSUME Inv, [Next]_vars PROVE RegisteredInv'
  OBVIOUS
<1> USE DEF Inv, TypeOK, Terminal, Holding, NoAnswer, runner, client, RegisteredInv
<1>1. ASSUME NEW j \in Jobs, Submit(j) PROVE RegisteredInv'
  BY <1>1 DEF Submit, GcDropped
<1>2. ASSUME NEW j \in Jobs, Acquire(j) PROVE RegisteredInv'
  BY <1>2 DEF Acquire
<1>3. ASSUME NEW j \in Jobs, FnReturn(j) PROVE RegisteredInv'
  BY <1>3 DEF FnReturn
<1>4. ASSUME NEW j \in Jobs, FnCancelled(j) PROVE RegisteredInv'
  BY <1>4 DEF FnCancelled
<1>5. ASSUME NEW j \in Jobs, FnRaise(j) PROVE RegisteredInv'
  BY <1>5 DEF FnRaise
<1>6. ASSUME NEW j \in Jobs, SetOutcome(j) PROVE RegisteredInv'
  BY <1>6 DEF SetOutcome
<1>7. ASSUME NEW j \in Jobs, SetError(j) PROVE RegisteredInv'
  BY <1>7 DEF SetError
<1>8. ASSUME NEW j \in Jobs, Finish(j) PROVE RegisteredInv'
  BY <1>8 DEF Finish
<1>9. ASSUME NEW j \in Jobs, Cancel(j) PROVE RegisteredInv'
  BY <1>9 DEF Cancel
<1>10. ASSUME NEW j \in Jobs, Peek(j) PROVE RegisteredInv'
  BY <1>10 DEF Peek
<1>11. ASSUME NEW j \in Jobs, ReadStatus(j) PROVE RegisteredInv'
  BY <1>11 DEF ReadStatus
<1>12. ASSUME NEW j \in Jobs, Deliver(j) PROVE RegisteredInv'
  BY <1>12 DEF Deliver
<1>13. ASSUME NEW j \in Jobs, Unreachable(j) PROVE RegisteredInv'
  BY <1>13 DEF Unreachable
<1>14. ASSUME Crash PROVE RegisteredInv'
  BY <1>14 DEF Crash
<1>15. ASSUME UNCHANGED vars PROVE RegisteredInv'
  BY <1>15 DEF vars, runner, client
<1> QED
  BY <1>1, <1>2, <1>3, <1>4, <1>5, <1>6, <1>7, <1>8, <1>9, <1>10, <1>11, <1>12, <1>13, <1>14, <1>15
  DEF Next, Run, Fn, Poll

\* Neither a new job nor the collection it triggers drops a job that has not finished.
LEMMA LiveStep == Inv /\ [Next]_vars => LiveJobsRegistered'
<1> SUFFICES ASSUME Inv, [Next]_vars PROVE LiveJobsRegistered'
  OBVIOUS
<1> USE DEF Inv, TypeOK, Terminal, Holding, NoAnswer, runner, client, LiveJobsRegistered, RunnerInv
<1>1. ASSUME NEW j \in Jobs, Submit(j) PROVE LiveJobsRegistered'
  BY <1>1 DEF Submit, GcDropped, Finished
<1>2. ASSUME NEW j \in Jobs, Acquire(j) PROVE LiveJobsRegistered'
  BY <1>2 DEF Acquire
<1>3. ASSUME NEW j \in Jobs, FnReturn(j) PROVE LiveJobsRegistered'
  BY <1>3 DEF FnReturn
<1>4. ASSUME NEW j \in Jobs, FnCancelled(j) PROVE LiveJobsRegistered'
  BY <1>4 DEF FnCancelled
<1>5. ASSUME NEW j \in Jobs, FnRaise(j) PROVE LiveJobsRegistered'
  BY <1>5 DEF FnRaise
<1>6. ASSUME NEW j \in Jobs, SetOutcome(j) PROVE LiveJobsRegistered'
  BY <1>6 DEF SetOutcome
<1>7. ASSUME NEW j \in Jobs, SetError(j) PROVE LiveJobsRegistered'
  BY <1>7 DEF SetError
<1>8. ASSUME NEW j \in Jobs, Finish(j) PROVE LiveJobsRegistered'
  BY <1>8 DEF Finish
<1>9. ASSUME NEW j \in Jobs, Cancel(j) PROVE LiveJobsRegistered'
  BY <1>9 DEF Cancel
<1>10. ASSUME NEW j \in Jobs, Peek(j) PROVE LiveJobsRegistered'
  BY <1>10 DEF Peek
<1>11. ASSUME NEW j \in Jobs, ReadStatus(j) PROVE LiveJobsRegistered'
  BY <1>11 DEF ReadStatus
<1>12. ASSUME NEW j \in Jobs, Deliver(j) PROVE LiveJobsRegistered'
  BY <1>12 DEF Deliver
<1>13. ASSUME NEW j \in Jobs, Unreachable(j) PROVE LiveJobsRegistered'
  BY <1>13 DEF Unreachable
<1>14. ASSUME Crash PROVE LiveJobsRegistered'
  BY <1>14 DEF Crash
<1>15. ASSUME UNCHANGED vars PROVE LiveJobsRegistered'
  BY <1>15 DEF vars, runner, client
<1> QED
  BY <1>1, <1>2, <1>3, <1>4, <1>5, <1>6, <1>7, <1>8, <1>9, <1>10, <1>11, <1>12, <1>13, <1>14, <1>15
  DEF Next, Run, Fn, Poll

\* An end that an answer has read stays the end of the job.
LEMMA AnswerStep == Inv /\ [Next]_vars => AnswerInv'
<1> SUFFICES ASSUME Inv, [Next]_vars PROVE AnswerInv'
  OBVIOUS
<1> USE DEF Inv, TypeOK, Terminal, Holding, NoAnswer, runner, client, AnswerInv, RunnerInv
<1>1. ASSUME NEW j \in Jobs, Submit(j) PROVE AnswerInv'
  BY <1>1 DEF Submit
<1>2. ASSUME NEW j \in Jobs, Acquire(j) PROVE AnswerInv'
  BY <1>2 DEF Acquire
<1>3. ASSUME NEW j \in Jobs, FnReturn(j) PROVE AnswerInv'
  BY <1>3 DEF FnReturn
<1>4. ASSUME NEW j \in Jobs, FnCancelled(j) PROVE AnswerInv'
  BY <1>4 DEF FnCancelled
<1>5. ASSUME NEW j \in Jobs, FnRaise(j) PROVE AnswerInv'
  BY <1>5 DEF FnRaise
<1>6. ASSUME NEW j \in Jobs, SetOutcome(j) PROVE AnswerInv'
  BY <1>6 DEF SetOutcome
<1>7. ASSUME NEW j \in Jobs, SetError(j) PROVE AnswerInv'
  BY <1>7 DEF SetError
<1>8. ASSUME NEW j \in Jobs, Finish(j) PROVE AnswerInv'
  BY <1>8 DEF Finish
<1>9. ASSUME NEW j \in Jobs, Cancel(j) PROVE AnswerInv'
  BY <1>9 DEF Cancel
<1>10. ASSUME NEW j \in Jobs, Peek(j) PROVE AnswerInv'
  BY <1>10 DEF Peek
<1>11. ASSUME NEW j \in Jobs, ReadStatus(j) PROVE AnswerInv'
  BY <1>11 DEF ReadStatus
<1>12. ASSUME NEW j \in Jobs, Deliver(j) PROVE AnswerInv'
  BY <1>12 DEF Deliver
<1>13. ASSUME NEW j \in Jobs, Unreachable(j) PROVE AnswerInv'
  BY <1>13 DEF Unreachable
<1>14. ASSUME Crash PROVE AnswerInv'
  BY <1>14 DEF Crash
<1>15. ASSUME UNCHANGED vars PROVE AnswerInv'
  BY <1>15 DEF vars, runner, client
<1> QED
  BY <1>1, <1>2, <1>3, <1>4, <1>5, <1>6, <1>7, <1>8, <1>9, <1>10, <1>11, <1>12, <1>13, <1>14, <1>15
  DEF Next, Run, Fn, Poll

\* What a client was told stays true, and what it is told is.
LEMMA ToldStep == Inv /\ [Next]_vars => ToldTheTruth'
<1> SUFFICES ASSUME Inv, [Next]_vars PROVE ToldTheTruth'
  OBVIOUS
<1> USE DEF Inv, TypeOK, Terminal, Holding, NoAnswer, runner, client, ToldTheTruth, AnswerInv, RunnerInv
<1>1. ASSUME NEW j \in Jobs, Submit(j) PROVE ToldTheTruth'
  BY <1>1 DEF Submit
<1>2. ASSUME NEW j \in Jobs, Acquire(j) PROVE ToldTheTruth'
  BY <1>2 DEF Acquire
<1>3. ASSUME NEW j \in Jobs, FnReturn(j) PROVE ToldTheTruth'
  BY <1>3 DEF FnReturn
<1>4. ASSUME NEW j \in Jobs, FnCancelled(j) PROVE ToldTheTruth'
  BY <1>4 DEF FnCancelled
<1>5. ASSUME NEW j \in Jobs, FnRaise(j) PROVE ToldTheTruth'
  BY <1>5 DEF FnRaise
<1>6. ASSUME NEW j \in Jobs, SetOutcome(j) PROVE ToldTheTruth'
  BY <1>6 DEF SetOutcome
<1>7. ASSUME NEW j \in Jobs, SetError(j) PROVE ToldTheTruth'
  BY <1>7 DEF SetError
<1>8. ASSUME NEW j \in Jobs, Finish(j) PROVE ToldTheTruth'
  BY <1>8 DEF Finish
<1>9. ASSUME NEW j \in Jobs, Cancel(j) PROVE ToldTheTruth'
  BY <1>9 DEF Cancel
<1>10. ASSUME NEW j \in Jobs, Peek(j) PROVE ToldTheTruth'
  BY <1>10 DEF Peek
<1>11. ASSUME NEW j \in Jobs, ReadStatus(j) PROVE ToldTheTruth'
  BY <1>11 DEF ReadStatus
<1>12. ASSUME NEW j \in Jobs, Deliver(j) PROVE ToldTheTruth'
  BY <1>12 DEF Deliver, Told
<1>13. ASSUME NEW j \in Jobs, Unreachable(j) PROVE ToldTheTruth'
  BY <1>13 DEF Unreachable
<1>14. ASSUME Crash PROVE ToldTheTruth'
  BY <1>14 DEF Crash
<1>15. ASSUME UNCHANGED vars PROVE ToldTheTruth'
  BY <1>15 DEF vars, runner, client
<1> QED
  BY <1>1, <1>2, <1>3, <1>4, <1>5, <1>6, <1>7, <1>8, <1>9, <1>10, <1>11, <1>12, <1>13, <1>14, <1>15
  DEF Next, Run, Fn, Poll

\* A job that finishes joins the finished ones, with a rank of its own.
LEMMA FinishRanks ==
  ASSUME TypeOK, NEW f \in Jobs, Finish(f), finished[f] = 0
  PROVE  /\ Finished' = Finished \cup {f} /\ f \notin Finished
         /\ \A k \in Jobs : finished'[k] = IF k = f THEN Cardinality(Finished) + 1 ELSE finished[k]
<1>1. Cardinality(Finished) \in Nat
  BY HoldersFinite
<1>2. \A k \in Jobs : finished'[k] = IF k = f THEN Cardinality(Finished) + 1 ELSE finished[k]
  BY DEF Finish, TypeOK
<1>3. Finished' = Finished \cup {f} /\ f \notin Finished
  BY <1>1, <1>2 DEF Finished
<1> QED BY <1>2, <1>3

\* The rank a job finishes with is the number of those that have finished.
LEMMA RankStep == Inv /\ [Next]_vars => RankInv'
<1> SUFFICES ASSUME Inv, [Next]_vars PROVE RankInv'
  OBVIOUS
<1> USE DEF Inv, RankInv
<1>1. ASSUME NEW j \in Jobs, Submit(j) PROVE RankInv'
  BY <1>1 DEF Submit, Finished, runner
<1>2. ASSUME NEW j \in Jobs, Acquire(j) PROVE RankInv'
  BY <1>2 DEF Acquire, Finished, runner
<1>3. ASSUME NEW j \in Jobs, FnReturn(j) PROVE RankInv'
  BY <1>3 DEF FnReturn, Finished, runner
<1>4. ASSUME NEW j \in Jobs, FnCancelled(j) PROVE RankInv'
  BY <1>4 DEF FnCancelled, Finished, runner
<1>5. ASSUME NEW j \in Jobs, FnRaise(j) PROVE RankInv'
  BY <1>5 DEF FnRaise, Finished, runner
<1>6. ASSUME NEW j \in Jobs, SetOutcome(j) PROVE RankInv'
  BY <1>6 DEF SetOutcome, Finished, runner
<1>7. ASSUME NEW j \in Jobs, SetError(j) PROVE RankInv'
  BY <1>7 DEF SetError, Finished, runner
<1>8. ASSUME NEW j \in Jobs, Finish(j) PROVE RankInv'
  <2>1. /\ Finished' = Finished \cup {j} /\ j \notin Finished
        /\ \A k \in Jobs : finished'[k] = IF k = j THEN Cardinality(Finished) + 1 ELSE finished[k]
    BY <1>8, FinishRanks DEF Finish, RunnerInv
  <2>2. Cardinality(Finished') = Cardinality(Finished) + 1 /\ Cardinality(Finished) \in Nat
    BY <2>1, HoldersFinite, FS_AddElement
  <2>3. \A k \in Jobs : finished[k] \in Nat
    BY DEF TypeOK
  <2> QED BY <2>1, <2>2, <2>3 DEF RankInv
<1>9. ASSUME NEW j \in Jobs, Cancel(j) PROVE RankInv'
  BY <1>9 DEF Cancel, Finished, runner
<1>10. ASSUME NEW j \in Jobs, Peek(j) PROVE RankInv'
  BY <1>10 DEF Peek, Finished, runner
<1>11. ASSUME NEW j \in Jobs, ReadStatus(j) PROVE RankInv'
  BY <1>11 DEF ReadStatus, Finished, runner
<1>12. ASSUME NEW j \in Jobs, Deliver(j) PROVE RankInv'
  BY <1>12 DEF Deliver, Finished, runner
<1>13. ASSUME NEW j \in Jobs, Unreachable(j) PROVE RankInv'
  BY <1>13 DEF Unreachable, Finished, runner
<1>14. ASSUME Crash PROVE RankInv'
  BY <1>14 DEF Crash, Finished
<1>15. ASSUME UNCHANGED vars PROVE RankInv'
  BY <1>15 DEF vars, runner, Finished
<1> QED
  BY <1>1, <1>2, <1>3, <1>4, <1>5, <1>6, <1>7, <1>8, <1>9, <1>10, <1>11, <1>12, <1>13, <1>14, <1>15
  DEF Next, Run, Fn, Poll

\* The registered jobs that finished after a job.
Newer(j) == {k \in Finished \cap registered : finished[k] > finished[j]}

\* Some finished job of a set of them finished last.
LEMMA LastOf ==
  ASSUME TypeOK, RankInv, NEW D \in SUBSET Finished, D # {}
  PROVE  \E m \in D : \A e \in D : finished[e] <= finished[m]
<1> DEFINE N == Cardinality(Finished)
<1> DEFINE T == {N - finished[e] : e \in D}
<1>1. \A e \in D : finished[e] \in Nat /\ finished[e] <= N
  BY DEF Finished, TypeOK, RankInv
<1>2. N \in Nat
  BY HoldersFinite
<1>3. T \subseteq Nat /\ T # {}
  BY <1>1, <1>2
<1>4. PICK x \in T : \A y \in T : ~ (<<y, x>> \in OpToRel(<, Nat))
  BY <1>3, WFMin, NatLessThanWellFounded, Zenon
<1>5. \A y \in T : ~ (y < x)
  BY <1>3, <1>4, Zenon DEF OpToRel
<1>6. PICK m \in D : x = N - finished[m]
  BY <1>4
<1>7. ASSUME NEW e \in D PROVE finished[e] <= finished[m]
  BY <1>1, <1>2, <1>5, <1>6
<1> QED BY <1>7

\* When jobs are dropped, the last of them has Keep newer ones in the registry, and those stay.
LEMMA LastDropped ==
  ASSUME TypeOK, RankInv, GcDropped(registered) # {}
  PROVE  \E m \in GcDropped(registered) :
           /\ \A e \in GcDropped(registered) : finished[e] <= finished[m]
           /\ Newer(m) \cap GcDropped(registered) = {}
           /\ Cardinality(Newer(m)) >= Keep
<1> DEFINE D == GcDropped(registered)
<1>1. D \subseteq Finished \cap registered
  BY DEF GcDropped
<1>2. PICK m \in D : \A e \in D : finished[e] <= finished[m]
  BY <1>1, LastOf
<1>3. \A e \in D : finished[e] \in Nat
  BY <1>1 DEF Finished, TypeOK
<1>4. Newer(m) \cap D = {}
  BY <1>2, <1>3 DEF Newer
<1>5. Cardinality(Newer(m)) >= Keep
  BY <1>2 DEF GcDropped, Newer
<1> QED BY <1>2, <1>4, <1>5

\* A job whose newer ones are still there, and perhaps more of them, has no fewer.
LEMMA NewerGrows ==
  ASSUME TypeOK, NEW A, NEW B, B \subseteq Jobs, A \subseteq B, Cardinality(A) >= Keep
  PROVE  Cardinality(B) >= Keep
<1>1. IsFiniteSet(B)
  BY JobsAssumption, FS_Subset
<1>2. IsFiniteSet(A) /\ Cardinality(A) <= Cardinality(B)
  BY <1>1, FS_Subset
<1>3. Cardinality(A) \in Nat /\ Cardinality(B) \in Nat
  BY <1>1, <1>2, FS_CardinalityType
<1> QED BY <1>2, <1>3, BoundsAssumption

\* The collection of a new job keeps the last finished jobs.
LEMMA SubmitKeeps ==
  ASSUME Inv, NEW s \in Jobs, Submit(s)
  PROVE  LastFinishedKept'
<1> USE DEF Inv
<1> SUFFICES ASSUME crashes = 0, NEW j \in Finished, j \notin registered'
             PROVE  Cardinality(Newer(j)') >= Keep
  BY DEF LastFinishedKept, Newer, Submit, Finished
<1> DEFINE D == GcDropped(registered)
<1>1. Finished' = Finished /\ finished' = finished /\ registered' = (registered \cup {s}) \ D
  BY DEF Submit, Finished
<1>2. Newer(j)' \subseteq Jobs /\ Newer(j) \ D \subseteq Newer(j)'
  BY <1>1 DEF Newer, Finished
<1>3. \A k \in Finished : finished[k] \in Nat
  BY DEF Finished, TypeOK
<1>4. CASE Newer(j) \cap D = {} /\ j \notin D
  <2>1. j \notin registered
    BY <1>1, <1>4
  <2>2. Cardinality(Newer(j)) >= Keep
    BY <2>1 DEF LastFinishedKept, Newer
  <2>3. Newer(j) \subseteq Newer(j)'
    BY <1>2, <1>4
  <2> QED BY <1>2, <2>2, <2>3, NewerGrows
<1>5. CASE Newer(j) \cap D # {} \/ j \in D
  <2>1. PICK m \in D : /\ \A e \in D : finished[e] <= finished[m]
                       /\ Newer(m) \cap D = {}
                       /\ Cardinality(Newer(m)) >= Keep
    BY <1>5, LastDropped
  <2>2. finished[j] <= finished[m]
    <3>1. m \in Finished
      BY DEF GcDropped
    <3> QED BY <1>3, <1>5, <2>1, <3>1 DEF Newer
  <2>3. Newer(m) \subseteq Newer(j)
    <3>1. m \in Finished
      BY DEF GcDropped
    <3> QED BY <1>3, <2>2, <3>1 DEF Newer
  <2>4. Newer(m) \subseteq Newer(j)'
    BY <1>2, <2>1, <2>3
  <2> QED BY <1>2, <2>1, <2>4, NewerGrows
<1> QED BY <1>4, <1>5

\* A job that finishes is newer than the dropped ones; it is still registered.
LEMMA FinishKeeps ==
  ASSUME Inv, NEW f \in Jobs, Finish(f)
  PROVE  LastFinishedKept'
<1> USE DEF Inv
<1>1. thread[f] = "ending" /\ registered' = registered /\ crashes' = crashes
  BY DEF Finish
<1>2. f \in registered /\ finished[f] = 0
  BY <1>1 DEF LiveJobsRegistered, Holding, RunnerInv
<1>3. /\ Finished' = Finished \cup {f}
      /\ \A k \in Jobs : finished'[k] = IF k = f THEN Cardinality(Finished) + 1 ELSE finished[k]
  BY <1>2, FinishRanks
<1> SUFFICES ASSUME crashes = 0, NEW j \in Finished', j \notin registered
             PROVE  Cardinality(Newer(j)') >= Keep
  BY <1>1 DEF LastFinishedKept, Newer
<1>4. j \in Finished /\ j # f
  BY <1>2, <1>3
<1>5. Cardinality(Newer(j)) >= Keep
  BY <1>4 DEF LastFinishedKept, Newer
<1>6. Newer(j)' \subseteq Jobs
  BY DEF Newer, Finished
<1>7. Newer(j) \subseteq Newer(j)'
  <2> SUFFICES ASSUME NEW k \in Newer(j) PROVE k \in Newer(j)'
    OBVIOUS
  <2>1. k \in Finished \cap registered /\ k \in Jobs /\ finished[k] > finished[j] /\ k # f
    BY <1>2 DEF Newer, Finished
  <2>2. finished'[k] = finished[k] /\ finished'[j] = finished[j]
    BY <1>3, <1>4, <2>1 DEF Finished
  <2> QED BY <1>1, <1>3, <2>1, <2>2 DEF Newer
<1> QED BY <1>5, <1>6, <1>7, NewerGrows

\* The other steps touch neither the registry nor the ranks; a crash starts a new registry.
LEMMA KeptStep == Inv /\ [Next]_vars => LastFinishedKept'
<1> SUFFICES ASSUME Inv, [Next]_vars PROVE LastFinishedKept'
  OBVIOUS
<1> USE DEF Inv, LastFinishedKept
<1>1. ASSUME NEW j \in Jobs, Submit(j) PROVE LastFinishedKept'
  BY <1>1, SubmitKeeps DEF Inv
<1>2. ASSUME NEW j \in Jobs, Acquire(j) PROVE LastFinishedKept'
  BY <1>2 DEF Acquire, Finished, runner
<1>3. ASSUME NEW j \in Jobs, FnReturn(j) PROVE LastFinishedKept'
  BY <1>3 DEF FnReturn, Finished, runner
<1>4. ASSUME NEW j \in Jobs, FnCancelled(j) PROVE LastFinishedKept'
  BY <1>4 DEF FnCancelled, Finished, runner
<1>5. ASSUME NEW j \in Jobs, FnRaise(j) PROVE LastFinishedKept'
  BY <1>5 DEF FnRaise, Finished, runner
<1>6. ASSUME NEW j \in Jobs, SetOutcome(j) PROVE LastFinishedKept'
  BY <1>6 DEF SetOutcome, Finished, runner
<1>7. ASSUME NEW j \in Jobs, SetError(j) PROVE LastFinishedKept'
  BY <1>7 DEF SetError, Finished, runner
<1>8. ASSUME NEW j \in Jobs, Finish(j) PROVE LastFinishedKept'
  BY <1>8, FinishKeeps DEF Inv
<1>9. ASSUME NEW j \in Jobs, Cancel(j) PROVE LastFinishedKept'
  BY <1>9 DEF Cancel, Finished, runner
<1>10. ASSUME NEW j \in Jobs, Peek(j) PROVE LastFinishedKept'
  BY <1>10 DEF Peek, Finished, runner
<1>11. ASSUME NEW j \in Jobs, ReadStatus(j) PROVE LastFinishedKept'
  BY <1>11 DEF ReadStatus, Finished, runner
<1>12. ASSUME NEW j \in Jobs, Deliver(j) PROVE LastFinishedKept'
  BY <1>12 DEF Deliver, Finished, runner
<1>13. ASSUME NEW j \in Jobs, Unreachable(j) PROVE LastFinishedKept'
  BY <1>13 DEF Unreachable, Finished, runner
<1>14. ASSUME Crash PROVE LastFinishedKept'
  BY <1>14 DEF Crash, TypeOK
<1>15. ASSUME UNCHANGED vars PROVE LastFinishedKept'
  BY <1>15 DEF vars, runner, Finished
<1> QED
  BY <1>1, <1>2, <1>3, <1>4, <1>5, <1>6, <1>7, <1>8, <1>9, <1>10, <1>11, <1>12, <1>13, <1>14, <1>15
  DEF Next, Run, Fn, Poll

-----------------------------------------------------------------------------
(* The theorems *)

\* The conjunction is an invariant: the initial state has it and every step keeps it.
THEOREM JobsInvariant == Spec => []Inv
<1>1. Inv /\ [Next]_vars => Inv'
  BY TypeStep, PermitsStep, RunnerStep, RegisteredStep, LiveStep, AnswerStep, ToldStep,
     RankStep, KeptStep DEF Inv
<1> QED BY InvInit, <1>1, PTL DEF Spec

\* The fields of the job manager keep their types, with never fewer than no permits and never
\* more than the semaphore was made with.
THEOREM JobsTypeCorrect == Spec => []TypeOK
<1>1. Inv => TypeOK
  BY DEF Inv
<1> QED BY JobsInvariant, <1>1, PTL

\* A client is never told of an end its job does not have, in whatever order the reads of an
\* answer and the writes of the runner come.
THEOREM ClientsToldTheTruth == Spec => []ToldTheTruth
<1>1. Inv => ToldTheTruth
  BY DEF Inv
<1> QED BY JobsInvariant, <1>1, PTL

\* A job that waits or runs can be polled and cancelled: the registry never drops it.
THEOREM LiveJobsStayRegistered == Spec => []LiveJobsRegistered
<1>1. Inv => LiveJobsRegistered
  BY DEF Inv
<1> QED BY JobsInvariant, <1>1, PTL

\* Of the finished jobs the registry keeps those that finished last: in one process, a job is
\* dropped only when Keep registered jobs finished after it.
THEOREM LastFinishedStayKept == Spec => []LastFinishedKept
<1>1. Inv => LastFinishedKept
  BY DEF Inv
<1> QED BY JobsInvariant, <1>1, PTL

\* _gc drops only jobs that ended, and of those never one of the last Keep to finish.
THEOREM GcDropsOnlyOldFinished == Spec => []GcDropsOldFinished
<1>1. Inv => GcDropsOldFinished
  BY DEF Inv, GcDropsOldFinished
<1> QED BY JobsInvariant, <1>1, PTL

-----------------------------------------------------------------------------
(* The job manager implements JobPromise *)

\* A free permit is room for one more job to run.
LEMMA RoomToRun ==
  ASSUME TypeOK, RunnerInv, PermitsInv, permits > 0
  PROVE  Cardinality(Promise!Running) < MaxWorkers
<1>1. Promise!Running \subseteq Holders
  BY DEF Promise!Running, Holders, Holding, RunnerInv, TypeOK, Terminal
<1>2. Cardinality(Promise!Running) <= Cardinality(Holders) /\ Cardinality(Promise!Running) \in Nat
  BY <1>1, HoldersFinite, FS_Subset, FS_CardinalityType
<1>3. Cardinality(Holders) \in Nat
  BY HoldersFinite
<1> QED BY <1>2, <1>3, WorkersAssumption DEF PermitsInv, TypeOK

\* Every step of the manager is a step of the promise, or changes nothing it speaks of.
LEMMA PromiseStep == Inv /\ [Next]_vars => [Promise!Next]_(Promise!vars)
<1> SUFFICES ASSUME Inv, [Next]_vars PROVE [Promise!Next]_(Promise!vars)
  OBVIOUS
<1> USE DEF Inv, Promise!vars
<1>1. ASSUME NEW j \in Jobs, Submit(j) PROVE Promise!Submit(j)
  BY <1>1 DEF Submit, Promise!Submit, TypeOK, Terminal, RunnerInv
<1>2. ASSUME NEW j \in Jobs, Acquire(j) PROVE Promise!Start(j)
  <2>1. status[j] = "queued" /\ Cardinality(Promise!Running) < MaxWorkers
    BY <1>2, RoomToRun DEF Acquire, RunnerInv
  <2>2. status' = [status EXCEPT ![j] = "running"] /\ result' = result /\ cancel' = cancel
    BY <1>2 DEF Acquire
  <2>3. {k \in result' : status'[k] \in Terminal} = {k \in result : status[k] \in Terminal}
    BY <2>1, <2>2 DEF TypeOK, Terminal
  <2>4. Promise!Cardinality(Promise!Running) = Cardinality(Promise!Running)
    BY DEF Promise!Cardinality, Cardinality
  <2> QED BY <2>1, <2>2, <2>3, <2>4 DEF Promise!Start
<1>3. ASSUME NEW j \in Jobs, FnReturn(j) PROVE UNCHANGED Promise!vars
  BY <1>3 DEF FnReturn, TypeOK, Terminal, RunnerInv
<1>4. ASSUME NEW j \in Jobs, SetOutcome(j) PROVE Promise!Return(j)
  BY <1>4 DEF SetOutcome, Promise!Return, TypeOK, Terminal, RunnerInv
<1>5. ASSUME NEW j \in Jobs, FnCancelled(j) PROVE Promise!Fail(j)
  BY <1>5 DEF FnCancelled, Promise!Fail, TypeOK, Terminal, RunnerInv
<1>6. ASSUME NEW j \in Jobs, FnRaise(j) PROVE Promise!Fail(j)
  BY <1>6 DEF FnRaise, Promise!Fail, TypeOK, Terminal, RunnerInv
<1>7. ASSUME NEW j \in Jobs, SetError(j) \/ Finish(j) \/ Poll(j) \/ Unreachable(j)
      PROVE  UNCHANGED Promise!vars
  BY <1>7 DEF SetError, Finish, Poll, Peek, ReadStatus, Deliver, Unreachable, runner
<1>8. ASSUME NEW j \in Jobs, Cancel(j) PROVE Promise!Ask(j)
  BY <1>8 DEF Cancel, Promise!Ask, RegisteredInv, runner
<1>9. ASSUME Crash PROVE Promise!Lose
  BY <1>9 DEF Crash, Promise!Lose, TypeOK, Terminal
<1>10. ASSUME UNCHANGED vars PROVE UNCHANGED Promise!vars
  BY <1>10 DEF vars, runner
<1> QED
  BY <1>1, <1>2, <1>3, <1>4, <1>5, <1>6, <1>7, <1>8, <1>9, <1>10 DEF Next, Run, Fn, Promise!Next

\* The manager with its threads, its semaphore and its registry does what JobPromise says: at
\* most MaxWorkers jobs run, each ends once, and its result appears with its end.
THEOREM ManagerKeepsPromise == Spec => ImplementsPromise
<1>1. Init => Promise!Init
  BY DEF Init, Promise!Init
<1> QED BY JobsInvariant, <1>1, PromiseStep, PTL DEF Spec, ImplementsPromise, Promise!Spec

-----------------------------------------------------------------------------
(* The ingestions: the inductive invariant *)

\* The local variables of a job's function exist while it runs, and where it stands says whether
\* something was raised.  Until then every row of the batch was fed and is counted once.
Working(j) ==
  LET w == work[j] IN
  /\ thread[j] = "fn" <=> w.pc # "off"
  /\ w.pc \in {"parse", "done", "return"} => w.raised = "no"
  /\ w.pc \in {"fail", "raise"} => w.raised # "no"
  /\ IsFiniteSet(w.batch)
  /\ w.pc \in {"look", "reserve", "insert"} => w.batch # {}
  /\ 0 \notin w.batch
  /\ w.raised = "no" => w.batch \subseteq 1 .. w.fed /\ w.dup + Cardinality(w.batch) <= w.fed

\* As long as nothing was raised, the rows fed are the rows written, the batch not yet written
\* and the repeats; the indicators lag behind the rows by the batch just written.
Counted(j) ==
  LET w == work[j]
      rows == Cardinality(RowsOf(j))
  IN
  /\ \A r \in RowsOf(j) : r.n \in 1 .. w.fed
  /\ w.pc \in {"parse", "look", "reserve", "insert"} =>
       /\ \A r \in RowsOf(j) : r.n \notin w.batch
       /\ rows + Cardinality(w.batch) + w.dup = w.fed /\ iocs[j] = rows
  /\ w.pc = "indicators" => rows + w.dup = w.fed /\ iocs[j] + Cardinality(w.batch) = rows
  /\ w.pc \in {"discard", "done"} => rows + w.dup = w.fed /\ iocs[j] = rows

\* Nothing is written before the job starts, and a done evidence counts what was.
Counting(j) ==
  /\ status[j] \in {"none", "queued"} => RowsOf(j) = {} /\ iocs[j] = 0
  /\ j \notin removed /\ thread[j] = "fn" /\ work[j].raised = "no" => Counted(j)
  /\ j \notin removed /\ evidence[j].status = "done" =>
       evidence[j].count = Cardinality(RowsOf(j)) /\ iocs[j] = Cardinality(RowsOf(j))

\* The evidence row, from the place of the job's function, its thread and its status.
Written(j) ==
  LET pc == work[j].pc
      ev == evidence[j].status
  IN
  /\ status[j] = "none" <=> ev = "absent"
  /\ thread[j] = "blocked" \/ (pc \notin {"off", "return"} /\ work[j].raised = "no") => ev = "parsing"
  /\ pc = "raise" \/ (pc = "discard" /\ work[j].raised # "no") => ev = "error"
  /\ pc = "return" \/ thread[j] = "returned" \/ status[j] = "done" => ev = "done"
  /\ status[j] \in Terminal => ev \in {"done", "error"}

\* A done evidence is not written any more, and only what was submitted can be removed.
Reported(j) ==
  /\ j \notin removed => Written(j)
  /\ evidence[j].status = "done" =>
       status[j] \notin {"none", "queued", "error"} /\ work[j].pc \in {"off", "return"}
  /\ j \in removed => status[j] # "none"

\* From the discard on, however the job ends, its upload is gone.
Consumed(j) ==
  work[j].pc \in {"done", "return", "raise"} \/ thread[j] = "returned" \/ status[j] \in Terminal =>
    j \notin uploads

JobInv(j) == Working(j) /\ Counting(j) /\ Reported(j) /\ Consumed(j)

\* The ids a job has reserved and not yet used: from its start up to here.
End(j) == work[j].start + Cardinality(work[j].batch)

\* Every id in use or reserved is below the counter, and what is reserved is neither in use nor
\* reserved by another job.
IdsInv ==
  /\ \A r \in events : r.id < nextId
  /\ \A j \in Jobs : work[j].pc = "insert" =>
       /\ End(j) <= nextId
       /\ \A r \in events : r.id < work[j].start \/ End(j) <= r.id
  /\ \A j, k \in Jobs : j # k /\ work[j].pc = "insert" /\ work[k].pc = "insert" =>
       End(j) <= work[k].start \/ End(k) <= work[j].start

CaseInv ==
  /\ CaseTypeOK
  /\ IsFiniteSet(events)
  /\ deleting # Nothing => deleting \in removed
  /\ \A j \in Jobs : JobInv(j)
  /\ IdsInv
  /\ IdsUnique

-----------------------------------------------------------------------------
(* The rows of a batch *)

\* The place of a row in its batch is below the size of the batch, and grows with the row.
LEMMA Places ==
  ASSUME NEW b \in SUBSET Nat, IsFiniteSet(b), NEW n \in b
  PROVE  /\ Cardinality(b) \in Nat
         /\ Cardinality({m \in b : m < n}) \in 0 .. Cardinality(b) - 1
         /\ \A k \in b : k < n =>
              Cardinality({m \in b : m < k}) < Cardinality({m \in b : m < n})
<1> DEFINE Before(k) == {m \in b : m < k}
<1>1. \A k : IsFiniteSet(Before(k)) /\ Cardinality(Before(k)) \in Nat
  <2> TAKE k
  <2>1. Before(k) \in SUBSET b
    OBVIOUS
  <2> QED BY <2>1, FS_Subset, FS_CardinalityType
<1>2. Cardinality(b) \in Nat
  BY FS_CardinalityType
<1>3. Cardinality(Before(n)) < Cardinality(b)
  <2>1. Before(n) \in SUBSET b /\ n \notin Before(n)
    OBVIOUS
  <2>2. Cardinality(Before(n)) <= Cardinality(b) /\ Cardinality(Before(n)) # Cardinality(b)
    BY <2>1, FS_Subset
  <2> QED BY <1>1, <1>2, <2>2
<1>4. ASSUME NEW k \in b, k < n PROVE Cardinality(Before(k)) < Cardinality(Before(n))
  <2>1. Before(k) \in SUBSET Before(n) /\ k \in Before(n) /\ k \notin Before(k)
    <3>1. ~ (k < k) /\ \A m \in b : m < k => m < n
      BY <1>4
    <3> QED BY <1>4, <3>1
  <2>2. Cardinality(Before(k)) <= Cardinality(Before(n)) /\ Cardinality(Before(k)) # Cardinality(Before(n))
    BY <1>1, <2>1, FS_Subset
  <2> QED BY <1>1, <2>2
<1> QED BY <1>1, <1>2, <1>3, <1>4

\* The rows of a batch are records of the job's rows.
LEMMA RowsAreRecords ==
  ASSUME NEW j \in Jobs
  PROVE  \A r \in NewRows(j) : r = [id |-> r.id, ev |-> j, n |-> r.n] /\ r.ev = j
<1> DEFINE Place(n) == Cardinality({m \in work[j].batch : m < n})
<1>1. NewRows(j) = {[id |-> work[j].start + Place(n), ev |-> j, n |-> n] : n \in work[j].batch}
  BY DEF NewRows
<1> HIDE DEF Place
<1> QED BY <1>1

\* The rows of a batch are as many as the batch has, belong to the job, and have the ids from
\* its start on, one each.
LEMMA RowsOfBatch ==
  ASSUME CaseTypeOK, NEW j \in Jobs, Working(j)
  PROVE  /\ IsFiniteSet(NewRows(j)) /\ Cardinality(NewRows(j)) = Cardinality(work[j].batch)
         /\ \A r \in NewRows(j) :
              /\ r.ev = j /\ r.n \in work[j].batch /\ r.id \in Nat
              /\ work[j].start <= r.id /\ r.id < End(j)
         /\ \A r, s \in NewRows(j) : r.id = s.id => r = s
<1> DEFINE b == work[j].batch
           Place(n) == Cardinality({m \in b : m < n})
           RowAt(n) == [id |-> work[j].start + Place(n), ev |-> j, n |-> n]
<1>1. b \in SUBSET Nat /\ IsFiniteSet(b) /\ work[j].start \in Nat
  BY DEF CaseTypeOK, Work, Working
<1>2. \A n \in b : Place(n) \in 0 .. Cardinality(b) - 1 /\ Cardinality(b) \in Nat
  BY <1>1, Places
<1>3. \A n, k \in b : k < n => Place(k) < Place(n)
  BY <1>1, Places
<1>4. NewRows(j) = {RowAt(n) : n \in b}
  BY DEF NewRows
<1> HIDE DEF Place
<1>5. \A n, k \in b : RowAt(n).id = RowAt(k).id => n = k
  <2> SUFFICES ASSUME NEW n \in b, NEW k \in b, RowAt(n).id = RowAt(k).id PROVE n = k
    OBVIOUS
  <2>1. Place(n) = Place(k)
    BY <1>1, <1>2
  <2>2. n \in Nat /\ k \in Nat
    BY <1>1
  <2> QED BY <1>2, <1>3, <2>1, <2>2
<1>6. IsFiniteSet(NewRows(j)) /\ Cardinality(NewRows(j)) = Cardinality(b)
  <2> DEFINE f == [n \in b |-> RowAt(n)]
  <2>1. f \in [b -> NewRows(j)] /\ \A r \in NewRows(j) : \E n \in b : f[n] = r
    BY <1>4
  <2>2. \A n, k \in b : f[n] = f[k] => n = k
    BY <1>5
  <2>3. f \in Bijection(b, NewRows(j))
    BY <2>1, <2>2 DEF Bijection, Injection, Surjection, IsInjective
  <2> QED BY <1>1, <2>3, FS_Bijection DEF ExistsBijection
<1>7. \A r \in NewRows(j) :
         /\ r.ev = j /\ r.n \in b /\ r.id \in Nat
         /\ work[j].start <= r.id /\ r.id < End(j)
  BY <1>1, <1>2, <1>4 DEF End
<1>8. \A r, s \in NewRows(j) : r.id = s.id => r = s
  BY <1>4, <1>5
<1> QED BY <1>6, <1>7, <1>8

-----------------------------------------------------------------------------
(* An ingestion is a job *)

\* The steps of the job's function between its start and its end.
Inside(j) ==
  \/ Feed(j) \/ EndOfFile(j) \/ ParserRaises(j) \/ CheckRaises(j)
  \/ Look(j) \/ Reserve(j) \/ Insert(j) \/ InsertRaises(j) \/ Indicators(j)
  \/ MarkFailed(j) \/ Discard(j) \/ MarkDone(j)

\* What the job's function does inside is not seen by the job manager.
LEMMA InsideUnseen ==
  ASSUME NEW j \in Jobs, Inside(j)
  PROVE  UNCHANGED vars
BY DEF Inside, Feed, EndOfFile, ParserRaises, CheckRaises, Stop, Look, Reserve, Insert, InsertRaises,
       Indicators, MarkFailed, Discard, MarkDone

\* Every step of the store is a step of the job manager, or one it does not see.
LEMMA CaseStepIsJobStep == [CaseNext]_caseVars => [Next]_vars
<1> SUFFICES ASSUME [CaseNext]_caseVars PROVE [Next]_vars
  OBVIOUS
<1>1. ASSUME NEW j \in Jobs, Post(j) PROVE Next
  BY <1>1 DEF Post, Next
<1>2. ASSUME NEW j \in Jobs, Start(j) PROVE Next
  BY <1>2 DEF Start, Next, Run
<1>3. ASSUME NEW j \in Jobs, Inside(j) PROVE UNCHANGED vars
  BY <1>3, InsideUnseen
<1>4. ASSUME NEW j \in Jobs, EndFn(j) PROVE Next
  BY <1>4 DEF EndFn, Next, Run, Fn
<1>5. ASSUME NEW j \in Jobs, Manage(j) PROVE Next
  BY <1>5 DEF Manage, Next, Run
<1>6. ASSUME NEW j \in Jobs, DeleteEvents(j) PROVE UNCHANGED vars
  BY <1>6 DEF DeleteEvents
<1>7. CASE DeleteRest
  BY <1>7 DEF DeleteRest
<1>8. CASE CaseCrash
  BY <1>8 DEF CaseCrash, Next
<1>9. CASE UNCHANGED caseVars
  BY <1>9 DEF caseVars
<1> QED
  BY <1>1, <1>2, <1>3, <1>4, <1>5, <1>6, <1>7, <1>8, <1>9 DEF CaseNext, Ingest, Inside

\* The ingestions of a case keep everything the job manager promises of its jobs.
THEOREM IngestionsAreJobs == CaseSpec => Spec
<1>1. CaseInit => Init
  BY DEF CaseInit
<1> QED BY <1>1, CaseStepIsJobStep, PTL DEF CaseSpec, Spec

-----------------------------------------------------------------------------
(* The first state, and the types *)

\* The empty store has the invariant.
LEMMA CaseInvInit == CaseInit => CaseInv
<1> SUFFICES ASSUME CaseInit PROVE CaseInv
  OBVIOUS
<1> USE DEF CaseInit, NoWork
<1>1. CaseTypeOK
  BY DEF CaseTypeOK, Evidence, Work
<1>2. IsFiniteSet(events) /\ IdsInv /\ IdsUnique /\ (deleting # Nothing => deleting \in removed)
  BY FS_EmptySet DEF IdsInv, IdsUnique
<1>3. ASSUME NEW j \in Jobs PROVE JobInv(j)
  <2>1. status[j] = "none" /\ thread[j] = "none"
    BY DEF Init
  <2>2. Working(j)
    <3>1. /\ work[j].pc = "off" /\ work[j].raised = "no"
          /\ work[j].batch = {} /\ work[j].fed = 0 /\ work[j].dup = 0
      OBVIOUS
    <3> HIDE DEF CaseInit
    <3> QED BY <2>1, <3>1, FS_EmptySet DEF Working
  <2>3. Counting(j)
    BY <2>1 DEF Counting, RowsOf
  <2>4. Reported(j)
    BY <2>1 DEF Reported, Written, Terminal
  <2>5. Consumed(j)
    BY <2>1 DEF Consumed, Terminal
  <2> QED BY <2>2, <2>3, <2>4, <2>5 DEF JobInv
<1> QED BY <1>1, <1>2, <1>3 DEF CaseInv

\* A batch is finite, and so is each part of it.
LEMMA BatchFinite ==
  ASSUME CaseTypeOK, NEW j \in Jobs, Working(j), NEW A \in SUBSET work[j].batch
  PROVE  /\ IsFiniteSet(A) /\ Cardinality(A) \in Nat
         /\ Cardinality(work[j].batch) \in Nat
         /\ Cardinality(work[j].batch \ A) = Cardinality(work[j].batch) - Cardinality(A)
<1>1. IsFiniteSet(work[j].batch)
  BY DEF Working
<1>2. work[j].batch \cap A = A
  OBVIOUS
<1>3. IsFiniteSet(A)
  BY <1>1, FS_Subset
<1>4. Cardinality(work[j].batch \ A) = Cardinality(work[j].batch) - Cardinality(A)
  BY <1>1, <1>2, FS_Difference
<1> QED BY <1>1, <1>3, <1>4, FS_CardinalityType

\* An id counter that is read back from the rows is above all of them: they have a highest id.
LEMMA CounterFromRows ==
  ASSUME CaseTypeOK, \A r \in events : r.id < nextId
  PROVE  NextIdOnOpen \in Nat /\ \A r \in events : r.id < NextIdOnOpen
<1> DEFINE S == {r.id : r \in events}
           T == {nextId - i : i \in S}
<1>1. S \subseteq Nat /\ nextId \in Nat /\ \A i \in S : i < nextId
  BY DEF CaseTypeOK, Row
<1>2. CASE events = {}
  BY <1>2 DEF NextIdOnOpen
<1>3. CASE events # {}
  <2>1. T \subseteq Nat /\ T # {}
    BY <1>1, <1>3
  <2>2. PICK x \in T : \A y \in T : ~ (<<y, x>> \in OpToRel(<, Nat))
    BY <2>1, WFMin, NatLessThanWellFounded, Zenon
  <2>3. \A y \in T : ~ (y < x)
    BY <2>1, <2>2, Zenon DEF OpToRel
  <2>4. PICK m \in S : x = nextId - m
    OBVIOUS
  <2>0. \A i \in S : nextId - i \in T
    OBVIOUS
  <2> HIDE DEF S, T
  <2>5. ASSUME NEW i \in S PROVE m >= i
    <3>1. ~ (nextId - i < nextId - m)
      BY <2>0, <2>3, <2>4
    <3>2. i \in Nat /\ m \in Nat
      BY <1>1
    <3> QED BY <1>1, <3>1, <3>2
  <2>6. Max(S) \in S /\ \A i \in S : Max(S) >= i
    BY <2>5 DEF Max
  <2>7. NextIdOnOpen = 1 + Max(S) /\ \A r \in events : r.id \in S
    BY <1>3 DEF NextIdOnOpen, S
  <2>8. Max(S) \in Nat /\ \A r \in events : r.id \in Nat /\ Max(S) >= r.id
    BY <1>1, <2>6, <2>7
  <2> QED BY <2>7, <2>8
<1> QED BY <1>2, <1>3

\* Local variables of the right type keep it.
LEMMA SetTyped ==
  ASSUME CaseTypeOK, NEW j \in Jobs, NEW w \in Work, Set(j, w)
  PROVE  work' \in [Jobs -> Work]
BY DEF CaseTypeOK, Set

\* Every step keeps the types.
LEMMA CaseTypeStep == CaseInv /\ [CaseNext]_caseVars => CaseTypeOK'
<1> SUFFICES ASSUME CaseInv, [CaseNext]_caseVars PROVE CaseTypeOK'
  OBVIOUS
<1>0. CaseTypeOK /\ \A j \in Jobs : Working(j) /\ work[j] \in Work
  BY DEF CaseInv, JobInv, CaseTypeOK
<1>1. ASSUME NEW j \in Jobs, Post(j) PROVE CaseTypeOK'
  <2>1. [status |-> "parsing", count |-> 0] \in Evidence
    BY DEF Evidence
  <2> QED BY <1>0, <1>1, <2>1 DEF Post, CaseTypeOK
<1>2. ASSUME NEW j \in Jobs, Start(j) PROVE CaseTypeOK'
  <2>1. [NoWork EXCEPT !.pc = "parse"] \in Work
    BY DEF NoWork, Work
  <2> QED BY <1>0, <1>2, <2>1, SetTyped DEF Start, CaseTypeOK, store
<1>3. ASSUME NEW j \in Jobs, Feed(j) PROVE CaseTypeOK'
  <2>1. ASSUME NEW n \in Nat, NEW b \in SUBSET Nat, NEW key \in BOOLEAN, NEW pc \in {"look", "parse"}
        PROVE  [work[j] EXCEPT !.fed = n, !.batch = b, !.keyed = key, !.pc = pc] \in Work
    BY <1>0 DEF Work
  <2>2. work[j].fed + 1 \in Nat /\ work[j].batch \cup {work[j].fed + 1} \in SUBSET Nat
    BY <1>0 DEF Work
  <2>3. work' \in [Jobs -> Work]
    BY <1>0, <1>3, <2>1, <2>2, SetTyped DEF Feed
  <2> QED BY <1>0, <1>3, <2>3 DEF Feed, CaseTypeOK, store
<1>4. ASSUME NEW j \in Jobs, EndOfFile(j) PROVE CaseTypeOK'
  <2>1. \A pc \in {"look", "discard"} : [work[j] EXCEPT !.last = TRUE, !.pc = pc] \in Work
    BY <1>0 DEF Work
  <2>2. work' \in [Jobs -> Work]
    BY <1>0, <1>4, <2>1, SetTyped DEF EndOfFile
  <2> QED BY <1>0, <1>4, <2>2 DEF EndOfFile, CaseTypeOK, store
<1>5. ASSUME NEW j \in Jobs, ParserRaises(j) \/ CheckRaises(j) PROVE CaseTypeOK'
  <2>1. \A why \in {"error", "cancelled"}, pc \in {"look", "fail"} :
          [work[j] EXCEPT !.raised = why, !.pc = pc] \in Work
    BY <1>0 DEF Work
  <2>2. work' \in [Jobs -> Work]
    BY <1>0, <1>5, <2>1, SetTyped DEF ParserRaises, CheckRaises, Stop
  <2> QED BY <1>0, <1>5, <2>2 DEF ParserRaises, CheckRaises, Stop, CaseTypeOK, store
<1>6. ASSUME NEW j \in Jobs, Look(j) PROVE CaseTypeOK'
  <2> DEFINE have == {n \in work[j].batch : work[j].keyed /\ Key(j, n) \in Keys}
  <2>1. Cardinality(have) \in Nat /\ have \in SUBSET work[j].batch
    BY <1>0, BatchFinite
  <2>2. ASSUME NEW A \in SUBSET Nat, NEW n \in Nat, NEW pc \in {"indicators", "reserve"}
        PROVE  [work[j] EXCEPT !.batch = A, !.keyed = FALSE, !.dup = n, !.pc = pc] \in Work
    BY <1>0 DEF Work
  <2> HIDE DEF have
  <2>4. work[j].batch \ have \in SUBSET Nat /\ work[j].dup + Cardinality(have) \in Nat
    BY <1>0, <2>1 DEF Work
  <2>3. work' \in [Jobs -> Work]
    <3>1. Set(j, [work[j] EXCEPT !.batch = work[j].batch \ have, !.keyed = FALSE,
                                 !.dup = @ + Cardinality(have),
                                 !.pc = IF work[j].batch \ have = {} THEN "indicators" ELSE "reserve"])
      BY <1>6 DEF Look, have
    <3> QED BY <1>0, <2>2, <2>4, <3>1, SetTyped
  <2> QED BY <1>0, <1>6, <2>3 DEF Look, CaseTypeOK, store
<1>7. ASSUME NEW j \in Jobs, Reserve(j) PROVE CaseTypeOK'
  <2>1. Cardinality(work[j].batch) \in Nat /\ nextId \in Nat
    BY <1>0, BatchFinite DEF CaseTypeOK
  <2>2. [work[j] EXCEPT !.start = nextId, !.pc = "insert"] \in Work
    BY <1>0, <2>1 DEF Work
  <2>3. work' \in [Jobs -> Work]
    BY <1>0, <1>7, <2>2, SetTyped DEF Reserve
  <2> QED BY <1>0, <1>7, <2>1, <2>3 DEF Reserve, CaseTypeOK
<1>8. ASSUME NEW j \in Jobs, Insert(j) PROVE CaseTypeOK'
  <2>1. \A r \in NewRows(j) : r.n \in work[j].batch /\ r.id \in Nat
    BY <1>0, RowsOfBatch
  <2>2. NewRows(j) \subseteq Row
    <3>1. \A n \in work[j].batch : n \in Nat \ {0}
      BY <1>0 DEF Work, Working
    <3> QED BY <2>1, <3>1, RowsAreRecords DEF Row
  <2>3. [work[j] EXCEPT !.pc = "indicators"] \in Work
    BY <1>0 DEF Work
  <2>4. work' \in [Jobs -> Work]
    BY <1>0, <1>8, <2>3, SetTyped DEF Insert
  <2> QED BY <1>0, <1>8, <2>2, <2>4 DEF Insert, CaseTypeOK
<1>9. ASSUME NEW j \in Jobs, InsertRaises(j) PROVE CaseTypeOK'
  <2>1. InLoop(j) => work[j].fed - 1 \in Nat
    BY <1>0, <1>9 DEF InsertRaises, InLoop, Working, At, Work
  <2>2. ASSUME NEW n \in Nat, NEW pc \in {"reserve", "fail"}
        PROVE  [work[j] EXCEPT !.raised = "error", !.fed = n, !.pc = pc] \in Work
    BY <1>0 DEF Work
  <2>3. work[j].fed \in Nat
    BY <1>0 DEF Work
  <2>4. work' \in [Jobs -> Work]
    BY <1>0, <1>9, <2>1, <2>2, <2>3, SetTyped DEF InsertRaises
  <2> QED BY <1>0, <1>9, <2>4 DEF InsertRaises, CaseTypeOK, store
<1>10. ASSUME NEW j \in Jobs, Indicators(j) PROVE CaseTypeOK'
  <2>1. Cardinality(work[j].batch) \in Nat
    BY <1>0, BatchFinite
  <2>2. \A pc \in {"parse", "fail"} : [work[j] EXCEPT !.batch = {}, !.start = 0, !.pc = pc] \in Work
    BY <1>0 DEF Work
  <2>3. work' \in [Jobs -> Work]
    BY <1>0, <1>10, <2>2, SetTyped DEF Indicators
  <2>4. iocs' \in [Jobs -> Nat]
    BY <1>0, <1>10, <2>1 DEF Indicators, CaseTypeOK
  <2> QED BY <1>0, <1>10, <2>3, <2>4 DEF Indicators, CaseTypeOK
<1>11. ASSUME NEW j \in Jobs, MarkFailed(j) PROVE CaseTypeOK'
  <2>1. [status |-> "error", count |-> work[j].fed] \in Evidence
    BY <1>0 DEF Evidence, Work
  <2>2. [work[j] EXCEPT !.pc = "discard"] \in Work
    BY <1>0 DEF Work
  <2>3. work' \in [Jobs -> Work]
    BY <1>0, <1>11, <2>2, SetTyped DEF MarkFailed
  <2> QED BY <1>0, <1>11, <2>1, <2>3 DEF MarkFailed, CaseTypeOK
<1>12. ASSUME NEW j \in Jobs, Discard(j) PROVE CaseTypeOK'
  <2>1. \A pc \in {"done", "raise"} : [work[j] EXCEPT !.pc = pc] \in Work
    BY <1>0 DEF Work
  <2>2. work' \in [Jobs -> Work]
    BY <1>0, <1>12, <2>1, SetTyped DEF Discard
  <2> QED BY <1>0, <1>12, <2>2 DEF Discard, CaseTypeOK, store
<1>13. ASSUME NEW j \in Jobs, MarkDone(j) PROVE CaseTypeOK'
  <2>1. work[j].fed - work[j].dup \in Nat
    <3>1. Cardinality(work[j].batch) \in Nat
      BY <1>0, BatchFinite
    <3> QED BY <1>0, <1>13, <3>1 DEF MarkDone, Working, At, Work
  <2>2. [status |-> "done", count |-> work[j].fed - work[j].dup] \in Evidence
    BY <2>1 DEF Evidence
  <2>3. [work[j] EXCEPT !.pc = "return"] \in Work
    BY <1>0 DEF Work
  <2>4. work' \in [Jobs -> Work]
    BY <1>0, <1>13, <2>3, SetTyped DEF MarkDone
  <2> QED BY <1>0, <1>13, <2>2, <2>4 DEF MarkDone, CaseTypeOK
<1>14. ASSUME NEW j \in Jobs, EndFn(j) PROVE CaseTypeOK'
  <2>1. NoWork \in Work
    BY DEF NoWork, Work
  <2> QED BY <1>0, <1>14, <2>1, SetTyped DEF EndFn, CaseTypeOK, store
<1>15. ASSUME NEW j \in Jobs, Manage(j) PROVE CaseTypeOK'
  BY <1>0, <1>15 DEF Manage, CaseTypeOK, store
<1>16. ASSUME NEW j \in Jobs, DeleteEvents(j) PROVE CaseTypeOK'
  BY <1>0, <1>16 DEF DeleteEvents, CaseTypeOK
<1>17. CASE DeleteRest
  <2>1. [status |-> "absent", count |-> 0] \in Evidence
    BY DEF Evidence
  <2> QED BY <1>0, <1>17, <2>1 DEF DeleteRest, CaseTypeOK
<1>18. CASE CaseCrash
  <2>1. NextIdOnOpen \in Nat /\ NoWork \in Work
    BY CounterFromRows DEF CaseInv, IdsInv, NoWork, Work
  <2> QED BY <1>0, <1>18, <2>1 DEF CaseCrash, CaseTypeOK
<1>19. CASE UNCHANGED caseVars
  BY <1>0, <1>19 DEF caseVars, CaseTypeOK, store
<1> QED
  BY <1>1, <1>2, <1>3, <1>4, <1>5, <1>6, <1>7, <1>8, <1>9, <1>10, <1>11, <1>12, <1>13, <1>14, <1>15, <1>16,
     <1>17, <1>18, <1>19 DEF CaseNext, Ingest

-----------------------------------------------------------------------------
(* A step of one job leaves the others alone *)

\* Nothing that JobInv says of job k changes.
Same(k) ==
  /\ work'[k] = work[k] /\ RowsOf(k)' = RowsOf(k) /\ iocs'[k] = iocs[k] /\ evidence'[k] = evidence[k]
  /\ thread'[k] = thread[k] /\ status'[k] = status[k]
  /\ k \in uploads' <=> k \in uploads
  /\ k \in removed' <=> k \in removed

\* A job nothing changes for keeps its invariant.
LEMMA SameKeeps ==
  ASSUME NEW k \in Jobs, JobInv(k), Same(k)
  PROVE  JobInv(k)'
<1> USE DEF JobInv, Same
<1>1. Working(k)'
  BY DEF Working
<1>2. Counting(k)'
  BY DEF Counting, Counted
<1>3. Reported(k)'
  BY DEF Reported, Written
<1>4. Consumed(k)'
  BY DEF Consumed
<1> QED BY <1>1, <1>2, <1>3, <1>4

\* A step of job j changes nothing for job k: rows carry the evidence they came from.
LEMMA OthersSame ==
  ASSUME CaseTypeOK, TypeOK, NEW j \in Jobs, NEW k \in Jobs \ {j},
         Post(j) \/ Start(j) \/ Ingest(j) \/ Manage(j) \/ DeleteEvents(j)
  PROVE  Same(k)
<1> USE DEF CaseTypeOK, TypeOK, store, Set, Same
<1>1. CASE Post(j)
  BY <1>1 DEF Post, Submit, RowsOf
<1>2. CASE Start(j)
  BY <1>2 DEF Start, Acquire, RowsOf
<1>3. CASE Inside(j)
  <2>1. status' = status /\ thread' = thread
    BY <1>3, InsideUnseen DEF vars, runner
  <2>2. Feed(j) \/ EndOfFile(j) \/ ParserRaises(j) \/ CheckRaises(j) => Same(k)
    BY <2>1 DEF Feed, EndOfFile, ParserRaises, CheckRaises, Stop, RowsOf
  <2>3. Look(j) \/ Reserve(j) \/ InsertRaises(j) \/ Indicators(j) => Same(k)
    BY <2>1 DEF Look, Reserve, InsertRaises, Indicators, RowsOf
  <2>4. Insert(j) => Same(k)
    <3>1. \A r \in NewRows(j) : r.ev = j
      BY RowsAreRecords
    <3> QED BY <2>1, <3>1 DEF Insert, RowsOf
  <2>5. MarkFailed(j) \/ Discard(j) \/ MarkDone(j) => Same(k)
    BY <2>1 DEF MarkFailed, Discard, MarkDone, RowsOf
  <2> QED BY <1>3, <2>2, <2>3, <2>4, <2>5 DEF Inside
<1>4. CASE EndFn(j)
  BY <1>4 DEF EndFn, FnReturn, FnCancelled, FnRaise, RowsOf
<1>5. CASE Manage(j)
  BY <1>5 DEF Manage, SetOutcome, SetError, Finish, Cancel, runner, RowsOf
<1>6. CASE DeleteEvents(j)
  <2>1. status' = status /\ thread' = thread
    BY <1>6 DEF DeleteEvents, vars, runner
  <2> QED BY <1>6, <2>1 DEF DeleteEvents, RowsOf
<1> QED BY <1>1, <1>2, <1>3, <1>4, <1>5, <1>6 DEF Ingest, Inside

-----------------------------------------------------------------------------
(* A step of a job keeps its own invariant *)

\* What a step says of a job's local variables.
LEMMA SetOwn ==
  ASSUME CaseTypeOK, NEW j \in Jobs, NEW w, Set(j, w)
  PROVE  work'[j] = w
BY DEF CaseTypeOK, Set

\* A job's rows are finitely many.
LEMMA RowsFinite ==
  ASSUME IsFiniteSet(events), NEW j \in Jobs
  PROVE  IsFiniteSet(RowsOf(j)) /\ Cardinality(RowsOf(j)) \in Nat
<1>1. RowsOf(j) \in SUBSET events
  BY DEF RowsOf
<1> QED BY <1>1, FS_Subset, FS_CardinalityType

\* A job comes to an insert by reserving ids.
NoOtherInsert(j) == work'[j].pc = "insert" => work'[j] = work[j] \/ Reserve(j)

\* Whatever a job, its submission, its removal or the job manager does to a job keeps its invariant.
LEMMA OwnStep ==
  ASSUME CaseInv, Inv, NEW j \in Jobs,
         Post(j) \/ Start(j) \/ Ingest(j) \/ Manage(j) \/ DeleteEvents(j)
  PROVE  JobInv(j)' /\ NoOtherInsert(j)
<1>0. /\ CaseTypeOK /\ work[j] \in Work /\ Working(j) /\ Counting(j) /\ Reported(j) /\ Consumed(j)
      /\ TypeOK /\ RunnerInv /\ IsFiniteSet(RowsOf(j)) /\ Cardinality(RowsOf(j)) \in Nat
      /\ IsFiniteSet(work[j].batch) /\ Cardinality(work[j].batch) \in Nat
  BY RowsFinite, BatchFinite DEF CaseInv, JobInv, CaseTypeOK, Inv, Working
<1>1. ASSUME Post(j) PROVE JobInv(j)' /\ NoOtherInsert(j)
  <2>1. /\ thread[j] = "none" /\ status[j] = "none" /\ thread'[j] = "blocked" /\ status'[j] = "queued"
        /\ work' = work /\ RowsOf(j)' = RowsOf(j) /\ iocs' = iocs /\ removed' = removed
        /\ evidence'[j].status = "parsing"
    <3>1. thread[j] = "none" /\ status[j] = "none"
      BY <1>0, <1>1 DEF Post, Submit, RunnerInv, TypeOK, Holding, Terminal
    <3>2. thread'[j] = "blocked" /\ status'[j] = "queued"
      BY <1>0, <1>1 DEF Post, Submit, TypeOK
    <3> QED BY <1>0, <1>1, <3>1, <3>2 DEF Post, CaseTypeOK, RowsOf
  <2>2. Working(j)'
    BY <1>0, <2>1 DEF Working, Work
  <2>3. Counting(j)'
    BY <1>0, <2>1 DEF Counting, Counted, Work
  <2>4. Reported(j)'
    BY <1>0, <2>1 DEF Reported, Written, Working, Terminal, RunnerInv, Evidence
  <2>5. Consumed(j)'
    BY <1>0, <2>1 DEF Consumed, Working, Terminal, RunnerInv
  <2> QED BY <2>1, <2>2, <2>3, <2>4, <2>5 DEF JobInv, NoOtherInsert
<1>2. ASSUME Start(j) PROVE JobInv(j)' /\ NoOtherInsert(j)
  <2>1. /\ thread[j] = "blocked" /\ status[j] = "queued" /\ thread'[j] = "fn" /\ status'[j] = "running"
        /\ work'[j] = [NoWork EXCEPT !.pc = "parse"] /\ RowsOf(j)' = RowsOf(j) /\ iocs' = iocs
        /\ removed' = removed /\ evidence' = evidence /\ uploads' = uploads
    BY <1>0, <1>2, SetOwn DEF Start, Acquire, store, RunnerInv, TypeOK, RowsOf
  <2>2. Working(j)'
    BY <2>1, FS_EmptySet DEF Working, NoWork
  <2>3. Counting(j)'
    BY <1>0, <2>1, FS_EmptySet DEF Counting, Counted, NoWork
  <2>4. Reported(j)'
    BY <1>0, <2>1 DEF Reported, Written, NoWork, Terminal
  <2>5. Consumed(j)'
    BY <1>0, <2>1 DEF Consumed, NoWork, Terminal
  <2> QED BY <2>1, <2>2, <2>3, <2>4, <2>5 DEF JobInv, NoOtherInsert, NoWork
<1>3. ASSUME Feed(j) PROVE JobInv(j)' /\ NoOtherInsert(j)
  <2>0. /\ work[j].fed + 1 \notin work[j].batch
        /\ Cardinality(work[j].batch \cup {work[j].fed + 1}) = Cardinality(work[j].batch) + 1
        /\ IsFiniteSet(work[j].batch \cup {work[j].fed + 1})
    <3>1. work[j].fed + 1 \notin work[j].batch
      BY <1>0, <1>3 DEF Feed, At, Working, Work
    <3> QED BY <1>0, <3>1, FS_AddElement
  <2>1. /\ thread' = thread /\ status' = status /\ removed' = removed /\ thread[j] = "fn"
        /\ RowsOf(j)' = RowsOf(j) /\ iocs' = iocs /\ evidence' = evidence /\ uploads' = uploads
        /\ work[j].pc = "parse" /\ work'[j].pc \in {"look", "parse"} /\ work'[j].fed = work[j].fed + 1
        /\ work'[j].batch = work[j].batch \cup {work[j].fed + 1}
        /\ work'[j].raised = work[j].raised /\ work'[j].dup = work[j].dup
    <3>1. thread' = thread /\ status' = status
      BY <1>3, InsideUnseen DEF Inside, vars, runner
    <3>2. \E key, pc : pc \in {"look", "parse"} /\ work'[j] =
            [work[j] EXCEPT !.fed = work[j].fed + 1, !.batch = work[j].batch \cup {work[j].fed + 1},
                            !.keyed = key, !.pc = pc]
      BY <1>0, <1>3, SetOwn DEF Feed
    <3> QED BY <1>0, <1>3, <3>1, <3>2 DEF Feed, store, At, Work, RowsOf
  <2>2. Working(j)'
    BY <1>0, <2>0, <2>1 DEF Working, Work
  <2>3. Counting(j)'
    BY <1>0, <2>0, <2>1 DEF Counting, Counted, Work, Working
  <2>4. Reported(j)'
    BY <1>0, <2>1 DEF Reported, Written, Working, Terminal, RunnerInv, Evidence
  <2>5. Consumed(j)'
    BY <1>0, <2>1 DEF Consumed, Working, Terminal, RunnerInv
  <2> QED BY <2>1, <2>2, <2>3, <2>4, <2>5 DEF JobInv, NoOtherInsert
<1>4. ASSUME EndOfFile(j) PROVE JobInv(j)' /\ NoOtherInsert(j)
  <2>1. /\ thread' = thread /\ status' = status /\ removed' = removed /\ thread[j] = "fn"
        /\ RowsOf(j)' = RowsOf(j) /\ iocs' = iocs /\ evidence' = evidence /\ uploads' = uploads
        /\ work[j].pc = "parse" /\ work'[j].pc = IF work[j].batch # {} THEN "look" ELSE "discard"
        /\ work'[j].fed = work[j].fed /\ work'[j].batch = work[j].batch
        /\ work'[j].raised = work[j].raised /\ work'[j].dup = work[j].dup
    <3>1. thread' = thread /\ status' = status
      BY <1>4, InsideUnseen DEF Inside, vars, runner
    <3>2. work'[j] =
            [work[j] EXCEPT !.last = TRUE, !.pc = IF work[j].batch # {} THEN "look" ELSE "discard"]
      BY <1>0, <1>4, SetOwn DEF EndOfFile
    <3> QED BY <1>0, <1>4, <3>1, <3>2 DEF EndOfFile, store, At, Work, RowsOf
  <2>2. Working(j)'
    BY <1>0, <2>1 DEF Working, Work
  <2>3. Counting(j)'
    BY <1>0, <2>1, FS_EmptySet DEF Counting, Counted, Work, Working
  <2>4. Reported(j)'
    BY <1>0, <2>1 DEF Reported, Written, Working, Terminal, RunnerInv, Evidence
  <2>5. Consumed(j)'
    BY <1>0, <2>1 DEF Consumed, Working, Terminal, RunnerInv
  <2> QED BY <2>1, <2>2, <2>3, <2>4, <2>5 DEF JobInv, NoOtherInsert
<1>5. ASSUME ParserRaises(j) \/ CheckRaises(j) PROVE JobInv(j)' /\ NoOtherInsert(j)
  <2>1. /\ thread' = thread /\ status' = status /\ removed' = removed /\ thread[j] = "fn"
        /\ RowsOf(j)' = RowsOf(j) /\ iocs' = iocs /\ evidence' = evidence /\ uploads' = uploads
        /\ work[j].pc = "parse" /\ work'[j].pc \in {"look", "fail"}
        /\ work'[j].pc = "look" => work[j].batch # {}
        /\ work'[j].batch = work[j].batch /\ work'[j].raised \in {"error", "cancelled"}
    <3>1. thread' = thread /\ status' = status
      BY <1>5, InsideUnseen DEF Inside, vars, runner
    <3>2. \E why \in {"error", "cancelled"}, pc \in {"look", "fail"} :
                (pc = "look" => work[j].batch # {}) /\ work'[j] =
            [work[j] EXCEPT !.raised = why, !.pc = pc]
      BY <1>0, <1>5, SetOwn DEF ParserRaises, CheckRaises, Stop
    <3> QED BY <1>0, <1>5, <3>1, <3>2 DEF ParserRaises, CheckRaises, Stop, store, At, Work, RowsOf
  <2>2. Working(j)'
    BY <1>0, <2>1 DEF Working, Work
  <2>3. Counting(j)'
    BY <1>0, <2>1 DEF Counting, Counted, Work
  <2>4. Reported(j)'
    BY <1>0, <2>1 DEF Reported, Written, Working, Terminal, RunnerInv, Evidence
  <2>5. Consumed(j)'
    BY <1>0, <2>1 DEF Consumed, Working, Terminal, RunnerInv
  <2> QED BY <2>1, <2>2, <2>3, <2>4, <2>5 DEF JobInv, NoOtherInsert
<1>6. ASSUME Look(j) PROVE JobInv(j)' /\ NoOtherInsert(j)
  <2> DEFINE have == {n \in work[j].batch : work[j].keyed /\ Key(j, n) \in Keys}
  <2>0. /\ Cardinality(have) \in Nat /\ IsFiniteSet(work[j].batch \ have)
        /\ Cardinality(work[j].batch \ have) = Cardinality(work[j].batch) - Cardinality(have)
        /\ work[j].batch \ have = {} => Cardinality(work[j].batch \ have) = 0
    BY <1>0, BatchFinite, FS_Difference, FS_EmptySet
  <2>1. /\ thread' = thread /\ status' = status /\ removed' = removed /\ thread[j] = "fn"
        /\ RowsOf(j)' = RowsOf(j) /\ iocs' = iocs /\ evidence' = evidence /\ uploads' = uploads
        /\ work[j].pc = "look" /\ work'[j].batch = work[j].batch \ have
        /\ work'[j].pc = IF work[j].batch \ have = {} THEN "indicators" ELSE "reserve"
        /\ work'[j].fed = work[j].fed
        /\ work'[j].raised = work[j].raised /\ work'[j].dup = work[j].dup + Cardinality(have)
    <3>1. thread' = thread /\ status' = status
      BY <1>6, InsideUnseen DEF Inside, vars, runner
    <3>2. work'[j] =
            [work[j] EXCEPT !.batch = work[j].batch \ have, !.keyed = FALSE, !.dup = @ + Cardinality(have),
                            !.pc = IF work[j].batch \ have = {} THEN "indicators" ELSE "reserve"]
      BY <1>0, <1>6, SetOwn DEF Look
    <3> QED BY <1>0, <1>6, <3>1, <3>2 DEF Look, store, At, Work, RowsOf
  <2>2. Working(j)'
    <3> HIDE DEF have
    <3> QED BY <1>0, <2>0, <2>1 DEF Working, Work
  <2>3. Counting(j)'
    <3> HIDE DEF have
    <3> QED BY <1>0, <2>0, <2>1 DEF Counting, Counted, Work, Working
  <2>4. Reported(j)'
    <3> HIDE DEF have
    <3> QED BY <1>0, <2>1 DEF Reported, Written
  <2>5. Consumed(j)'
    <3> HIDE DEF have
    <3> QED BY <1>0, <2>1 DEF Consumed
  <2> QED BY <2>1, <2>2, <2>3, <2>4, <2>5 DEF JobInv, NoOtherInsert
<1>7. ASSUME Reserve(j) PROVE JobInv(j)' /\ NoOtherInsert(j)
  <2>1. /\ thread' = thread /\ status' = status /\ removed' = removed /\ thread[j] = "fn"
        /\ RowsOf(j)' = RowsOf(j) /\ iocs' = iocs /\ evidence' = evidence /\ uploads' = uploads
        /\ work[j].pc = "reserve" /\ work'[j].pc = "insert"
        /\ work'[j].fed = work[j].fed /\ work'[j].batch = work[j].batch
        /\ work'[j].raised = work[j].raised /\ work'[j].dup = work[j].dup
    <3>1. thread' = thread /\ status' = status
      BY <1>7, InsideUnseen DEF Inside, vars, runner
    <3>2. work'[j] =
            [work[j] EXCEPT !.start = nextId, !.pc = "insert"]
      BY <1>0, <1>7, SetOwn DEF Reserve
    <3> QED BY <1>0, <1>7, <3>1, <3>2 DEF Reserve, store, At, Work, RowsOf
  <2>2. Working(j)'
    BY <1>0, <2>1 DEF Working, Work
  <2>3. Counting(j)'
    BY <1>0, <2>1 DEF Counting, Counted, Work
  <2>4. Reported(j)'
    BY <1>0, <2>1 DEF Reported, Written, Working, Terminal, RunnerInv, Evidence
  <2>5. Consumed(j)'
    BY <1>0, <2>1 DEF Consumed, Working, Terminal, RunnerInv
  <2> QED BY <1>7, <2>2, <2>3, <2>4, <2>5 DEF JobInv, NoOtherInsert
<1>8. ASSUME Insert(j) PROVE JobInv(j)' /\ NoOtherInsert(j)
  <2>0. /\ IsFiniteSet(NewRows(j)) /\ Cardinality(NewRows(j)) = Cardinality(work[j].batch)
        /\ \A r \in NewRows(j) : r.ev = j /\ r.n \in work[j].batch
    BY <1>0, RowsOfBatch
  <2>1. /\ thread' = thread /\ status' = status /\ removed' = removed /\ thread[j] = "fn"
        /\ RowsOf(j)' = RowsOf(j) \cup NewRows(j) /\ iocs' = iocs /\ evidence' = evidence /\ uploads' = uploads
        /\ work[j].pc = "insert" /\ work'[j].pc = "indicators"
        /\ work'[j].fed = work[j].fed /\ work'[j].batch = work[j].batch
        /\ work'[j].raised = work[j].raised /\ work'[j].dup = work[j].dup
    <3>0. RowsOf(j)' = RowsOf(j) \cup NewRows(j)
      BY <1>8, <2>0 DEF Insert, RowsOf
    <3>1. thread' = thread /\ status' = status
      BY <1>8, InsideUnseen DEF Inside, vars, runner
    <3>2. work'[j] =
            [work[j] EXCEPT !.pc = "indicators"]
      BY <1>0, <1>8, SetOwn DEF Insert
    <3> QED BY <1>0, <1>8, <3>0, <3>1, <3>2 DEF Insert, store, At, Work
  <2>2. Working(j)'
    BY <1>0, <2>1 DEF Working, Work
  <2>3. Counting(j)'
    <3>1. ASSUME j \notin removed, work[j].raised = "no" PROVE Counted(j)'
      <4>1. RowsOf(j) \cap NewRows(j) = {} /\ Counted(j)
        BY <1>0, <2>0, <2>1, <3>1 DEF Counting, Counted
      <4>2. Cardinality(RowsOf(j)') = Cardinality(RowsOf(j)) + Cardinality(work[j].batch)
        <5>1. Cardinality(RowsOf(j) \cup NewRows(j))
                = Cardinality(RowsOf(j)) + Cardinality(NewRows(j)) - Cardinality(RowsOf(j) \cap NewRows(j))
          BY <1>0, <2>0, FS_Union
        <5>2. Cardinality(RowsOf(j) \cup NewRows(j)) = Cardinality(RowsOf(j)) + Cardinality(work[j].batch)
          BY <1>0, <2>0, <4>1, <5>1, FS_EmptySet
        <5>3. RowsOf(j)' = RowsOf(j) \cup NewRows(j)
          BY <2>1
        <5> QED BY <5>2, <5>3
      <4>3. \A r \in RowsOf(j)' : r.n \in 1 .. work[j].fed
        BY <1>0, <2>0, <2>1, <3>1, <4>1 DEF Counted, Working
      <4> QED BY <1>0, <2>1, <4>1, <4>2, <4>3 DEF Counted, Work
    <3> QED BY <1>0, <2>1, <3>1 DEF Counting, Reported, RunnerInv
  <2>4. Reported(j)'
    BY <1>0, <2>1 DEF Reported, Written, Working, Terminal, RunnerInv, Evidence
  <2>5. Consumed(j)'
    BY <1>0, <2>1 DEF Consumed, Working, Terminal, RunnerInv
  <2> QED BY <2>1, <2>2, <2>3, <2>4, <2>5 DEF JobInv, NoOtherInsert
<1>9. ASSUME InsertRaises(j) PROVE JobInv(j)' /\ NoOtherInsert(j)
  <2>1. /\ thread' = thread /\ status' = status /\ removed' = removed /\ thread[j] = "fn"
        /\ RowsOf(j)' = RowsOf(j) /\ iocs' = iocs /\ evidence' = evidence /\ uploads' = uploads
        /\ work[j].pc = "insert" /\ work'[j].pc \in {"reserve", "fail"}
        /\ work'[j].batch = work[j].batch /\ work'[j].raised = "error"
    <3>1. thread' = thread /\ status' = status
      BY <1>9, InsideUnseen DEF Inside, vars, runner
    <3>2. \E n, pc : pc \in {"reserve", "fail"} /\ work'[j] =
            [work[j] EXCEPT !.raised = "error", !.fed = n, !.pc = pc]
      BY <1>0, <1>9, SetOwn DEF InsertRaises
    <3> QED BY <1>0, <1>9, <3>1, <3>2 DEF InsertRaises, store, At, Work, RowsOf
  <2>2. Working(j)'
    BY <1>0, <2>1 DEF Working, Work
  <2>3. Counting(j)'
    BY <1>0, <2>1 DEF Counting, Counted, Work
  <2>4. Reported(j)'
    BY <1>0, <2>1 DEF Reported, Written, Working, Terminal, RunnerInv, Evidence
  <2>5. Consumed(j)'
    BY <1>0, <2>1 DEF Consumed, Working, Terminal, RunnerInv
  <2> QED BY <2>1, <2>2, <2>3, <2>4, <2>5 DEF JobInv, NoOtherInsert
<1>10. ASSUME Indicators(j) PROVE JobInv(j)' /\ NoOtherInsert(j)
  <2>1. /\ thread' = thread /\ status' = status /\ removed' = removed /\ thread[j] = "fn"
        /\ RowsOf(j)' = RowsOf(j) /\ iocs'[j] = iocs[j] + Cardinality(work[j].batch)
        /\ evidence' = evidence /\ uploads' = uploads
        /\ work[j].pc = "indicators" /\ work'[j].pc = IF work[j].raised = "no" THEN "parse" ELSE "fail"
        /\ work'[j].fed = work[j].fed /\ work'[j].batch = {}
        /\ work'[j].raised = work[j].raised /\ work'[j].dup = work[j].dup
    <3>1. thread' = thread /\ status' = status
      BY <1>10, InsideUnseen DEF Inside, vars, runner
    <3>2. work'[j] =
            [work[j] EXCEPT !.batch = {}, !.start = 0, !.pc = IF work[j].raised = "no" THEN "parse" ELSE "fail"]
      BY <1>0, <1>10, SetOwn DEF Indicators
    <3> QED BY <1>0, <1>10, <3>1, <3>2 DEF Indicators, CaseTypeOK, store, At, Work, RowsOf
  <2>2. Working(j)'
    BY <1>0, <2>1, FS_EmptySet DEF Working, Work
  <2>3. Counting(j)'
    BY <1>0, <2>1, FS_EmptySet DEF Counting, Counted, Work, Reported, RunnerInv
  <2>4. Reported(j)'
    BY <1>0, <2>1 DEF Reported, Written, Working, Terminal, RunnerInv, Evidence
  <2>5. Consumed(j)'
    BY <1>0, <2>1 DEF Consumed, Working, Terminal, RunnerInv
  <2> QED BY <2>1, <2>2, <2>3, <2>4, <2>5 DEF JobInv, NoOtherInsert
<1>11. ASSUME MarkFailed(j) PROVE JobInv(j)' /\ NoOtherInsert(j)
  <2>1. /\ thread' = thread /\ status' = status /\ removed' = removed /\ thread[j] = "fn"
        /\ RowsOf(j)' = RowsOf(j) /\ iocs' = iocs /\ evidence'[j].status = "error" /\ uploads' = uploads
        /\ work[j].pc = "fail" /\ work'[j].pc = "discard"
        /\ work'[j].batch = work[j].batch /\ work'[j].raised = work[j].raised
    <3>1. thread' = thread /\ status' = status
      BY <1>11, InsideUnseen DEF Inside, vars, runner
    <3>2. work'[j] =
            [work[j] EXCEPT !.pc = "discard"]
      BY <1>0, <1>11, SetOwn DEF MarkFailed
    <3> QED BY <1>0, <1>11, <3>1, <3>2 DEF MarkFailed, CaseTypeOK, store, At, Work, RowsOf
  <2>2. Working(j)'
    BY <1>0, <2>1 DEF Working, Work
  <2>3. Counting(j)'
    BY <1>0, <2>1 DEF Counting, Working, RunnerInv
  <2>4. Reported(j)'
    BY <1>0, <2>1 DEF Reported, Written, Working, Terminal, RunnerInv, Evidence
  <2>5. Consumed(j)'
    BY <1>0, <2>1 DEF Consumed, Working, Terminal, RunnerInv
  <2> QED BY <2>1, <2>2, <2>3, <2>4, <2>5 DEF JobInv, NoOtherInsert
<1>12. ASSUME Discard(j) PROVE JobInv(j)' /\ NoOtherInsert(j)
  <2>1. /\ thread' = thread /\ status' = status /\ removed' = removed /\ thread[j] = "fn"
        /\ RowsOf(j)' = RowsOf(j) /\ iocs' = iocs /\ evidence' = evidence /\ uploads' = uploads \ {j}
        /\ work[j].pc = "discard" /\ work'[j].pc = IF work[j].raised = "no" THEN "done" ELSE "raise"
        /\ work'[j].fed = work[j].fed /\ work'[j].batch = work[j].batch
        /\ work'[j].raised = work[j].raised /\ work'[j].dup = work[j].dup
    <3>1. thread' = thread /\ status' = status
      BY <1>12, InsideUnseen DEF Inside, vars, runner
    <3>2. work'[j] =
            [work[j] EXCEPT !.pc = IF work[j].raised = "no" THEN "done" ELSE "raise"]
      BY <1>0, <1>12, SetOwn DEF Discard
    <3> QED BY <1>0, <1>12, <3>1, <3>2 DEF Discard, store, At, Work, RowsOf
  <2>2. Working(j)'
    BY <1>0, <2>1 DEF Working, Work
  <2>3. Counting(j)'
    BY <1>0, <2>1 DEF Counting, Counted, Work
  <2>4. Reported(j)'
    BY <1>0, <2>1 DEF Reported, Written, Working, Terminal, RunnerInv, Evidence
  <2>5. Consumed(j)'
    BY <1>0, <2>1 DEF Consumed, Working, Terminal, RunnerInv
  <2> QED BY <2>1, <2>2, <2>3, <2>4, <2>5 DEF JobInv, NoOtherInsert
<1>13. ASSUME MarkDone(j) PROVE JobInv(j)' /\ NoOtherInsert(j)
  <2>1. /\ thread' = thread /\ status' = status /\ removed' = removed /\ thread[j] = "fn"
        /\ RowsOf(j)' = RowsOf(j) /\ iocs' = iocs /\ uploads' = uploads
        /\ evidence'[j] = [status |-> "done", count |-> work[j].fed - work[j].dup]
        /\ work[j].pc = "done" /\ work'[j].pc = "return"
        /\ work'[j].fed = work[j].fed /\ work'[j].batch = work[j].batch
        /\ work'[j].raised = work[j].raised /\ work'[j].dup = work[j].dup
    <3>1. thread' = thread /\ status' = status
      BY <1>13, InsideUnseen DEF Inside, vars, runner
    <3>2. work'[j] =
            [work[j] EXCEPT !.pc = "return"]
      BY <1>0, <1>13, SetOwn DEF MarkDone
    <3> QED BY <1>0, <1>13, <3>1, <3>2 DEF MarkDone, CaseTypeOK, store, At, Work, RowsOf
  <2>2. Working(j)'
    BY <1>0, <2>1 DEF Working, Work
  <2>3. Counting(j)'
    <3>1. j \notin removed => Counted(j)
      BY <1>0, <2>1 DEF Counting, Working
    <3> QED BY <1>0, <2>1, <3>1 DEF Counting, Counted, Work, RunnerInv
  <2>4. Reported(j)'
    BY <1>0, <2>1 DEF Reported, Written, Working, Terminal, RunnerInv, Evidence
  <2>5. Consumed(j)'
    BY <1>0, <2>1 DEF Consumed, Working, Terminal, RunnerInv
  <2> QED BY <2>1, <2>2, <2>3, <2>4, <2>5 DEF JobInv, NoOtherInsert
<1>14. ASSUME EndFn(j) PROVE JobInv(j)' /\ NoOtherInsert(j)
  <2>1. /\ RowsOf(j)' = RowsOf(j) /\ iocs' = iocs /\ evidence' = evidence
        /\ removed' = removed /\ uploads' = uploads
        /\ thread[j] = "fn" /\ work'[j] = NoWork
        /\ \/ work[j].pc = "return" /\ thread'[j] = "returned" /\ status'[j] = status[j]
           \/ work[j].pc = "raise" /\ thread'[j] = "ending" /\ status'[j] = "cancelled"
           \/ work[j].pc = "raise" /\ thread'[j] = "raised" /\ status'[j] = "error"
    BY <1>0, <1>14, SetOwn DEF EndFn, FnReturn, FnCancelled, FnRaise, TypeOK, store, RowsOf
  <2>2. Working(j)'
    BY <2>1, FS_EmptySet DEF Working, NoWork
  <2>3. Counting(j)'
    BY <1>0, <2>1 DEF Counting, RunnerInv
  <2>4. Reported(j)'
    BY <1>0, <2>1 DEF Reported, Written, NoWork, Terminal, RunnerInv
  <2>5. Consumed(j)'
    BY <1>0, <2>1 DEF Consumed, NoWork, Terminal, RunnerInv
  <2> QED BY <2>1, <2>2, <2>3, <2>4, <2>5 DEF JobInv, NoOtherInsert, NoWork
<1>15. ASSUME Manage(j) PROVE JobInv(j)' /\ NoOtherInsert(j)
  <2>1. /\ RowsOf(j)' = RowsOf(j) /\ iocs' = iocs /\ evidence' = evidence
        /\ removed' = removed /\ uploads' = uploads /\ work' = work
        /\ \/ thread'[j] = thread[j] /\ status'[j] = status[j]
           \/ thread[j] = "returned" /\ thread'[j] = "ending" /\ status'[j] \in {"done", "cancelled"}
           \/ thread[j] \in {"raised", "ending"} /\ thread'[j] \in {"ending", "gone"} /\ status'[j] = status[j]
    BY <1>0, <1>15, SetOwn DEF Manage, SetOutcome, SetError, Finish, Cancel, runner, TypeOK, store, RowsOf
  <2>2. Working(j)'
    BY <1>0, <2>1 DEF Working
  <2>3. Counting(j)'
    BY <1>0, <2>1 DEF Counting, Counted, RunnerInv
  <2>4. Reported(j)'
    BY <1>0, <2>1 DEF Reported, Written, Working, Terminal, RunnerInv, Evidence
  <2>5. Consumed(j)'
    BY <1>0, <2>1 DEF Consumed, Working, Terminal, RunnerInv
  <2> QED BY <2>1, <2>2, <2>3, <2>4, <2>5 DEF JobInv, NoOtherInsert
<1>16. ASSUME DeleteEvents(j) PROVE JobInv(j)' /\ NoOtherInsert(j)
  <2>1. /\ thread' = thread /\ status' = status /\ work' = work /\ iocs' = iocs /\ evidence' = evidence
        /\ uploads' = uploads /\ j \in removed' /\ RowsOf(j)' = {} /\ status[j] # "none"
    BY <1>0, <1>16, SetOwn DEF DeleteEvents, vars, runner, RowsOf
  <2>2. Working(j)'
    BY <1>0, <2>1 DEF Working
  <2>3. Counting(j)'
    BY <1>0, <2>1 DEF Counting
  <2>4. Reported(j)'
    BY <1>0, <2>1 DEF Reported
  <2>5. Consumed(j)'
    BY <1>0, <2>1 DEF Consumed
  <2> QED BY <2>1, <2>2, <2>3, <2>4, <2>5 DEF JobInv, NoOtherInsert
<1> QED
  BY <1>1, <1>2, <1>3, <1>4, <1>5, <1>6, <1>7, <1>8, <1>9, <1>10, <1>11, <1>12, <1>13, <1>14, <1>15, <1>16
     DEF Ingest

\* The end of a deletion and a crash keep the invariant of every job.
LEMMA EveryoneStep ==
  ASSUME CaseInv, Inv, NEW k \in Jobs, DeleteRest \/ CaseCrash
  PROVE  JobInv(k)'
<1>0. /\ CaseTypeOK /\ Working(k) /\ Counting(k) /\ Reported(k) /\ Consumed(k)
      /\ TypeOK /\ RunnerInv /\ (deleting # Nothing => deleting \in removed)
  BY DEF CaseInv, JobInv, Inv
<1>1. ASSUME DeleteRest PROVE JobInv(k)'
  <2>1. /\ thread' = thread /\ status' = status /\ work' = work /\ RowsOf(k)' = RowsOf(k)
        /\ uploads' = uploads /\ removed' = removed
        /\ \/ iocs'[k] = iocs[k] /\ evidence'[k] = evidence[k]
           \/ k \in removed /\ iocs'[k] = 0 /\ evidence'[k].status = "absent"
    BY <1>0, <1>1 DEF DeleteRest, CaseTypeOK, vars, runner, RowsOf
  <2>2. Working(k)'
    BY <1>0, <2>1 DEF Working
  <2>3. Counting(k)'
    BY <1>0, <2>1 DEF Counting, Counted
  <2>4. Reported(k)'
    BY <1>0, <2>1 DEF Reported, Written
  <2>5. Consumed(k)'
    BY <1>0, <2>1 DEF Consumed
  <2> QED BY <2>2, <2>3, <2>4, <2>5 DEF JobInv
<1>2. ASSUME CaseCrash PROVE JobInv(k)'
  <2>1. /\ work'[k] = NoWork /\ RowsOf(k)' = RowsOf(k)
        /\ iocs' = iocs /\ evidence' = evidence /\ uploads' = uploads /\ removed' = removed
        /\ thread'[k] = (IF thread[k] = "none" THEN "none" ELSE "gone")
        /\ status'[k] = (IF status[k] \in {"queued", "running"} THEN "lost" ELSE status[k])
    BY <1>2 DEF CaseCrash, Crash, RowsOf
  <2>2. Working(k)'
    BY <2>1, FS_EmptySet DEF Working, NoWork
  <2>3. Counting(k)'
    BY <1>0, <2>1 DEF Counting
  <2>4. Reported(k)'
    BY <1>0, <2>1 DEF Reported, Written, NoWork, Terminal, RunnerInv
  <2>5. Consumed(k)'
    BY <1>0, <2>1 DEF Consumed, NoWork, Terminal
  <2> QED BY <2>2, <2>3, <2>4, <2>5 DEF JobInv
<1> QED BY <1>1, <1>2

-----------------------------------------------------------------------------
(* Ids *)

\* Rows that go, and jobs that come to no insert, leave the ids as they are.
LEMMA IdsKept ==
  ASSUME IdsInv, IdsUnique, events' \subseteq events, nextId' = nextId,
         \A k \in Jobs : work'[k].pc = "insert" => work'[k] = work[k]
  PROVE  IdsInv' /\ IdsUnique'
<1>1. \A k \in Jobs : work'[k].pc = "insert" => End(k)' = End(k)
  BY DEF End
<1>2. IdsInv'
  BY <1>1 DEF IdsInv
<1>3. IdsUnique'
  BY DEF IdsUnique
<1> QED BY <1>2, <1>3

\* The ids reserved begin where all others end.
LEMMA ReserveIds ==
  ASSUME CaseInv, NEW j \in Jobs, Reserve(j), \A k \in Jobs \ {j} : work'[k] = work[k]
  PROVE  IdsInv' /\ IdsUnique'
<1> DEFINE size == Cardinality(work[j].batch)
<1>0. CaseTypeOK /\ IdsInv /\ IdsUnique /\ Working(j) /\ work[j] \in Work
  BY DEF CaseInv, JobInv, CaseTypeOK
<1>1. size \in Nat /\ nextId \in Nat
  BY <1>0, BatchFinite DEF CaseTypeOK
<1>2. work'[j] = [work[j] EXCEPT !.start = nextId, !.pc = "insert"]
  BY <1>0, SetOwn DEF Reserve
<1>3. work'[j].start = nextId /\ End(j)' = nextId + size
  BY <1>0, <1>2 DEF End, Work
<1>4. events' = events /\ nextId' = nextId + size
  BY DEF Reserve
<1>5. \A k \in Jobs \ {j} : End(k)' = End(k)
  BY DEF End
<1> HIDE DEF size
<1>6. ASSUME NEW k \in Jobs, work[k].pc = "insert" PROVE End(k) <= nextId /\ End(k) \in Nat
  <2>1. Working(k) /\ work[k] \in Work
    BY <1>0 DEF CaseInv, JobInv, CaseTypeOK
  <2>2. Cardinality(work[k].batch) \in Nat
    BY <1>0, <2>1, BatchFinite
  <2>3. End(k) \in Nat
    BY <2>1, <2>2 DEF End, Work
  <2> QED BY <1>0, <1>6, <2>3 DEF IdsInv
<1>7. \A r \in events : r.id \in Nat /\ r.id < nextId
  BY <1>0 DEF CaseTypeOK, Row, IdsInv
<1>8. \A r \in events' : r.id < nextId'
  BY <1>1, <1>4, <1>7
<1>9. ASSUME NEW k \in Jobs, work'[k].pc = "insert"
      PROVE  End(k)' <= nextId' /\ \A r \in events' : r.id < work'[k].start \/ End(k)' <= r.id
  <2>1. CASE k = j
    BY <1>1, <1>3, <1>4, <1>7, <2>1
  <2>2. CASE k # j
    <3>1. work'[k] = work[k] /\ End(k)' = End(k)
      BY <1>5, <2>2
    <3>2. End(k) <= nextId /\ End(k) \in Nat
      BY <1>6, <1>9, <3>1
    <3>3. \A r \in events : r.id < work[k].start \/ End(k) <= r.id
      BY <1>0, <1>9, <3>1 DEF IdsInv
    <3> QED BY <1>1, <1>4, <3>1, <3>2, <3>3
  <2> QED BY <2>1, <2>2
<1>10. ASSUME NEW a \in Jobs, NEW k \in Jobs, a # k, work'[a].pc = "insert", work'[k].pc = "insert"
       PROVE  End(a)' <= work'[k].start \/ End(k)' <= work'[a].start
  BY <1>0, <1>3, <1>5, <1>6, <1>10 DEF IdsInv
<1>11. IdsInv'
  BY <1>8, <1>9, <1>10 DEF IdsInv
<1>12. IdsUnique'
  BY <1>0, <1>4 DEF IdsUnique
<1> QED BY <1>11, <1>12

\* What is inserted has the ids its job reserved.
LEMMA InsertIds ==
  ASSUME CaseInv, NEW j \in Jobs, Insert(j), \A k \in Jobs \ {j} : work'[k] = work[k]
  PROVE  IdsInv' /\ IdsUnique'
<1>0. CaseTypeOK /\ IdsInv /\ IdsUnique /\ Working(j) /\ work[j] \in Work
  BY DEF CaseInv, JobInv, CaseTypeOK
<1>1. work'[j].pc = "indicators"
  <2>1. work'[j] = [work[j] EXCEPT !.pc = "indicators"]
    BY <1>0, SetOwn DEF Insert
  <2> QED BY <1>0, <2>1 DEF Work
<1>2. events' = events \cup NewRows(j) /\ nextId' = nextId /\ work[j].pc = "insert"
  BY DEF Insert, At
<1>3. /\ \A r \in NewRows(j) : r.id \in Nat /\ work[j].start <= r.id /\ r.id < End(j)
      /\ \A r, s \in NewRows(j) : r.id = s.id => r = s
  BY <1>0, RowsOfBatch
<1>4. /\ End(j) <= nextId /\ \A r \in events : r.id < work[j].start \/ End(j) <= r.id
      /\ \A k \in Jobs \ {j} : work[k].pc = "insert" => End(j) <= work[k].start \/ End(k) <= work[j].start
  BY <1>0, <1>2 DEF IdsInv
<1>5. \A k \in Jobs : work[k].start \in Nat /\ End(k) \in Nat
  <2> TAKE k \in Jobs
  <2>1. Working(k) /\ work[k] \in Work
    BY DEF CaseInv, JobInv, CaseTypeOK
  <2>2. Cardinality(work[k].batch) \in Nat
    BY <1>0, <2>1, BatchFinite
  <2> QED BY <2>1, <2>2 DEF End, Work
<1>6. nextId \in Nat /\ \A r \in events : r.id \in Nat
  BY <1>0 DEF CaseTypeOK, Row
<1>7. \A k \in Jobs : work'[k].pc = "insert" => k # j /\ work'[k] = work[k] /\ End(k)' = End(k)
  BY <1>1 DEF End
<1>8. \A r \in events' : r.id < nextId'
  <2>1. \A r \in NewRows(j) : r.id < nextId
    BY <1>3, <1>4, <1>5, <1>6
  <2> QED BY <1>0, <1>2, <2>1 DEF IdsInv
<1>9. ASSUME NEW k \in Jobs, work'[k].pc = "insert"
      PROVE  End(k)' <= nextId' /\ \A r \in events' : r.id < work'[k].start \/ End(k)' <= r.id
  <2>1. k # j /\ work'[k] = work[k] /\ End(k)' = End(k) /\ work[k].pc = "insert"
    BY <1>7, <1>9
  <2>2. End(k) <= nextId /\ \A r \in events : r.id < work[k].start \/ End(k) <= r.id
    BY <1>0, <2>1 DEF IdsInv
  <2>3. \A r \in NewRows(j) : r.id < work[k].start \/ End(k) <= r.id
    BY <1>3, <1>4, <1>5, <2>1
  <2> QED BY <1>2, <2>1, <2>2, <2>3
<1>10. ASSUME NEW a \in Jobs, NEW k \in Jobs, a # k, work'[a].pc = "insert", work'[k].pc = "insert"
       PROVE  End(a)' <= work'[k].start \/ End(k)' <= work'[a].start
  BY <1>0, <1>7, <1>10 DEF IdsInv
<1>11. IdsInv'
  BY <1>8, <1>9, <1>10 DEF IdsInv
<1>12. IdsUnique'
  <2>1. \A r \in NewRows(j), s \in events : r.id # s.id
    BY <1>3, <1>4, <1>5, <1>6
  <2> QED BY <1>0, <1>2, <1>3, <2>1 DEF IdsUnique
<1> QED BY <1>11, <1>12

\* Every step keeps the ids apart.
LEMMA IdsStep ==
  ASSUME CaseInv, Inv, [CaseNext]_caseVars
  PROVE  IdsInv' /\ IdsUnique'
<1>0. CaseTypeOK /\ TypeOK /\ IdsInv /\ IdsUnique /\ \A j \in Jobs : work[j] \in Work
  BY DEF CaseInv, CaseTypeOK, Inv
<1>1. ASSUME NEW j \in Jobs, Post(j) \/ Start(j) \/ Ingest(j) \/ Manage(j) \/ DeleteEvents(j)
      PROVE  IdsInv' /\ IdsUnique'
  <2>0. \A k \in Jobs \ {j} : work'[k] = work[k]
    BY <1>0, <1>1, OthersSame DEF Same
  <2>1. CASE Reserve(j)
    BY <2>0, <2>1, ReserveIds
  <2>2. CASE Insert(j)
    BY <2>0, <2>2, InsertIds
  <2>3. CASE Post(j) \/ Manage(j)
    <3>1. work' = work /\ events' = events /\ nextId' = nextId
      BY <2>3 DEF Post, Manage, store
    <3> QED BY <1>0, <3>1, IdsKept
  <2>4. CASE DeleteEvents(j)
    <3>1. work' = work /\ events' \subseteq events /\ nextId' = nextId
      BY <2>4 DEF DeleteEvents
    <3> QED BY <1>0, <3>1, IdsKept
  <2>5. CASE Start(j) \/ EndFn(j) \/ (Inside(j) /\ ~ Reserve(j) /\ ~ Insert(j))
    <3>1. \A k \in Jobs : work'[k].pc = "insert" => work'[k] = work[k]
      <4>1. ~ Reserve(j)
        BY <2>5 DEF Start, Acquire, EndFn, Reserve, At
      <4> QED BY <1>1, <2>0, <4>1, OwnStep DEF NoOtherInsert
    <3>2. events' = events /\ nextId' = nextId
      BY <2>5 DEF Start, EndFn, Inside, Feed, EndOfFile, ParserRaises, CheckRaises, Stop, Look, InsertRaises,
                  Indicators, MarkFailed, Discard, MarkDone, store
    <3> QED BY <1>0, <3>1, <3>2, IdsKept
  <2> QED BY <1>1, <2>1, <2>2, <2>3, <2>4, <2>5 DEF Ingest, Inside
<1>2. CASE DeleteRest
  <2>1. work' = work /\ events' = events /\ nextId' = nextId
    BY <1>2 DEF DeleteRest
  <2> QED BY <1>0, <2>1, IdsKept
<1>3. CASE CaseCrash
  <2>1. events' = events /\ nextId' = NextIdOnOpen /\ \A k \in Jobs : work'[k].pc # "insert"
    BY <1>3 DEF CaseCrash, NoWork
  <2>2. \A r \in events : r.id < NextIdOnOpen
    BY <1>0, CounterFromRows DEF IdsInv
  <2> QED BY <1>0, <2>1, <2>2 DEF IdsInv, IdsUnique
<1>4. CASE UNCHANGED caseVars
  <2>1. work' = work /\ events' = events /\ nextId' = nextId
    BY <1>4 DEF caseVars, store
  <2> QED BY <1>0, <2>1, IdsKept
<1> QED BY <1>1, <1>2, <1>3, <1>4 DEF CaseNext

-----------------------------------------------------------------------------
(* The theorems *)

\* Every step of the store and of the job manager keeps the invariant.
LEMMA CaseInvStep ==
  ASSUME CaseInv, Inv, [CaseNext]_caseVars
  PROVE  CaseInv'
<1>0. CaseTypeOK /\ TypeOK /\ IsFiniteSet(events) /\ (deleting # Nothing => deleting \in removed)
  BY DEF CaseInv, Inv
<1>1. CaseTypeOK'
  BY CaseTypeStep
<1>2. IdsInv' /\ IdsUnique'
  BY IdsStep
<1>3. ASSUME NEW k \in Jobs PROVE JobInv(k)'
  <2>1. JobInv(k)
    BY DEF CaseInv
  <2>2. ASSUME NEW j \in Jobs, Post(j) \/ Start(j) \/ Ingest(j) \/ Manage(j) \/ DeleteEvents(j)
        PROVE  JobInv(k)'
    <3>1. CASE k = j
      BY <2>2, <3>1, OwnStep
    <3>2. CASE k # j
      BY <1>0, <2>1, <2>2, <3>2, OthersSame, SameKeeps
    <3> QED BY <3>1, <3>2
  <2>3. CASE DeleteRest \/ CaseCrash
    BY <2>3, EveryoneStep
  <2>4. CASE UNCHANGED caseVars
    <3>1. Same(k)
      BY <2>4 DEF Same, caseVars, store, vars, runner, RowsOf
    <3> QED BY <2>1, <3>1, SameKeeps
  <2> QED BY <2>2, <2>3, <2>4 DEF CaseNext
<1>4. IsFiniteSet(events')
  <2>1. ASSUME NEW j \in Jobs, Insert(j) PROVE IsFiniteSet(events')
    <3>1. IsFiniteSet(NewRows(j))
      BY <1>0, RowsOfBatch DEF CaseInv, JobInv
    <3> QED BY <1>0, <2>1, <3>1, FS_Union DEF Insert
  <2>2. ASSUME NEW j \in Jobs, DeleteEvents(j) PROVE IsFiniteSet(events')
    BY <1>0, <2>2, FS_Difference DEF DeleteEvents
  <2>3. ASSUME NEW j \in Jobs, Post(j) \/ Start(j) \/ Manage(j) \/ EndFn(j) PROVE events' = events
    BY <2>3 DEF Post, Start, Manage, EndFn, store
  <2>4. ASSUME NEW j \in Jobs, Inside(j), ~ Insert(j) PROVE events' = events
    BY <2>4 DEF Inside, Feed, EndOfFile, ParserRaises, CheckRaises, Stop, Look, Reserve, InsertRaises,
                Indicators, MarkFailed, Discard, MarkDone, store
  <2>5. CASE DeleteRest \/ CaseCrash \/ UNCHANGED caseVars
    BY <1>0, <2>5 DEF DeleteRest, CaseCrash, caseVars, store
  <2> QED BY <1>0, <2>1, <2>2, <2>3, <2>4, <2>5 DEF CaseNext, Ingest, Inside
<1>5. (deleting # Nothing => deleting \in removed)'
  <2>1. ASSUME NEW j \in Jobs, DeleteEvents(j) PROVE (deleting # Nothing => deleting \in removed)'
    BY <2>1 DEF DeleteEvents
  <2>2. ASSUME NEW j \in Jobs, Post(j) \/ Start(j) \/ Manage(j) \/ EndFn(j)
        PROVE  deleting' = deleting /\ removed' = removed
    BY <2>2 DEF Post, Start, Manage, EndFn
  <2>3. ASSUME NEW j \in Jobs, Inside(j) PROVE deleting' = deleting /\ removed' = removed
    BY <2>3 DEF Inside, Feed, EndOfFile, ParserRaises, CheckRaises, Stop, Look, Reserve, Insert, InsertRaises,
                Indicators, MarkFailed, Discard, MarkDone
  <2>4. CASE DeleteRest \/ CaseCrash \/ UNCHANGED caseVars
    BY <1>0, <2>4 DEF DeleteRest, CaseCrash, caseVars
  <2> QED BY <1>0, <2>1, <2>2, <2>3, <2>4 DEF CaseNext, Ingest, Inside
<1> QED BY <1>1, <1>2, <1>3, <1>4, <1>5 DEF CaseInv

\* The invariant holds in every state the ingestions reach, together with that of the job manager.
THEOREM CaseInvariant == CaseSpec => [](CaseInv /\ Inv)
<1>1. CaseInit => CaseInv
  BY CaseInvInit
<1>2. CaseInv /\ Inv /\ [CaseNext]_caseVars => CaseInv'
  BY CaseInvStep
<1>3. CaseSpec => []Inv
  BY IngestionsAreJobs, JobsInvariant, PTL
<1> QED BY <1>1, <1>2, <1>3, PTL DEF CaseSpec

\* The variables of the case store keep their types, whatever is ingested, deleted or lost.
THEOREM CaseTypeCorrect == CaseSpec => []CaseTypeOK
<1>1. CaseInv => CaseTypeOK
  BY DEF CaseInv
<1> QED BY CaseInvariant, <1>1, PTL

\* Two ingestions that write at the same time, a write that failed and was repeated, and a store
\* that was opened again after a crash never give one id to two rows.
THEOREM IdsStayUnique == CaseSpec => []IdsUnique
<1>1. CaseInv => IdsUnique
  BY DEF CaseInv
<1> QED BY CaseInvariant, <1>1, PTL

\* A done evidence counts the rows the case has of it and each of them has its indicators, and
\* rows are never there without their evidence.
THEOREM EvidenceTellsTheRows == CaseSpec => []EvidenceTellsOfRows
<1>1. CaseInv => EvidenceTellsOfRows
  <2> SUFFICES ASSUME CaseInv PROVE EvidenceTellsOfRows
    OBVIOUS
  <2>1. \A j \in Jobs : Counting(j) /\ Reported(j)
    BY DEF CaseInv, JobInv
  <2>2. DoneCountsRows
    BY <2>1 DEF DoneCountsRows, Counting
  <2>3. RowsHaveEvidence
    <3> SUFFICES ASSUME NEW r \in events, r.ev \notin removed PROVE evidence[r.ev].status # "absent"
      BY DEF RowsHaveEvidence
    <3>1. r.ev \in Jobs /\ RowsOf(r.ev) # {}
      BY DEF CaseInv, CaseTypeOK, Row, RowsOf
    <3> QED BY <2>1, <3>1 DEF Counting, Reported, Written
  <2> QED BY <2>2, <2>3 DEF EvidenceTellsOfRows
<1> QED BY CaseInvariant, <1>1, PTL

\* Whichever way a job ended, its upload is gone and its evidence row says how it went.
THEOREM EndedJobsAreSettled == CaseSpec => []EndedJobSettled
<1>1. CaseInv => EndedJobSettled
  <2> SUFFICES ASSUME CaseInv, NEW j \in Jobs, status[j] \in Terminal
               PROVE  /\ j \notin uploads
                      /\ j \notin removed => evidence[j].status \in {"done", "error"}
                      /\ (status[j] = "done" /\ j \notin removed) => evidence[j].status = "done"
                      /\ status[j] = "error" => evidence[j].status # "done"
    BY DEF EndedJobSettled
  <2>1. Reported(j) /\ Consumed(j)
    BY DEF CaseInv, JobInv
  <2> QED BY <2>1 DEF Reported, Written, Consumed
<1> QED BY CaseInvariant, <1>1, PTL
=============================================================================
