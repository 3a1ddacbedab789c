----------------------------- MODULE JobPromise -----------------------------
(***************************************************************************)
(* What the job manager (backend/api/jobs.py) promises those who submit    *)
(* work to it, without threads, semaphore or registry: a job waits, runs   *)
(* with at most MaxWorkers at a time, and ends once, in one state; its     *)
(* result appears with the end, never before; a job somebody asked to      *)
(* cancel is not reported done; the end of the process loses the jobs that *)
(* had not ended.                                                          *)
(***************************************************************************)
EXTENDS Naturals, FiniteSets

CONSTANTS Jobs, MaxWorkers

VARIABLES state,    \* where each job is
          asked,    \* the jobs somebody asked to cancel
          outcome   \* the jobs whose result may be read

vars == <<state, asked, outcome>>

Ends == {"done", "error", "cancelled"}
Running == {j \in Jobs : state[j] = "running"}

Init ==
  /\ state = [j \in Jobs |-> "none"]
  /\ asked = {}
  /\ outcome = {}

Submit(j) ==
  /\ state[j] = "none"
  /\ state' = [state EXCEPT ![j] = "queued"]
  /\ UNCHANGED <<asked, outcome>>

Start(j) ==
  /\ state[j] = "queued"
  /\ Cardinality(Running) < MaxWorkers
  /\ state' = [state EXCEPT ![j] = "running"]
  /\ UNCHANGED <<asked, outcome>>

\* A job that returned has a result, whether it counts as done or as cancelled.
Return(j) ==
  /\ state[j] = "running"
  /\ state' = [state EXCEPT ![j] = IF j \in asked THEN "cancelled" ELSE "done"]
  /\ outcome' = outcome \cup {j}
  /\ UNCHANGED asked

Fail(j) ==
  /\ state[j] = "running"
  /\ \E s \in {"error", "cancelled"} :
       /\ s = "cancelled" => j \in asked
       /\ state' = [state EXCEPT ![j] = s]
  /\ UNCHANGED <<asked, outcome>>

Ask(j) ==
  /\ state[j] # "none"
  /\ asked' = asked \cup {j}
  /\ UNCHANGED <<state, outcome>>

Lose ==
  /\ state' = [j \in Jobs |-> IF state[j] \in {"queued", "running"} THEN "lost" ELSE state[j]]
  /\ UNCHANGED <<asked, outcome>>

Next == Lose \/ \E j \in Jobs : Submit(j) \/ Start(j) \/ Return(j) \/ Fail(j) \/ Ask(j)

Spec == Init /\ [][Next]_vars
=============================================================================
