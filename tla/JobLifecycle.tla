---------------------------- MODULE JobLifecycle ----------------------------
(***************************************************************************)
(* What the gateway promises about a document-processing job, before any   *)
(* queue, goroutine or HTTP call is mentioned: a submitted job waits, is    *)
(* taken by one executor, runs there once, and ends for good as "ready" or  *)
(* "error".  WorkerPool is shown to implement it.                           *)
(***************************************************************************)
CONSTANTS
  Job,       \* document-processing jobs
  Executor,  \* whoever may run a job
  NoJob      \* "runs nothing"; not a job

VARIABLES
  status,    \* the status a client would be shown
  running    \* the job each executor is running

lifecycle == <<status, running>>

Outcome == {"ready", "error"}

Init ==
  /\ status = [j \in Job |-> "none"]
  /\ running = [e \in Executor |-> NoJob]

Submit(j) ==
  /\ status[j] = "none"
  /\ status' = [status EXCEPT ![j] = "pending"]
  /\ UNCHANGED running

Start(e, j) ==
  /\ running[e] = NoJob
  /\ status[j] = "pending"
  /\ status' = [status EXCEPT ![j] = "processing"]
  /\ running' = [running EXCEPT ![e] = j]

Finish(e, j) ==
  /\ running[e] = j
  /\ \E s \in Outcome : status' = [status EXCEPT ![j] = s]
  /\ running' = [running EXCEPT ![e] = NoJob]

Next ==
  \E j \in Job :
    \/ Submit(j)
    \/ \E e \in Executor : Start(e, j) \/ Finish(e, j)

Spec == Init /\ [][Next]_lifecycle
=============================================================================
