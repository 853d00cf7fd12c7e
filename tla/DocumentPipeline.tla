-------------------------- MODULE DocumentPipeline --------------------------
(***************************************************************************)
(* The whole path of a document: the gateway's worker pool with the real    *)
(* Python agent in the place of its oracle, the embeddings and the status   *)
(* column the agent writes to the database, and what this means for the     *)
(* version of the chat cache.  The agent runs in a thread of its own: it    *)
(* goes on when the gateway has given up on it or has ended.                *)
(***************************************************************************)
EXTENDS WorkerPool

CONSTANTS
  Textless,   \* jobs whose PDF holds no text (scans): no chunk comes of it
  Observed    \* the project whose cache is looked at; any one

ASSUME PipelineAssumption == Textless \subseteq Job /\ Observed \in Project

VARIABLES
  agent,      \* how far the agent is with each job's request
  stored,     \* jobs whose embeddings are committed
  docStatus,  \* the status the agent last wrote for each document
  announced,  \* history: what became of each job's INCR
  number      \* history: the version it returned

agentVars    == <<agent, stored, docStatus>>
historyVars  == <<announced, number>>
pipelineVars == <<vars, agentVars, historyVars>>

Document == {DocumentOf[j] : j \in Job}

PipelineTypeOK ==
  /\ TypeOK
  /\ agent \in [Job -> {"idle", "sent", "running", "stored", "ok", "failed", "dead"}]
  /\ stored \in SUBSET Job
  /\ docStatus \in [Document -> {"unset", "ready", "error"}]
  /\ announced \in [Job -> {"no", "early", "done", "lost"}]
  /\ number \in [Job -> Nat]

PipelineInit ==
  /\ Init
  /\ agent = [j \in Job |-> "idle"]
  /\ stored = {}
  /\ docStatus = [d \in Document |-> "unset"]
  /\ announced = [j \in Job |-> "no"]
  /\ number = [j \in Job |-> 0]

-----------------------------------------------------------------------------
(* The gateway.                                                             *)

\* The POST to the agent leaves, unless the breaker, the connection or the
\* cancelled context prevents it.  It is never sent again.
SendRequest(w) ==
  /\ wpc[w] = "calling" /\ agent[held[w]] = "idle" /\ ~Cancelled
  /\ agent' = [agent EXCEPT ![held[w]] = "sent"]
  /\ UNCHANGED <<vars, stored, docStatus, historyVars>>

\* Faulty variant: whatever the agent answers counts as success.
AnswerAny(w) ==
  /\ MarkReady(w)
  /\ agent[held[w]] \in {"ok", "failed"}
  /\ UNCHANGED <<agentVars, historyVars>>

\* Faulty variant: a request the agent has only begun counts as answered.
AnswerAccepted(w) ==
  /\ MarkReady(w)
  /\ agent[held[w]] \in {"running", "stored", "ok"}
  /\ UNCHANGED <<agentVars, historyVars>>

\* The agent's answer arrives in time.
Answer(w) ==
  /\ MarkReady(w)
  /\ agent[held[w]] = "ok"
  /\ UNCHANGED <<agentVars, historyVars>>

\* An error answer, a timeout, a lost connection, an open breaker or the end of
\* the context, whatever the agent is doing.
GiveUp(w) ==
  /\ MarkError(w)
  /\ UNCHANGED <<agentVars, historyVars>>

Invalidate(w) ==
  LET j == held[w] IN
  /\ InvalidateCache(w)
  /\ IF version' # version
     THEN /\ announced' = [announced EXCEPT ![j] = IF j \in stored THEN "done" ELSE "early"]
          /\ number' = [number EXCEPT ![j] = version'[ProjectOf[j]]]
     ELSE /\ announced' = [announced EXCEPT ![j] = "lost"]
          /\ UNCHANGED number
  /\ UNCHANGED agentVars

\* Everything else the gateway does, which the agent does not see.
Elsewhere ==
  /\ \/ \E j \in Job : Handler(j)
     \/ \E w \in Worker : \/ CheckContext(w) \/ DequeueJob(w) \/ DequeueEmpty(w)
                          \/ MarkProcessing(w) \/ SendWebhook(w) \/ Backoff(w)
     \/ Signal \/ PoolStopped \/ Exit
  /\ UNCHANGED <<agentVars, historyVars>>

GatewayWorker(w) == SendRequest(w) \/ Answer(w) \/ GiveUp(w) \/ Invalidate(w)

-----------------------------------------------------------------------------
(* The agent: _process_document_sync in a thread of its server's pool.      *)

AgentStep(j, from, to) ==
  /\ agent[j] = from
  /\ agent' = [agent EXCEPT ![j] = to]
  /\ UNCHANGED <<vars, historyVars>>

\* A thread takes the request, perhaps long after the gateway gave up.
Start(j) ==
  /\ AgentStep(j, "sent", "running")
  /\ UNCHANGED <<stored, docStatus>>

\* Faulty variant: the status is written before the rows.
PublishFirst(j) ==
  /\ AgentStep(j, "running", "ok")
  /\ docStatus' = [docStatus EXCEPT ![DocumentOf[j]] = "ready"]
  /\ UNCHANGED stored

\* Download, extraction, chunking and embedding succeeded and the rows are
\* committed.  Rows of earlier runs of the document stay.
Store(j) ==
  /\ AgentStep(j, "running", "stored")
  /\ stored' = IF j \in Textless THEN stored ELSE stored \cup {j}
  /\ UNCHANGED docStatus

Publish(j) ==
  /\ AgentStep(j, "stored", "ok")
  /\ docStatus' = [docStatus EXCEPT ![DocumentOf[j]] = "ready"]
  /\ UNCHANGED stored

\* Faulty variant: a run that fails late takes its rows back.
FailUndoing(j) ==
  /\ \/ AgentStep(j, "running", "failed")
     \/ AgentStep(j, "stored", "failed")
  /\ \/ docStatus' = [docStatus EXCEPT ![DocumentOf[j]] = "error"]
     \/ UNCHANGED docStatus
  /\ stored' = stored \ {j}

\* A step failed, the update of the status after the commit included.  The
\* error status is written if the database lets it; the rows are not undone.
Fail(j) ==
  /\ \/ AgentStep(j, "running", "failed")
     \/ AgentStep(j, "stored", "failed")
  /\ \/ docStatus' = [docStatus EXCEPT ![DocumentOf[j]] = "error"]
     \/ UNCHANGED docStatus
  /\ UNCHANGED stored

\* The agent's process ends under the request; nobody resumes it.
Crash(j) ==
  /\ \/ AgentStep(j, "running", "dead")
     \/ AgentStep(j, "stored", "dead")
  /\ UNCHANGED <<stored, docStatus>>

Agent(j) == Start(j) \/ Store(j) \/ Publish(j) \/ Fail(j) \/ Crash(j)

PipelineNext ==
  \/ main # "exited" /\ (Elsewhere \/ \E w \in Worker : GatewayWorker(w))
  \/ \E j \in Job : Agent(j)

\* The pool's own fairness: the deadline of the call sees to GiveUp, whatever
\* the agent does, so nothing is assumed of the agent.
PipelineSpec == PipelineInit /\ [][PipelineNext]_pipelineVars /\ Fairness

-----------------------------------------------------------------------------
\* What the BFF was told is searchable: the notification "ready" of a job only
\* follows the commit of its rows in the agent, unless its PDF holds no text.
NotifiedIsSearchable ==
  \A n \in webhooks : n.status = "ready" => n.job \in stored \/ n.job \in Textless

\* The status column and the rows agree: a document is "ready" only after some
\* run of it committed, and a job the gateway shows as "ready" has left no
\* document without a status.
ReadyIsBacked ==
  /\ \A d \in Document : docStatus[d] = "ready" =>
       \E j \in Job : DocumentOf[j] = d /\ (j \in stored \/ j \in Textless)
  /\ \A j \in Job : jobs[j] = "ready" => docStatus[DocumentOf[j]] # "unset"

\* A job that was refused for lack of room, or that nobody has started, has
\* left nothing in the database, and every committed row goes back to one
\* request that a worker made: no document is embedded behind the queue's back.
StoredWasRun ==
  \A j \in stored : jobs[j] \in {"processing"} \cup Terminal /\ handler[j] \in {"queued", "replied"}

\* Where the gateway and the database disagree, a run that went on by itself is
\* the reason: rows that came after their job's increment are of a job reported
\* "error", to the BFF too, and a document whose job was reported "ready" is only
\* set to "error" by a failure of another run of it.
DisagreementsExplained ==
  /\ \A j \in stored : announced[j] = "early" =>
       jobs[j] = "error" /\ \A n \in webhooks : n.job = j => n.status = "error"
  /\ \A j \in Job : jobs[j] = "ready" /\ docStatus[DocumentOf[j]] = "error" =>
       \E k \in Job \ {j} : DocumentOf[k] = DocumentOf[j] /\ agent[k] = "failed"

\* The document runs of a project drive the chat cache the way ChatCache
\* assumes: one commit and one increment at most per job, in any order.
Runs == {j \in Job : ProjectOf[j] = Observed}

Cache == INSTANCE ChatCache WITH
  Request <- {}, Question <- {}, QuestionOf <- <<>>, Update <- Runs,
  committed <- stored \cap Runs,
  announced <- [j \in Runs |-> announced[j]], number <- [j \in Runs |-> number[j]],
  version <- version[Observed],
  cache <- {}, pc <- <<>>, readOk <- <<>>, ver <- <<>>, answer <- <<>>, due <- <<>>, writes <- {}

DrivesCache == Cache!Spec

-----------------------------------------------------------------------------
(* Claims of the documentation that the code does not keep.                 *)

\* maybeInvalidateCache: new queries use the updated data after a document is
\* processed.  The BFF hears "ready" before the version is incremented.
NotifiedIsInvalidated ==
  \A n \in webhooks : n.status = "ready" /\ n.job \in stored => announced[n.job] = "done"

\* Feature 3.2: the increment at the end of a job, success or error, makes the
\* answers from before the document invalid.  After a timeout the increment
\* comes first and the rows later.
IncrementFollowsCommit == \A j \in stored : announced[j] # "early"

-----------------------------------------------------------------------------
\* How agent, rows and job agree: the request is sent by the worker that runs
\* the job, and an answer is recorded only when it was "ok".
AgentAgrees ==
  \A j \in Job :
    /\ agent[j] # "idle" => jobs[j] \in {"processing"} \cup Terminal
    /\ agent[j] \in {"idle", "sent", "running"} => j \notin stored
    /\ agent[j] \in {"stored", "ok"} => j \in stored \/ j \in Textless
    /\ agent[j] = "ok" => docStatus[DocumentOf[j]] # "unset"
    /\ jobs[j] = "ready" => agent[j] = "ok"

\* An increment has happened only for jobs that are done with, so it happens once.
HistoryAgrees ==
  \A j \in Job : announced[j] # "no" => jobs[j] \in Terminal /\ \A w \in Worker : held[w] # j

\* Rows come after the increment only of jobs that are not "ready", and somebody
\* failed wherever the status column says "error".
LateAgrees ==
  /\ \A j \in stored : announced[j] = "early" => jobs[j] # "ready"
  /\ \A d \in Document : docStatus[d] = "error" => \E k \in Job : DocumentOf[k] = d /\ agent[k] = "failed"

PipelineIInv ==
  /\ PipelineTypeOK
  /\ IInv
  /\ AgentAgrees
  /\ HistoryAgrees
  /\ LateAgrees
  /\ ReadyIsBacked
  /\ NotifiedIsSearchable
  /\ StoredWasRun
=============================================================================
