----------------------------- MODULE WorkerPool -----------------------------
(***************************************************************************)
(* The gateway's asynchronous document pipeline: HTTP handlers that submit  *)
(* jobs, a pool of worker goroutines that poll the queue, call the Python   *)
(* agent, notify the BFF and invalidate the chat cache, and the shutdown    *)
(* sequence of main().  Each action is one access to shared state together  *)
(* with the local steps around it.  The Python agent is an oracle here:     *)
(* DocumentPipeline puts the real one in its place.                         *)
(***************************************************************************)
EXTENDS MemoryQueue

CONSTANTS
  Worker,          \* worker goroutines (PDF_WORKERS)
  NoJob,           \* a worker between jobs
  Project,
  ProjectOf,       \* project of each job
  DocumentOf,      \* document of each job: several jobs may share one
  WebhookEnabled,  \* whether WEBHOOK_URL is set
  MaxAttempts      \* webhook attempts per job (3 in the code)

ASSUME PoolAssumption ==
  /\ NoJob \notin Job
  /\ ProjectOf \in [Job -> Project]
  /\ DOMAIN DocumentOf = Job
  /\ WebhookEnabled \in BOOLEAN
  /\ MaxAttempts \in Nat \ {0}

VARIABLES
  handler,   \* where the POST /documents/process of each job stands
  reply,     \* status string of its 202 answer
  wpc,       \* where each worker's loop stands
  held,      \* the job each worker has taken from the channel
  outcome,   \* result of that job, as the worker will report it
  attempt,   \* webhook attempts each worker has made for its job
  webhooks,  \* notifications that reached the BFF
  version,   \* chat-cache version of each project, in Redis
  main       \* shutdown sequence of the process

queueVars == <<ch, jobs>>
vars == <<ch, jobs, handler, reply, wpc, held, outcome, attempt, webhooks, version, main>>

HandlerState == {"new", "tracked", "refused", "queued", "replied", "rejected"}
Idle         == {"poll", "dequeue", "stopped"}
Finishing    == {"notify", "backoff", "invalidate"}
WorkerState  == Idle \cup {"claimed", "calling"} \cup Finishing

TypeOK ==
  /\ QueueTypeOK
  /\ handler \in [Job -> HandlerState]
  /\ reply \in [Job -> Status \cup {"absent", "none", "torn"}]
  /\ wpc \in [Worker -> WorkerState]
  /\ held \in [Worker -> Job \cup {NoJob}]
  /\ outcome \in [Worker -> Terminal \cup {"none"}]
  /\ attempt \in [Worker -> 0..MaxAttempts]
  /\ webhooks \subseteq [job : Job, status : Terminal]
  /\ version \in [Project -> Nat]
  /\ main \in {"serving", "stopping", "closing", "exited"}

Init ==
  /\ QueueInit
  /\ handler = [j \in Job |-> "new"]
  /\ reply = [j \in Job |-> "none"]
  /\ wpc = [w \in Worker |-> "poll"]
  /\ held = [w \in Worker |-> NoJob]
  /\ outcome = [w \in Worker |-> "none"]
  /\ attempt = [w \in Worker |-> 0]
  /\ webhooks = {}
  /\ version = [p \in Project |-> 0]
  /\ main = "serving"

Cancelled == main # "serving"   \* the pool's context

-----------------------------------------------------------------------------
(* The handler of POST /documents/process.  The listener is open until      *)
(* srv.Shutdown, which main() reaches only after the pool has stopped.      *)

HandlerStep(j, from, to) ==
  /\ handler[j] = from
  /\ handler' = [handler EXCEPT ![j] = to]
  /\ UNCHANGED <<wpc, held, outcome, attempt, webhooks, version, main>>

PostTrack(j) ==
  /\ main \in {"serving", "stopping"}
  /\ HandlerStep(j, "new", "tracked")
  /\ Track(j)
  /\ UNCHANGED <<ch, reply>>

PostSend(j) ==
  /\ HandlerStep(j, "tracked", "queued")
  /\ Send(j)
  /\ UNCHANGED <<jobs, reply>>

PostRefuse(j) ==
  /\ HandlerStep(j, "tracked", "refused")
  /\ Full
  /\ UNCHANGED <<ch, jobs, reply>>

\* Faulty variant: a refused job stays in the map.
PostRevertNothing(j) ==
  /\ HandlerStep(j, "refused", "rejected")
  /\ UNCHANGED <<ch, jobs, reply>>

PostRevert(j) ==
  /\ HandlerStep(j, "refused", "rejected")
  /\ Untrack(j)
  /\ UNCHANGED <<ch, reply>>

\* The handler reads job.Status without the queue's lock while a worker may be
\* about to overwrite the two-word string: the read may mix both values.
PostReply(j) ==
  /\ HandlerStep(j, "queued", "replied")
  /\ \/ reply' = [reply EXCEPT ![j] = jobs[j]]
     \/ /\ \E w \in Worker : held[w] = j /\ wpc[w] \in {"claimed", "calling"}
        /\ reply' = [reply EXCEPT ![j] = "torn"]
  /\ UNCHANGED <<ch, jobs>>

-----------------------------------------------------------------------------
(* The loop of one worker goroutine.                                        *)

WorkerStep(w, from, to) ==
  /\ wpc[w] = from
  /\ wpc' = [wpc EXCEPT ![w] = to]
  /\ UNCHANGED <<handler, reply, main>>

\* Faulty variant: the loop never looks at the context.
CheckNothing(w) ==
  /\ WorkerStep(w, "poll", "dequeue")
  /\ UNCHANGED <<ch, jobs, held, outcome, attempt, webhooks, version>>

CheckContext(w) ==
  /\ \/ Cancelled /\ WorkerStep(w, "poll", "stopped")
     \/ ~Cancelled /\ WorkerStep(w, "poll", "dequeue")
  /\ UNCHANGED <<ch, jobs, held, outcome, attempt, webhooks, version>>

\* Faulty variant: a job received after the signal is thrown away.
DequeueOrDrop(w) ==
  /\ WorkerStep(w, "dequeue", IF Cancelled THEN "stopped" ELSE "claimed")
  /\ \E j \in Job : Receive(j) /\ held' = [held EXCEPT ![w] = IF Cancelled THEN NoJob ELSE j]
  /\ UNCHANGED <<jobs, outcome, attempt, webhooks, version>>

\* Faulty variant: the agent is called without marking the job "processing".
DequeueAndCall(w) ==
  /\ WorkerStep(w, "dequeue", "calling")
  /\ \E j \in Job : Receive(j) /\ held' = [held EXCEPT ![w] = j]
  /\ UNCHANGED <<jobs, outcome, attempt, webhooks, version>>

DequeueJob(w) ==
  /\ WorkerStep(w, "dequeue", "claimed")
  /\ \E j \in Job : Receive(j) /\ held' = [held EXCEPT ![w] = j]
  /\ UNCHANGED <<jobs, outcome, attempt, webhooks, version>>

\* Faulty variant: a worker that finds nothing to do ends.
DequeueEmptyEnds(w) ==
  /\ ch = <<>>
  /\ WorkerStep(w, "dequeue", "stopped")
  /\ UNCHANGED <<ch, jobs, held, outcome, attempt, webhooks, version>>

DequeueEmpty(w) ==
  /\ ch = <<>>
  /\ WorkerStep(w, "dequeue", "poll")
  /\ UNCHANGED <<ch, jobs, held, outcome, attempt, webhooks, version>>

\* A job the map does not know is dropped.
MarkProcessing(w) ==
  /\ WorkerStep(w, "claimed", IF Tracked(held[w]) THEN "calling" ELSE "poll")
  /\ UpdateStatus(held[w], "processing")
  /\ held' = [held EXCEPT ![w] = IF Tracked(@) THEN @ ELSE NoJob]
  /\ UNCHANGED <<ch, outcome, attempt, webhooks, version>>

\* Faulty variant: the error path notifies without recording.
RecordReadyOnly(w, s) ==
  /\ WorkerStep(w, "calling", IF WebhookEnabled THEN "notify" ELSE "invalidate")
  /\ IF s = "ready" THEN UpdateStatus(held[w], s) ELSE UNCHANGED jobs
  /\ outcome' = [outcome EXCEPT ![w] = s]
  /\ UNCHANGED <<ch, held, attempt, webhooks, version>>

\* The agent call returns and its outcome is recorded; a failure to record it
\* is only logged, and the notification follows either way.
Record(w, s) ==
  /\ WorkerStep(w, "calling", IF WebhookEnabled THEN "notify" ELSE "invalidate")
  /\ UpdateStatus(held[w], s)
  /\ outcome' = [outcome EXCEPT ![w] = s]
  /\ UNCHANGED <<ch, held, attempt, webhooks, version>>

MarkReady(w) == Record(w, "ready")
MarkError(w) == Record(w, "error")

\* One POST to the webhook.  It may reach the BFF and still fail here, when the
\* answer is lost or is an error status.  It does not depend on the context.
SendWebhook(w) ==
  /\ attempt' = [attempt EXCEPT ![w] = @ + 1]
  /\ \E reached, acknowledged \in BOOLEAN :
       /\ acknowledged => reached
       /\ webhooks' = IF reached
                      THEN webhooks \cup {[job |-> held[w], status |-> outcome[w]]}
                      ELSE webhooks
       /\ WorkerStep(w, "notify", IF acknowledged THEN "invalidate" ELSE "backoff")
  /\ UNCHANGED <<ch, jobs, held, outcome, version>>

Backoff(w) ==
  /\ \/ Cancelled /\ WorkerStep(w, "backoff", "invalidate")
     \/ attempt[w] < MaxAttempts /\ WorkerStep(w, "backoff", "notify")
     \/ attempt[w] = MaxAttempts /\ WorkerStep(w, "backoff", "invalidate")
  /\ UNCHANGED <<ch, jobs, held, outcome, attempt, webhooks, version>>

\* INCR of the project's cache version with the pool's context: it does not
\* happen when the pool is stopping or Redis fails, and nothing retries it.
InvalidateCache(w) ==
  /\ WorkerStep(w, "invalidate", "poll")
  /\ \/ ~Cancelled /\ version' = [version EXCEPT ![ProjectOf[held[w]]] = @ + 1]
     \/ UNCHANGED version
  /\ held' = [held EXCEPT ![w] = NoJob]
  /\ outcome' = [outcome EXCEPT ![w] = "none"]
  /\ attempt' = [attempt EXCEPT ![w] = 0]
  /\ UNCHANGED <<ch, jobs, webhooks>>

-----------------------------------------------------------------------------
(* main(): a signal cancels the pool, Stop waits for every worker, then     *)
(* the HTTP server is shut down and the process ends.                       *)

MainStep(from, to) ==
  /\ main = from
  /\ main' = to
  /\ UNCHANGED <<ch, jobs, handler, reply, wpc, held, outcome, attempt, webhooks, version>>

Signal == MainStep("serving", "stopping")

\* Faulty variant: Stop does not wait for the workers.
PoolAbandoned == MainStep("stopping", "closing")

PoolStopped ==
  /\ \A w \in Worker : wpc[w] = "stopped"
  /\ MainStep("stopping", "closing")

Exit == MainStep("closing", "exited")

-----------------------------------------------------------------------------
Handler(j) ==
  PostTrack(j) \/ PostSend(j) \/ PostRefuse(j) \/ PostRevert(j) \/ PostReply(j)

\* The steps of a worker outside its call of the agent.
Local(w) ==
  \/ CheckContext(w) \/ DequeueJob(w) \/ DequeueEmpty(w)
  \/ MarkProcessing(w)
  \/ SendWebhook(w) \/ Backoff(w) \/ InvalidateCache(w)

Call(w) == MarkReady(w) \/ MarkError(w)

Next ==
  /\ main # "exited"
  /\ \/ \E j \in Job : Handler(j)
     \/ \E w \in Worker : Local(w) \/ Call(w)
     \/ Signal \/ PoolStopped \/ Exit

\* Goroutines are scheduled, timers fire, and the agent call has a deadline, so
\* every worker keeps moving; whether a signal ever comes is left open.
Fairness ==
  /\ \A w \in Worker : WF_vars(main # "exited" /\ (Local(w) \/ Call(w)))
  /\ \A j \in Job : WF_vars(main # "exited" /\ (PostSend(j) \/ PostRefuse(j) \/ PostRevert(j) \/ PostReply(j)))
  /\ WF_vars(PoolStopped)

Spec == Init /\ [][Next]_vars /\ Fairness
-----------------------------------------------------------------------------
(* Safety.                                                                  *)

\* A job is in the hands of one party: at most one slot of the channel or one
\* worker, never both, whatever the interleaving of handlers and workers.  No
\* document is therefore processed twice on account of one request.
OwnedOnce ==
  /\ \A i, k \in 1..Len(ch) : ch[i] = ch[k] => i = k
  /\ \A v, w \in Worker : held[v] # NoJob /\ held[v] = held[w] => v = w
  /\ \A w \in Worker : held[w] # NoJob => ~InChannel(held[w])

\* UpdateStatus never answers ErrJobNotFound: whatever waits in the channel or
\* is held by a worker is in the map.  This is what inserting into the map
\* before sending on the channel is for.
OwnedIsTracked ==
  \A j \in Job : InChannel(j) \/ (\E w \in Worker : held[w] = j) => Tracked(j)

\* A job answered with 202 is never lost while the process lives: it waits in
\* the channel or in a worker's hands, is being processed by a worker, or has
\* an outcome; its status says which.
NothingLost ==
  \A j \in Job : handler[j] \in {"queued", "replied"} =>
    \/ jobs[j] = "pending" /\ (InChannel(j) \/ \E w \in Worker : held[w] = j /\ wpc[w] = "claimed")
    \/ jobs[j] = "processing" /\ \E w \in Worker : held[w] = j /\ wpc[w] = "calling"
    \/ jobs[j] \in Terminal

\* A request answered 503 (queue full) leaves nothing behind: no map entry that
\* would leak, and no worker that runs the document anyway.
RejectedLeavesNoTrace ==
  \A j \in Job : handler[j] = "rejected" =>
    ~Tracked(j) /\ ~InChannel(j) /\ \A w \in Worker : held[w] # j

\* The BFF is only ever told what a status lookup of the same job would say at
\* that time and from then on, retries and lost answers included.
NotificationsAgree == \A n \in webhooks : jobs[n.job] = n.status

\* Once Stop has returned, no job is left "processing" for ever: what has no
\* outcome is still waiting in the channel.
StopLeavesOnlyWaiting ==
  main \in {"closing", "exited"} =>
    \A j \in Job : handler[j] \in {"queued", "replied"} => jobs[j] \in Terminal \/ InChannel(j)

-----------------------------------------------------------------------------
(* The inductive invariant behind the safety properties: how the map, the   *)
(* channel, the handlers and the workers' program counters agree.           *)

HandlerAgrees ==
  \A j \in Job :
    /\ handler[j] \in {"new", "rejected"} => jobs[j] = "absent"
    /\ handler[j] \in {"tracked", "refused"} => jobs[j] = "pending"
    /\ handler[j] \notin {"queued", "replied"} => ~InChannel(j) /\ \A w \in Worker : held[w] # j

WorkerAgrees ==
  \A w \in Worker :
    /\ wpc[w] \in Idle => held[w] = NoJob
    /\ wpc[w] \notin Idle => held[w] \in Job
    /\ wpc[w] = "claimed" => jobs[held[w]] = "pending"
    /\ wpc[w] = "calling" => jobs[held[w]] = "processing"
    /\ wpc[w] \in Finishing => outcome[w] \in Terminal /\ jobs[held[w]] = outcome[w]
    /\ wpc[w] \in Idle \cup {"claimed", "calling"} => attempt[w] = 0
    /\ wpc[w] = "notify" => attempt[w] < MaxAttempts

ChannelIsPending == \A j \in Job : InChannel(j) => jobs[j] = "pending"

StoppedAfterStop == main \in {"closing", "exited"} => \A w \in Worker : wpc[w] = "stopped"

\* Inductive: each part alone is not, since what a worker may write depends on
\* who else could hold its job, and what a notification says on what may still
\* be written.
IInv ==
  /\ TypeOK
  /\ OwnedOnce
  /\ HandlerAgrees
  /\ WorkerAgrees
  /\ ChannelIsPending
  /\ NothingLost
  /\ NotificationsAgree
  /\ StoppedAfterStop

-----------------------------------------------------------------------------
(* The pool implements the job life cycle: a job becomes visible when its   *)
(* send succeeds, and runs on the worker that calls the agent for it.       *)

\* What GET /documents/jobs/:id shows of a job whose id a client can know.
VisibleStatus == [j \in Job |->
  IF handler[j] \in {"queued", "replied"} THEN jobs[j] ELSE "none"]

Running == [w \in Worker |-> IF wpc[w] = "calling" THEN held[w] ELSE NoJob]

Lifecycle == INSTANCE JobLifecycle WITH
  Executor <- Worker, status <- VisibleStatus, running <- Running

\* Statuses only move forward, one worker runs a job, and runs it once.
ImplementsLifecycle == Lifecycle!Spec

-----------------------------------------------------------------------------
(* Liveness.                                                                *)

\* While no shutdown begins, an accepted job gets an outcome: workers that
\* retry webhooks or find Redis down do not starve the queue.
AcceptedGetsOutcome ==
  \A j \in Job : handler[j] = "queued" ~> jobs[j] \in Terminal \/ Cancelled

\* Stop returns although handlers keep submitting: every worker leaves its loop
\* after at most the job it has in hand.
StopReturns == main = "stopping" ~> main = "closing"

\* The steps a worker has left at most with the job it holds.
WorkLeft(w) ==
  CASE wpc[w] \in Idle      -> 0
    [] wpc[w] = "invalidate" -> 1
    [] wpc[w] = "notify"     -> 2 * (MaxAttempts - attempt[w]) + 1
    [] wpc[w] = "backoff"    -> 2 * (MaxAttempts - attempt[w]) + 2
    [] wpc[w] = "calling"    -> 2 * MaxAttempts + 2
    [] wpc[w] = "claimed"    -> 2 * MaxAttempts + 3

\* Why: a worker's job takes a bounded number of steps, failing webhooks and a
\* failing Redis included, and each job taken moves all others up by one place,
\* which nothing else takes from them.
PoolAdvances ==
  [][/\ \A w \in Worker : wpc[w] \notin Idle =>
          IF Local(w) \/ Call(w) THEN WorkLeft(w)' < WorkLeft(w) ELSE WorkLeft(w)' = WorkLeft(w)
     /\ \A i \in 1..Len(ch) :
          IF \E w \in Worker : DequeueJob(w) THEN i > 1 => ch'[i - 1] = ch[i] ELSE ch'[i] = ch[i]]_vars

-----------------------------------------------------------------------------
(* Claims of the documentation that the code does not keep.                 *)

\* GUIA_INTEGRACAO_BFF: the request is answered at once with status "pending".
\* The handler reads the status after the job was handed to the workers.
ReplyIsPending == \A j \in Job : handler[j] = "replied" => reply[j] = "pending"

\* The X-Idempotency-Key header of a notification.
IdempotencyKey(n) == DocumentOf[n.job]

\* SendWebhook's comment: the key is based on the job id, so that notifications
\* of different jobs are never taken for duplicates of one another.
KeyIdentifiesJob ==
  \A m, n \in webhooks : IdempotencyKey(m) = IdempotencyKey(n) => m.job = n.job
=============================================================================
