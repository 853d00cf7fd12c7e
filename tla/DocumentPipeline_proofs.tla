----------------------- MODULE DocumentPipeline_proofs -----------------------
(***************************************************************************)
(* Proofs that the safety properties of WorkerPool hold for every number of *)
(* jobs and workers and every channel capacity, and that it implements      *)
(* JobLifecycle; then that the composed pipeline keeps everything the pool  *)
(* guarantees, tells the BFF "ready" only about searchable documents, and   *)
(* drives the chat cache as ChatCache assumes, for any number of documents. *)
(***************************************************************************)
EXTENDS DocumentPipeline, TLAPS

USE CapacityAssumption, PoolAssumption

-----------------------------------------------------------------------------
(* The channel as a set of waiting jobs.                                    *)

\* A send adds exactly the job sent, at the end.
LEMMA SendAdds ==
  ASSUME ch \in Seq(Job), NEW j \in Job, Send(j)
  PROVE  /\ ch' \in Seq(Job)
         /\ \A k \in Job : InChannel(k)' <=> InChannel(k) \/ k = j
         /\ Len(ch') = Len(ch) + 1
         /\ ch'[Len(ch) + 1] = j
         /\ \A i \in 1..Len(ch) : ch'[i] = ch[i]
         /\ (~InChannel(j) /\ \A i, k \in 1..Len(ch) : ch[i] = ch[k] => i = k)
              => \A i, k \in 1..Len(ch') : ch'[i] = ch'[k] => i = k
<1>1. ch' = Append(ch, j)
  BY DEF Send
<1>2. /\ ch' \in Seq(Job)
      /\ Len(ch') = Len(ch) + 1
      /\ ch'[Len(ch) + 1] = j
      /\ \A i \in 1..Len(ch) : ch'[i] = ch[i]
  BY <1>1
<1>3. \A k \in Job : InChannel(k)' <=> InChannel(k) \/ k = j
  BY <1>2 DEF InChannel
<1>4. ASSUME ~InChannel(j), \A i, k \in 1..Len(ch) : ch[i] = ch[k] => i = k,
             NEW i \in 1..Len(ch'), NEW k \in 1..Len(ch'), ch'[i] = ch'[k]
      PROVE  i = k
  BY <1>2, <1>4 DEF InChannel
<1>5. QED
  BY <1>2, <1>3, <1>4

\* A receive takes the oldest job and shifts the others; when no job is in the
\* channel twice, exactly that job leaves it.
LEMMA ReceiveRemoves ==
  ASSUME ch \in Seq(Job), NEW j \in Job, Receive(j),
         \A i, k \in 1..Len(ch) : ch[i] = ch[k] => i = k
  PROVE  /\ ch' \in Seq(Job)
         /\ InChannel(j)
         /\ \A k \in Job : InChannel(k)' <=> InChannel(k) /\ k # j
         /\ \A i, k \in 1..Len(ch') : ch'[i] = ch'[k] => i = k
<1>1. /\ ch # <<>>
      /\ j = ch[1]
      /\ ch' = Tail(ch)
  BY DEF Receive
<1>2. /\ ch' \in Seq(Job)
      /\ Len(ch) \in Nat \ {0}
      /\ Len(ch') = Len(ch) - 1
      /\ \A i \in 1..Len(ch') : ch'[i] = ch[i + 1]
  BY <1>1
<1>3. InChannel(j)
  BY <1>1, <1>2 DEF InChannel
<1>4. ASSUME NEW k \in Job
      PROVE  InChannel(k)' <=> InChannel(k) /\ k # j
  <2>1. ASSUME InChannel(k)'
        PROVE  InChannel(k) /\ k # j
    <3>1. PICK i \in 1..Len(ch') : ch'[i] = k
      BY <2>1 DEF InChannel
    <3>2. i + 1 \in 1..Len(ch) /\ ch[i + 1] = k /\ 1 \in 1..Len(ch) /\ i + 1 # 1
      BY <1>2, <3>1
    <3>3. QED
      BY <1>1, <3>2 DEF InChannel
  <2>2. ASSUME InChannel(k), k # j
        PROVE  InChannel(k)'
    <3>1. PICK i \in 1..Len(ch) : ch[i] = k
      BY <2>2 DEF InChannel
    <3>2. i - 1 \in 1..Len(ch') /\ ch'[i - 1] = k
      BY <1>1, <1>2, <2>2, <3>1
    <3>3. QED
      BY <3>2 DEF InChannel
  <2>3. QED
    BY <2>1, <2>2
<1>5. ASSUME NEW i \in 1..Len(ch'), NEW k \in 1..Len(ch'), ch'[i] = ch'[k]
      PROVE  i = k
  <2>1. i + 1 \in 1..Len(ch) /\ k + 1 \in 1..Len(ch) /\ ch[i + 1] = ch[k + 1]
    BY <1>2, <1>5
  <2>2. i + 1 = k + 1
    BY <2>1
  <2>3. QED
    BY <2>2
<1>6. QED
  BY <1>2, <1>3, <1>4, <1>5

-----------------------------------------------------------------------------
(* The steps, one case each, for the proofs that go through all of them.    *)

LEMMA StepCases ==
  ASSUME Next
  PROVE  \/ \E j \in Job : \/ PostTrack(j) \/ PostSend(j) \/ PostRefuse(j)
                           \/ PostRevert(j) \/ PostReply(j)
         \/ \E w \in Worker : \/ CheckContext(w) \/ DequeueJob(w) \/ DequeueEmpty(w)
                              \/ MarkProcessing(w) \/ \E s \in Terminal : Record(w, s)
                              \/ SendWebhook(w) \/ Backoff(w) \/ InvalidateCache(w)
         \/ Signal \/ PoolStopped \/ Exit
BY DEF Next, Handler, Local, Call, MarkReady, MarkError, Terminal

LEMMA TypeStep ==
  ASSUME TypeOK, WorkerAgrees, [Next]_vars
  PROVE  TypeOK'
<1> USE DEF TypeOK, QueueTypeOK
<1>1. ASSUME NEW j \in Job, PostTrack(j) PROVE TypeOK'
  BY <1>1 DEF PostTrack, HandlerStep, Track, HandlerState, Status
<1>2. ASSUME NEW j \in Job, PostSend(j) PROVE TypeOK'
  BY <1>2, SendAdds DEF PostSend, HandlerStep, HandlerState
<1>3. ASSUME NEW j \in Job, PostRefuse(j) PROVE TypeOK'
  BY <1>3 DEF PostRefuse, HandlerStep, HandlerState
<1>4. ASSUME NEW j \in Job, PostRevert(j) PROVE TypeOK'
  BY <1>4 DEF PostRevert, HandlerStep, Untrack, HandlerState
<1>5. ASSUME NEW j \in Job, PostReply(j) PROVE TypeOK'
  BY <1>5 DEF PostReply, HandlerStep, HandlerState
<1>6. ASSUME NEW w \in Worker, CheckContext(w) PROVE TypeOK'
  BY <1>6 DEF CheckContext, WorkerStep, WorkerState, Idle
<1>7. ASSUME NEW w \in Worker, DequeueJob(w) PROVE TypeOK'
  BY <1>7 DEF DequeueJob, Receive, WorkerStep, WorkerState
<1>8. ASSUME NEW w \in Worker, DequeueEmpty(w) PROVE TypeOK'
  BY <1>8 DEF DequeueEmpty, WorkerStep, WorkerState, Idle
<1>9. ASSUME NEW w \in Worker, MarkProcessing(w) PROVE TypeOK'
  BY <1>9 DEF MarkProcessing, UpdateStatus, WorkerStep, WorkerState, Idle, Status
<1>10. ASSUME NEW w \in Worker, NEW s \in Terminal, Record(w, s) PROVE TypeOK'
  BY <1>10 DEF Record, UpdateStatus, WorkerStep, WorkerState, Finishing, Status
<1>11. ASSUME NEW w \in Worker, SendWebhook(w) PROVE TypeOK'
  <2> wpc[w] = "notify"
    BY <1>11 DEF SendWebhook, WorkerStep
  <2>1. /\ held[w] \in Job
        /\ outcome[w] \in Terminal
        /\ attempt[w] + 1 \in 0..MaxAttempts
    <3>1. held[w] \in Job
      BY DEF WorkerAgrees, Idle
    <3>2. outcome[w] \in Terminal /\ attempt[w] < MaxAttempts
      BY DEF WorkerAgrees, Finishing
    <3>3. QED
      BY <3>1, <3>2
  <2>2. webhooks' \subseteq [job : Job, status : Terminal]
    BY <1>11, <2>1 DEF SendWebhook
  <2>3. wpc' \in [Worker -> WorkerState] /\ attempt' \in [Worker -> 0..MaxAttempts]
    BY <1>11, <2>1 DEF SendWebhook, WorkerStep, WorkerState, Finishing
  <2>4. QED
    BY <1>11, <2>2, <2>3 DEF SendWebhook, WorkerStep
<1>12. ASSUME NEW w \in Worker, Backoff(w) PROVE TypeOK'
  BY <1>12 DEF Backoff, WorkerStep, WorkerState, Finishing
<1>13. ASSUME NEW w \in Worker, InvalidateCache(w) PROVE TypeOK'
  BY <1>13 DEF InvalidateCache, WorkerStep, WorkerState, Idle
<1>14. ASSUME Signal \/ PoolStopped \/ Exit PROVE TypeOK'
  BY <1>14 DEF Signal, PoolStopped, Exit, MainStep
<1>15. CASE UNCHANGED vars
  BY <1>15 DEF vars
<1>16. QED
  BY <1>1, <1>2, <1>3, <1>4, <1>5, <1>6, <1>7, <1>8, <1>9, <1>10, <1>11, <1>12,
     <1>13, <1>14, <1>15, StepCases
-----------------------------------------------------------------------------
(* The inductive invariant.  The handlers' steps first.                     *)

LEMMA HandlerPreserves ==
  ASSUME IInv, NEW j \in Job,
         PostTrack(j) \/ PostSend(j) \/ PostRefuse(j) \/ PostRevert(j) \/ PostReply(j)
  PROVE  /\ OwnedOnce' /\ HandlerAgrees' /\ WorkerAgrees' /\ ChannelIsPending'
         /\ NothingLost' /\ NotificationsAgree' /\ StoppedAfterStop'
<1> USE DEF IInv, TypeOK, QueueTypeOK
<1> UNCHANGED <<wpc, held, outcome, attempt, webhooks, version, main>>
  BY DEF PostTrack, PostSend, PostRefuse, PostRevert, PostReply, HandlerStep
<1>s. StoppedAfterStop'
  BY DEF StoppedAfterStop
<1>1. CASE PostTrack(j)
  <2>1. /\ handler[j] = "new" /\ handler' = [handler EXCEPT ![j] = "tracked"]
        /\ jobs' = [jobs EXCEPT ![j] = "pending"]
        /\ UNCHANGED ch
    BY <1>1 DEF PostTrack, HandlerStep, Track
  <2>2. /\ jobs[j] = "absent"
        /\ ~InChannel(j)
        /\ \A w \in Worker : held[w] # j
    BY <2>1 DEF HandlerAgrees
  <2>3. \A k \in Job : InChannel(k)' <=> InChannel(k)
    BY <2>1 DEF InChannel
  <2>4. OwnedOnce'
    BY <2>1, <2>3 DEF OwnedOnce
  <2>5. HandlerAgrees'
    BY <2>1, <2>2, <2>3 DEF HandlerAgrees
  <2>6. WorkerAgrees'
    BY <2>1, <2>2 DEF WorkerAgrees
  <2>7. ChannelIsPending'
    BY <2>1, <2>3 DEF ChannelIsPending
  <2>8. NothingLost'
    BY <2>1, <2>3 DEF NothingLost
  <2>9. NotificationsAgree'
    BY <2>1, <2>2 DEF NotificationsAgree, Terminal
  <2>10. QED
    BY <1>s, <2>4, <2>5, <2>6, <2>7, <2>8, <2>9
<1>2. CASE PostSend(j)
  <2>1. /\ handler[j] = "tracked" /\ handler' = [handler EXCEPT ![j] = "queued"]
        /\ UNCHANGED jobs
        /\ Send(j)
    BY <1>2 DEF PostSend, HandlerStep
  <2>2. /\ jobs[j] = "pending"
        /\ ~InChannel(j)
        /\ \A w \in Worker : held[w] # j
    BY <2>1 DEF HandlerAgrees
  <2>3. /\ \A k \in Job : InChannel(k)' <=> InChannel(k) \/ k = j
        /\ Len(ch') = Len(ch) + 1
        /\ ch'[Len(ch) + 1] = j
        /\ \A i \in 1..Len(ch) : ch'[i] = ch[i]
    BY <2>1, SendAdds
  <2>4. OwnedOnce'
    <3>1. \A i, k \in 1..Len(ch') : ch'[i] = ch'[k] => i = k
      BY <2>1, <2>2, SendAdds DEF OwnedOnce
    <3>2. \A w \in Worker : held[w] # NoJob => ~InChannel(held[w])'
      BY <2>2, <2>3 DEF OwnedOnce
    <3>3. QED
      BY <3>1, <3>2 DEF OwnedOnce
  <2>5. HandlerAgrees'
    BY <2>1, <2>2, <2>3 DEF HandlerAgrees
  <2>6. WorkerAgrees'
    BY <2>1 DEF WorkerAgrees
  <2>7. ChannelIsPending'
    BY <2>1, <2>2, <2>3 DEF ChannelIsPending
  <2>8. NothingLost'
    BY <2>1, <2>2, <2>3 DEF NothingLost
  <2>9. NotificationsAgree'
    BY <2>1 DEF NotificationsAgree
  <2>10. QED
    BY <1>s, <2>4, <2>5, <2>6, <2>7, <2>8, <2>9
<1>3. CASE PostRevert(j)
  <2>1. /\ handler[j] = "refused" /\ handler' = [handler EXCEPT ![j] = "rejected"]
        /\ jobs' = [jobs EXCEPT ![j] = "absent"]
        /\ UNCHANGED ch
    BY <1>3 DEF PostRevert, HandlerStep, Untrack
  <2>2. /\ jobs[j] = "pending"
        /\ ~InChannel(j)
        /\ \A w \in Worker : held[w] # j
    BY <2>1 DEF HandlerAgrees
  <2>3. \A k \in Job : InChannel(k)' <=> InChannel(k)
    BY <2>1 DEF InChannel
  <2>4. OwnedOnce'
    BY <2>1, <2>3 DEF OwnedOnce
  <2>5. HandlerAgrees'
    BY <2>1, <2>2, <2>3 DEF HandlerAgrees
  <2>6. WorkerAgrees'
    BY <2>1, <2>2 DEF WorkerAgrees
  <2>7. ChannelIsPending'
    BY <2>1, <2>2, <2>3 DEF ChannelIsPending
  <2>8. NothingLost'
    BY <2>1, <2>3 DEF NothingLost
  <2>9. NotificationsAgree'
    BY <2>1, <2>2 DEF NotificationsAgree, Terminal
  <2>10. QED
    BY <1>s, <2>4, <2>5, <2>6, <2>7, <2>8, <2>9
<1>4. CASE PostRefuse(j) \/ PostReply(j)
  <2>1. /\ UNCHANGED <<ch, jobs>>
        /\ \/ handler[j] = "tracked" /\ handler' = [handler EXCEPT ![j] = "refused"]
           \/ handler[j] = "queued" /\ handler' = [handler EXCEPT ![j] = "replied"]
    BY <1>4 DEF PostRefuse, PostReply, HandlerStep
  <2>2. \A k \in Job : InChannel(k)' <=> InChannel(k)
    BY <2>1 DEF InChannel
  <2>3. OwnedOnce' /\ WorkerAgrees' /\ ChannelIsPending' /\ NotificationsAgree'
    BY <2>1, <2>2 DEF OwnedOnce, WorkerAgrees, ChannelIsPending, NotificationsAgree
  <2>4. HandlerAgrees'
    <3>1. CASE handler[j] = "tracked" /\ handler' = [handler EXCEPT ![j] = "refused"]
      BY <2>1, <2>2, <3>1 DEF HandlerAgrees
    <3>2. CASE handler[j] = "queued" /\ handler' = [handler EXCEPT ![j] = "replied"]
      BY <2>1, <2>2, <3>2 DEF HandlerAgrees
    <3>3. QED
      BY <2>1, <3>1, <3>2
  <2>5. NothingLost'
    BY <2>1, <2>2 DEF NothingLost
  <2>6. QED
    BY <1>s, <2>3, <2>4, <2>5
<1>5. QED
  BY <1>1, <1>2, <1>3, <1>4
-----------------------------------------------------------------------------
(* The workers' steps.                                                      *)

\* Taking a job from the channel makes this worker its only owner.
LEMMA DequeuePreserves ==
  ASSUME IInv, NEW w \in Worker, DequeueJob(w)
  PROVE  /\ OwnedOnce' /\ HandlerAgrees' /\ WorkerAgrees' /\ ChannelIsPending'
         /\ NothingLost' /\ NotificationsAgree' /\ StoppedAfterStop'
<1> USE DEF IInv, TypeOK, QueueTypeOK
<1>1. PICK j \in Job : Receive(j) /\ held' = [held EXCEPT ![w] = j]
  BY DEF DequeueJob
<1>2. /\ wpc[w] = "dequeue" /\ wpc' = [wpc EXCEPT ![w] = "claimed"]
      /\ UNCHANGED <<jobs, handler, reply, main, outcome, attempt, webhooks, version>>
  BY DEF DequeueJob, WorkerStep
<1>3. /\ InChannel(j)
      /\ \A k \in Job : InChannel(k)' <=> InChannel(k) /\ k # j
      /\ \A i, k \in 1..Len(ch') : ch'[i] = ch'[k] => i = k
  BY <1>1, ReceiveRemoves DEF OwnedOnce
<1>4. held[w] = NoJob /\ \A v \in Worker : held[v] # j
  <2>1. held[w] = NoJob
    BY <1>2 DEF WorkerAgrees, Idle
  <2>2. \A v \in Worker : held[v] # j
    BY <1>3 DEF OwnedOnce
  <2>3. QED
    BY <2>1, <2>2
<1>5. jobs[j] = "pending" /\ handler[j] \in {"queued", "replied"}
  BY <1>3 DEF ChannelIsPending, HandlerAgrees
<1>6. OwnedOnce'
  BY <1>1, <1>3, <1>4 DEF OwnedOnce
<1>7. HandlerAgrees'
  BY <1>1, <1>2, <1>3, <1>5 DEF HandlerAgrees
<1>8. WorkerAgrees'
  BY <1>1, <1>2, <1>5 DEF WorkerAgrees, Idle, Finishing
<1>9. ChannelIsPending'
  BY <1>2, <1>3 DEF ChannelIsPending
<1>10. NothingLost'
  <2>1. ASSUME NEW k \in Job, handler[k] \in {"queued", "replied"}, jobs[k] = "pending"
        PROVE  InChannel(k)' \/ \E v \in Worker : held'[v] = k /\ wpc'[v] = "claimed"
    <3>1. CASE k = j
      BY <1>1, <1>2, <3>1
    <3>2. CASE k # j
      <4>1. CASE InChannel(k)
        BY <1>3, <3>2, <4>1
      <4>2. CASE ~InChannel(k)
        <5>1. PICK v \in Worker : held[v] = k /\ wpc[v] = "claimed"
          BY <2>1, <4>2 DEF NothingLost, Terminal
        <5>2. v # w
          BY <1>2, <5>1
        <5>3. held'[v] = k /\ wpc'[v] = "claimed"
          BY <1>1, <1>2, <5>1, <5>2
        <5>4. QED
          BY <5>3
      <4>3. QED
        BY <4>1, <4>2
    <3>3. QED
      BY <3>1, <3>2
  <2>2. ASSUME NEW k \in Job, handler[k] \in {"queued", "replied"}, jobs[k] = "processing"
        PROVE  \E v \in Worker : held'[v] = k /\ wpc'[v] = "calling"
    <3>1. PICK v \in Worker : held[v] = k /\ wpc[v] = "calling"
      BY <2>2 DEF NothingLost, Terminal
    <3>2. v # w
      BY <1>2, <3>1
    <3>3. held'[v] = k /\ wpc'[v] = "calling"
      BY <1>1, <1>2, <3>1, <3>2
    <3>4. QED
      BY <3>3
  <2>3. QED
    BY <1>2, <2>1, <2>2 DEF NothingLost
<1>11. NotificationsAgree'
  BY <1>2 DEF NotificationsAgree
<1>12. StoppedAfterStop'
  BY <1>2 DEF StoppedAfterStop
<1>13. QED
  BY <1>6, <1>7, <1>8, <1>9, <1>10, <1>11, <1>12

\* Writing the status of the job in hand touches nobody else's job.
LEMMA StatusPreserves ==
  ASSUME IInv, NEW w \in Worker,
         MarkProcessing(w) \/ \E s \in Terminal : Record(w, s)
  PROVE  /\ OwnedOnce' /\ HandlerAgrees' /\ WorkerAgrees' /\ ChannelIsPending'
         /\ NothingLost' /\ NotificationsAgree' /\ StoppedAfterStop'
<1> USE DEF IInv, TypeOK, QueueTypeOK
<1> DEFINE j == held[w]
<1> DEFINE Written(s) ==
        /\ jobs' = [jobs EXCEPT ![j] = s]
        /\ UNCHANGED <<ch, handler, reply, main, held, attempt, webhooks, version>>
        /\ \/ /\ s = "processing" /\ wpc[w] = "claimed" /\ UNCHANGED outcome
              /\ wpc' = [wpc EXCEPT ![w] = "calling"]
           \/ /\ s \in Terminal /\ wpc[w] = "calling"
              /\ outcome' = [outcome EXCEPT ![w] = s]
              /\ wpc' = [wpc EXCEPT ![w] = IF WebhookEnabled THEN "notify" ELSE "invalidate"]
<1>1. PICK s \in Terminal \cup {"processing"} : Written(s)
  <2>1. CASE MarkProcessing(w)
    <3>1. jobs[j] = "pending"
      BY <2>1 DEF MarkProcessing, WorkerStep, WorkerAgrees
    <3>2. held' = held
      BY <2>1, <3>1 DEF MarkProcessing, Tracked
    <3>3. QED
      BY <2>1, <3>1, <3>2 DEF MarkProcessing, WorkerStep, UpdateStatus, Tracked
  <2>2. ASSUME NEW s \in Terminal, Record(w, s)
        PROVE  Written(s)
    <3>1. jobs[j] = "processing"
      BY <2>2 DEF Record, WorkerStep, WorkerAgrees
    <3>2. QED
      BY <2>2, <3>1 DEF Record, WorkerStep, UpdateStatus, Tracked
  <2>3. QED
    BY <2>1, <2>2
<1>2. /\ j \in Job /\ j # NoJob
      /\ jobs[j] \in {"pending", "processing"}
      /\ ~InChannel(j)
      /\ handler[j] \in {"queued", "replied"}
      /\ \A v \in Worker : held[v] = j => v = w
  <2>1. j \in Job
    BY <1>1 DEF WorkerAgrees, Idle
  <2>2. jobs[j] \in {"pending", "processing"}
    BY <1>1 DEF WorkerAgrees
  <2>3. ~InChannel(j) /\ \A v \in Worker : held[v] = j => v = w
    BY <2>1 DEF OwnedOnce
  <2>4. QED
    BY <2>1, <2>2, <2>3 DEF HandlerAgrees
<1>3. \A k \in Job : InChannel(k)' <=> InChannel(k)
  BY <1>1 DEF InChannel
<1>4. OwnedOnce'
  BY <1>1, <1>3 DEF OwnedOnce
<1>5. HandlerAgrees'
  BY <1>1, <1>2, <1>3 DEF HandlerAgrees
<1>6. WorkerAgrees'
  BY <1>1, <1>2 DEF WorkerAgrees, Idle, Finishing
<1>7. ChannelIsPending'
  BY <1>1, <1>2, <1>3 DEF ChannelIsPending
<1>8. NothingLost'
  BY <1>1, <1>2, <1>3 DEF NothingLost
<1>9. NotificationsAgree'
  <2>1. ASSUME NEW n \in webhooks
        PROVE  jobs'[n.job] = n.status
    <3>1. n.status \in Terminal /\ jobs[n.job] = n.status
      BY DEF NotificationsAgree
    <3>2. n.job # j
      BY <1>2, <3>1 DEF Terminal
    <3>3. QED
      BY <1>1, <3>1, <3>2
  <2>2. QED
    BY <1>1, <2>1 DEF NotificationsAgree
<1>10. StoppedAfterStop'
  BY <1>1 DEF StoppedAfterStop
<1>11. QED
  BY <1>4, <1>5, <1>6, <1>7, <1>8, <1>9, <1>10

\* The steps of a worker that touch neither the map nor the channel.
LEMMA OtherWorkerPreserves ==
  ASSUME IInv, NEW w \in Worker,
         \/ CheckContext(w) \/ DequeueEmpty(w)
         \/ SendWebhook(w) \/ Backoff(w) \/ InvalidateCache(w)
  PROVE  /\ OwnedOnce' /\ HandlerAgrees' /\ WorkerAgrees' /\ ChannelIsPending'
         /\ NothingLost' /\ NotificationsAgree' /\ StoppedAfterStop'
<1> USE DEF IInv, TypeOK, QueueTypeOK
<1>1. UNCHANGED <<ch, jobs, handler, main>>
  BY DEF CheckContext, DequeueEmpty, SendWebhook, Backoff, InvalidateCache, WorkerStep
<1>2. \A k \in Job : InChannel(k)' <=> InChannel(k)
  BY <1>1 DEF InChannel
<1>3. PICK next \in WorkerState \ {"claimed", "calling"} : wpc' = [wpc EXCEPT ![w] = next]
  BY DEF CheckContext, DequeueEmpty, SendWebhook, Backoff, InvalidateCache, WorkerStep,
         WorkerState, Idle, Finishing
<1>4. wpc[w] \in {"poll", "dequeue", "notify", "backoff", "invalidate"}
  BY DEF CheckContext, DequeueEmpty, SendWebhook, Backoff, InvalidateCache, WorkerStep
<1>5. held' = held \/ (wpc[w] = "invalidate" /\ held' = [held EXCEPT ![w] = NoJob])
  BY DEF CheckContext, DequeueEmpty, SendWebhook, Backoff, InvalidateCache, WorkerStep
<1>6. OwnedOnce'
  <2>1. \A v \in Worker : held'[v] = held[v] \/ held'[v] = NoJob
    BY <1>5
  <2>2. \A i, k \in 1..Len(ch') : ch'[i] = ch'[k] => i = k
    BY <1>1 DEF OwnedOnce
  <2>3. \A v, u \in Worker : held'[v] # NoJob /\ held'[v] = held'[u] => v = u
    BY <2>1 DEF OwnedOnce
  <2>4. \A v \in Worker : held[v] # NoJob => \A i \in 1..Len(ch) : ch[i] # held[v]
    BY DEF OwnedOnce, InChannel
  <2>5. \A v \in Worker : held'[v] # NoJob => \A i \in 1..Len(ch') : ch'[i] # held'[v]
    BY <1>1, <2>1, <2>4
  <2>6. \A v \in Worker : held'[v] # NoJob => ~InChannel(held[v])'
    BY <2>5 DEF InChannel
  <2> QED BY <2>2, <2>3, <2>6 DEF OwnedOnce
<1>7. HandlerAgrees'
  BY <1>1, <1>2, <1>5 DEF HandlerAgrees
<1>8. WorkerAgrees'
  <2>1. CASE CheckContext(w)
    BY <1>1, <2>1 DEF CheckContext, WorkerStep, WorkerAgrees, Idle, Finishing
  <2>2. CASE DequeueEmpty(w)
    BY <1>1, <2>2 DEF DequeueEmpty, WorkerStep, WorkerAgrees, Idle, Finishing
  <2>3. CASE SendWebhook(w)
    BY <1>1, <2>3 DEF SendWebhook, WorkerStep, WorkerAgrees, Idle, Finishing
  <2>4. CASE Backoff(w)
    BY <1>1, <2>4 DEF Backoff, WorkerStep, WorkerAgrees, Idle, Finishing
  <2>5. CASE InvalidateCache(w)
    BY <1>1, <2>5 DEF InvalidateCache, WorkerStep, WorkerAgrees, Idle, Finishing
  <2>6. QED
    BY <2>1, <2>2, <2>3, <2>4, <2>5
<1>9. ChannelIsPending'
  BY <1>1, <1>2 DEF ChannelIsPending
<1>10. NothingLost'
  <2>1. ASSUME NEW v \in Worker, wpc[v] \in {"claimed", "calling"}
        PROVE  held'[v] = held[v] /\ wpc'[v] = wpc[v]
    BY <1>3, <1>4, <1>5, <2>1
  <2>2. ASSUME NEW k \in Job, handler[k] \in {"queued", "replied"}
        PROVE  \/ jobs[k] = "pending"
                  /\ (InChannel(k) \/ \E v \in Worker : held'[v] = k /\ wpc'[v] = "claimed")
               \/ jobs[k] = "processing" /\ \E v \in Worker : held'[v] = k /\ wpc'[v] = "calling"
               \/ jobs[k] \in Terminal
    <3>1. CASE jobs[k] = "pending" /\ InChannel(k)
      BY <3>1
    <3>2. CASE jobs[k] = "pending" /\ \E v \in Worker : held[v] = k /\ wpc[v] = "claimed"
      BY <2>1, <3>2
    <3>3. CASE jobs[k] = "processing" /\ \E v \in Worker : held[v] = k /\ wpc[v] = "calling"
      BY <2>1, <3>3
    <3>4. QED
      BY <2>2, <3>1, <3>2, <3>3 DEF NothingLost
  <2>3. QED
    BY <1>1, <1>2, <2>2 DEF NothingLost
<1>11. NotificationsAgree'
  <2>1. CASE webhooks' = webhooks
    BY <1>1, <2>1 DEF NotificationsAgree
  <2>2. CASE SendWebhook(w) /\ webhooks' = webhooks \cup {[job |-> held[w], status |-> outcome[w]]}
    <3>1. jobs[held[w]] = outcome[w]
      BY <2>2 DEF SendWebhook, WorkerStep, WorkerAgrees, Finishing
    <3>2. QED
      BY <1>1, <2>2, <3>1 DEF NotificationsAgree
  <2>3. QED
    BY <2>1, <2>2 DEF CheckContext, DequeueEmpty, SendWebhook, Backoff, InvalidateCache
<1>12. StoppedAfterStop'
  BY <1>1, <1>3, <1>4 DEF StoppedAfterStop
<1>13. QED
  BY <1>6, <1>7, <1>8, <1>9, <1>10, <1>11, <1>12

-----------------------------------------------------------------------------
(* The theorems.                                                            *)

LEMMA InitIInv == Init => IInv
<1> SUFFICES ASSUME Init PROVE IInv
  OBVIOUS
<1> USE DEF Init, QueueInit
<1>1. TypeOK
  BY DEF TypeOK, QueueTypeOK, Status, HandlerState, WorkerState, Idle
<1>2. \A j \in Job : ~InChannel(j)
  <2>1. 1..Len(ch) = {}
    OBVIOUS
  <2>2. QED
    BY <2>1, Zenon DEF InChannel
<1>3. OwnedOnce
  BY <1>2 DEF OwnedOnce
<1>4. HandlerAgrees
  BY <1>2 DEF HandlerAgrees
<1>5. WorkerAgrees
  BY DEF WorkerAgrees, Idle, Finishing
<1>6. ChannelIsPending /\ NothingLost /\ NotificationsAgree /\ StoppedAfterStop
  BY <1>2 DEF ChannelIsPending, NothingLost, NotificationsAgree, StoppedAfterStop
<1>7. QED
  BY <1>1, <1>3, <1>4, <1>5, <1>6 DEF IInv

LEMMA StepIInv == IInv /\ [Next]_vars => IInv'
<1> SUFFICES ASSUME IInv, [Next]_vars PROVE IInv'
  OBVIOUS
<1>1. TypeOK'
  BY TypeStep DEF IInv
<1> DEFINE Rest == /\ OwnedOnce /\ HandlerAgrees /\ WorkerAgrees /\ ChannelIsPending
                   /\ NothingLost /\ NotificationsAgree /\ StoppedAfterStop
<1>2. ASSUME NEW j \in Job,
             PostTrack(j) \/ PostSend(j) \/ PostRefuse(j) \/ PostRevert(j) \/ PostReply(j)
      PROVE  Rest'
  BY <1>2, HandlerPreserves
<1>3. ASSUME NEW w \in Worker, DequeueJob(w)
      PROVE  Rest'
  BY <1>3, DequeuePreserves
<1>4. ASSUME NEW w \in Worker, MarkProcessing(w) \/ \E s \in Terminal : Record(w, s)
      PROVE  Rest'
  BY <1>4, StatusPreserves
<1>5. ASSUME NEW w \in Worker,
             \/ CheckContext(w) \/ DequeueEmpty(w)
             \/ SendWebhook(w) \/ Backoff(w) \/ InvalidateCache(w)
      PROVE  Rest'
  BY <1>5, OtherWorkerPreserves
<1>6. ASSUME \/ Signal \/ PoolStopped \/ Exit \/ UNCHANGED vars
      PROVE  Rest'
  <2>1. UNCHANGED <<ch, jobs, handler, wpc, held, outcome, attempt, webhooks>>
    BY <1>6 DEF Signal, PoolStopped, Exit, MainStep, vars
  <2>2. \A k \in Job : InChannel(k)' <=> InChannel(k)
    BY <2>1 DEF InChannel
  <2>3. OwnedOnce' /\ HandlerAgrees' /\ WorkerAgrees' /\ ChannelIsPending'
    BY <2>1, <2>2 DEF IInv, OwnedOnce, HandlerAgrees, WorkerAgrees, ChannelIsPending
  <2>4. NothingLost' /\ NotificationsAgree'
    BY <2>1, <2>2 DEF IInv, NothingLost, NotificationsAgree
  <2>5. StoppedAfterStop'
    BY <1>6, <2>1 DEF IInv, StoppedAfterStop, Signal, PoolStopped, Exit, MainStep, vars
  <2>6. QED
    BY <2>3, <2>4, <2>5
<1>7. Rest'
  BY <1>2, <1>3, <1>4, <1>5, <1>6, StepCases
<1>8. QED
  BY <1>1, <1>7 DEF IInv

\* The inductive invariant holds in every reachable state, for any number of
\* jobs and workers and any capacity.
THEOREM InductiveInvariant == Spec => []IInv
BY InitIInv, StepIInv, PTL DEF Spec

\* Type correctness of the whole pipeline.
THEOREM TypeCorrect == Spec => []TypeOK
<1>1. IInv => TypeOK
  BY DEF IInv
<1>2. QED
  BY <1>1, InductiveInvariant, PTL

\* One request, one owner: no two workers ever process the same job.
THEOREM SingleOwner == Spec => []OwnedOnce
<1>1. IInv => OwnedOnce
  BY DEF IInv
<1>2. QED
  BY <1>1, InductiveInvariant, PTL

\* An accepted job is never dropped, and its status tells where it is.
THEOREM AcceptedJobsSurvive == Spec => []NothingLost
<1>1. IInv => NothingLost
  BY DEF IInv
<1>2. QED
  BY <1>1, InductiveInvariant, PTL

\* Map and channel agree: UpdateStatus cannot miss, a 503 leaves no trace.
THEOREM MapCoversChannel == Spec => [](OwnedIsTracked /\ RejectedLeavesNoTrace)
<1>1. IInv => OwnedIsTracked
  <2> SUFFICES ASSUME IInv, NEW j \in Job, InChannel(j) \/ \E w \in Worker : held[w] = j
               PROVE  Tracked(j)
    BY DEF OwnedIsTracked
  <2>1. handler[j] \in {"queued", "replied"}
    BY DEF IInv, HandlerAgrees
  <2>2. QED
    BY <2>1 DEF IInv, NothingLost, Tracked, Terminal
<1>2. IInv => RejectedLeavesNoTrace
  BY DEF IInv, HandlerAgrees, RejectedLeavesNoTrace, Tracked
<1>3. QED
  BY <1>1, <1>2, InductiveInvariant, PTL

\* The BFF is never told a status that a lookup of the job contradicts.
THEOREM NotificationsTruthful == Spec => []NotificationsAgree
<1>1. IInv => NotificationsAgree
  BY DEF IInv
<1>2. QED
  BY <1>1, InductiveInvariant, PTL

\* Stop abandons no job half-way: what is left over is still in the channel.
THEOREM StopIsClean == Spec => []StopLeavesOnlyWaiting
<1>1. IInv => StopLeavesOnlyWaiting
  <2> SUFFICES ASSUME IInv, main \in {"closing", "exited"}, NEW j \in Job,
                      handler[j] \in {"queued", "replied"}
               PROVE  jobs[j] \in Terminal \/ InChannel(j)
    BY DEF StopLeavesOnlyWaiting
  <2>1. \A w \in Worker : wpc[w] = "stopped"
    BY DEF IInv, StoppedAfterStop
  <2>2. QED
    BY <2>1 DEF IInv, NothingLost
<1>2. QED
  BY <1>1, InductiveInvariant, PTL

\* What the steps of a worker do to the work it has left.
LEMMA WorkSteps ==
  ASSUME IInv, NEW w \in Worker, Local(w) \/ Call(w)
  PROVE  /\ \A v \in Worker \ {w} : wpc'[v] = wpc[v] /\ attempt'[v] = attempt[v]
         /\ wpc[w] \notin Idle => WorkLeft(w)' < WorkLeft(w)
<1>1. /\ wpc \in [Worker -> WorkerState] /\ attempt \in [Worker -> 0..MaxAttempts]
      /\ wpc[w] \in {"claimed", "calling"} => attempt[w] = 0
      /\ wpc[w] = "notify" => attempt[w] < MaxAttempts
  BY DEF IInv, TypeOK, WorkerAgrees, Idle
<1> DEFINE Shape ==
      \/ wpc[w] \in Idle
      \/ wpc[w] = "claimed" /\ wpc'[w] \in {"calling", "poll"} /\ attempt'[w] = attempt[w]
      \/ wpc[w] = "calling" /\ wpc'[w] \in {"notify", "invalidate"} /\ attempt'[w] = attempt[w]
      \/ wpc[w] = "notify" /\ wpc'[w] \in {"invalidate", "backoff"} /\ attempt'[w] = attempt[w] + 1
      \/ wpc[w] = "backoff" /\ wpc'[w] \in {"invalidate", "notify"} /\ attempt'[w] = attempt[w]
      \/ wpc[w] = "invalidate" /\ wpc'[w] = "poll"
<1> DEFINE Alone == \A v \in Worker \ {w} : wpc'[v] = wpc[v] /\ attempt'[v] = attempt[v]
<1>2. ASSUME CheckContext(w) \/ DequeueJob(w) \/ DequeueEmpty(w) PROVE Alone /\ Shape
  BY <1>1, <1>2 DEF CheckContext, DequeueJob, DequeueEmpty, WorkerStep, Idle
<1>3. ASSUME MarkProcessing(w) PROVE Alone /\ Shape
  BY <1>1, <1>3 DEF MarkProcessing, WorkerStep
<1>4. ASSUME Call(w) PROVE Alone /\ Shape
  BY <1>1, <1>4 DEF Call, MarkReady, MarkError, Record, WorkerStep
<1>5. ASSUME SendWebhook(w) PROVE Alone /\ Shape
  BY <1>1, <1>5 DEF SendWebhook, WorkerStep
<1>6. ASSUME Backoff(w) PROVE Alone /\ Shape
  BY <1>1, <1>6 DEF Backoff, WorkerStep
<1>7. ASSUME InvalidateCache(w) PROVE Alone /\ Shape
  BY <1>1, <1>7 DEF InvalidateCache, WorkerStep
<1>8. Alone /\ Shape
  <2> HIDE DEF Alone, Shape
  <2> QED BY <1>2, <1>3, <1>4, <1>5, <1>6, <1>7 DEF Local
<1>9. attempt[w] \in Nat /\ attempt[w] <= MaxAttempts /\ MaxAttempts \in Nat /\ MaxAttempts > 0
  BY <1>1
<1>10. wpc[w] \notin Idle => WorkLeft(w)' < WorkLeft(w)
  BY <1>1, <1>8, <1>9 DEF WorkLeft, Idle
<1> QED BY <1>8, <1>10

\* A job that waits moves up with each one taken, and one that is taken has its
\* steps counted; handlers, the shutdown and other workers put neither back.
\* So an accepted job gets its turn and its outcome if workers go on.
THEOREM JobsMoveOn == Spec => PoolAdvances
<1> DEFINE Works == \A w \in Worker : wpc[w] \notin Idle =>
                      IF Local(w) \/ Call(w) THEN WorkLeft(w)' < WorkLeft(w) ELSE WorkLeft(w)' = WorkLeft(w)
           Waits == \A i \in 1..Len(ch) :
                      IF \E w \in Worker : DequeueJob(w) THEN i > 1 => ch'[i - 1] = ch[i] ELSE ch'[i] = ch[i]
<1>1. ASSUME IInv, Next PROVE Works
  <2> SUFFICES ASSUME NEW w \in Worker, wpc[w] \notin Idle
               PROVE  IF Local(w) \/ Call(w) THEN WorkLeft(w)' < WorkLeft(w) ELSE WorkLeft(w)' = WorkLeft(w)
    OBVIOUS
  <2>1. CASE Local(w) \/ Call(w)
    <3>1. WorkLeft(w)' < WorkLeft(w)
      BY <1>1, <2>1, WorkSteps
    <3> QED BY <2>1, <3>1
  <2>2. CASE ~(Local(w) \/ Call(w))
    <3>1. ASSUME NEW v \in Worker, Local(v) \/ Call(v) PROVE wpc'[w] = wpc[w] /\ attempt'[w] = attempt[w]
      BY <1>1, <2>2, <3>1, WorkSteps
    <3>2. ASSUME NEW j \in Job, Handler(j) PROVE wpc'[w] = wpc[w] /\ attempt'[w] = attempt[w]
      BY <3>2 DEF Handler, PostTrack, PostSend, PostRefuse, PostRevert, PostReply, HandlerStep
    <3>3. ASSUME Signal \/ PoolStopped \/ Exit PROVE wpc'[w] = wpc[w] /\ attempt'[w] = attempt[w]
      BY <3>3 DEF Signal, PoolStopped, Exit, MainStep
    <3>4. wpc'[w] = wpc[w] /\ attempt'[w] = attempt[w]
      BY <1>1, <3>1, <3>2, <3>3 DEF Next
    <3>5. WorkLeft(w)' = WorkLeft(w)
      BY <3>4 DEF WorkLeft
    <3> QED BY <2>2, <3>5
  <2> QED BY <2>1, <2>2
<1>2. ASSUME IInv, Next PROVE Waits
  <2>1. ch \in Seq(Job)
    BY <1>2 DEF IInv, TypeOK, QueueTypeOK
  <2>2. CASE \E w \in Worker : DequeueJob(w)
    <3>1. ch # <<>> /\ ch' = Tail(ch)
      BY <2>2 DEF DequeueJob, Receive
    <3>2. \A i \in 1..Len(ch) : i > 1 => ch'[i - 1] = ch[i]
      BY <2>1, <3>1
    <3> QED BY <2>2, <3>2
  <2>3. CASE ~\E w \in Worker : DequeueJob(w)
    <3>1. ch' = ch \/ \E j \in Job : Send(j)
      BY <1>2, <2>3, StepCases DEF PostTrack, PostSend, PostRefuse, PostRevert, PostReply, CheckContext, DequeueEmpty,
         MarkProcessing, Record, SendWebhook, Backoff, InvalidateCache, Signal, PoolStopped, Exit, MainStep
    <3>2. \A i \in 1..Len(ch) : ch'[i] = ch[i]
      BY <2>1, <3>1, SendAdds
    <3> QED BY <2>3, <3>2
  <2> QED BY <2>2, <2>3
<1>3. IInv /\ [Next]_vars => [Works /\ Waits]_vars
  <2> HIDE DEF Works, Waits
  <2> QED BY <1>1, <1>2
<1> QED BY <1>3, InductiveInvariant, PTL DEF Spec, PoolAdvances

-----------------------------------------------------------------------------
(* The pool implements the job life cycle.                                  *)

\* Only a successful send, the mark "processing" and the recorded outcome change
\* what the life cycle shows; they are its Submit, Start and Finish.
LEMMA StepImplements ==
  ASSUME IInv, [Next]_vars
  PROVE  [Lifecycle!Next]_(Lifecycle!lifecycle)
<1> USE DEF IInv, TypeOK, QueueTypeOK
<1>1. ASSUME NEW j \in Job, PostSend(j)
      PROVE  Lifecycle!Submit(j)
  <2>1. /\ handler[j] = "tracked" /\ handler' = [handler EXCEPT ![j] = "queued"]
        /\ UNCHANGED <<jobs, wpc, held>>
    BY <1>1 DEF PostSend, HandlerStep
  <2>2. jobs[j] = "pending"
    BY <2>1 DEF HandlerAgrees
  <2>3. VisibleStatus[j] = "none" /\ VisibleStatus' = [VisibleStatus EXCEPT ![j] = "pending"]
    BY <2>1, <2>2 DEF VisibleStatus
  <2>4. Running' = Running
    BY <2>1 DEF Running
  <2>5. QED
    BY <2>3, <2>4 DEF Lifecycle!Submit
<1>2. ASSUME NEW j \in Job, PostTrack(j) \/ PostRefuse(j) \/ PostRevert(j) \/ PostReply(j)
      PROVE  VisibleStatus' = VisibleStatus /\ Running' = Running
  <2>1. UNCHANGED <<wpc, held>>
    BY <1>2 DEF PostTrack, PostRefuse, PostRevert, PostReply, HandlerStep
  <2>2. \E s \in HandlerState :
          /\ handler' = [handler EXCEPT ![j] = s]
          /\ \/ jobs' = jobs /\ (handler[j] = "queued" <=> s = "replied")
                /\ handler[j] \in {"tracked", "queued"} /\ s \in {"refused", "replied"}
             \/ /\ handler[j] \in {"new", "refused"} /\ s \in {"tracked", "rejected"}
                /\ \E t \in {"pending", "absent"} : jobs' = [jobs EXCEPT ![j] = t]
    BY <1>2 DEF PostTrack, PostRefuse, PostRevert, PostReply, HandlerStep, Track, Untrack, HandlerState
  <2>3. VisibleStatus' = VisibleStatus
    BY <2>2 DEF VisibleStatus
  <2>4. QED
    BY <2>1, <2>3 DEF Running
<1>3. ASSUME NEW w \in Worker, MarkProcessing(w)
      PROVE  \E j \in Job : Lifecycle!Start(w, j)
  <2>1. /\ held[w] \in Job /\ wpc[w] = "claimed" /\ jobs[held[w]] = "pending"
        /\ handler[held[w]] \in {"queued", "replied"}
    BY <1>3 DEF MarkProcessing, WorkerStep, WorkerAgrees, HandlerAgrees, Idle
  <2>2. /\ jobs' = [jobs EXCEPT ![held[w]] = "processing"]
        /\ wpc' = [wpc EXCEPT ![w] = "calling"]
        /\ UNCHANGED <<handler, held>>
    BY <1>3, <2>1 DEF MarkProcessing, WorkerStep, UpdateStatus, Tracked
  <2>3. VisibleStatus[held[w]] = "pending" /\ Running[w] = NoJob
    BY <2>1 DEF VisibleStatus, Running
  <2>4. VisibleStatus' = [VisibleStatus EXCEPT ![held[w]] = "processing"]
    BY <2>1, <2>2 DEF VisibleStatus
  <2>5. Running' = [Running EXCEPT ![w] = held[w]]
    BY <2>1, <2>2 DEF Running
  <2>6. QED
    BY <2>1, <2>3, <2>4, <2>5 DEF Lifecycle!Start
<1>4. ASSUME NEW w \in Worker, NEW s \in Terminal, Record(w, s)
      PROVE  \E j \in Job : Lifecycle!Finish(w, j)
  <2>1. /\ held[w] \in Job /\ wpc[w] = "calling" /\ jobs[held[w]] = "processing"
        /\ handler[held[w]] \in {"queued", "replied"}
    BY <1>4 DEF Record, WorkerStep, WorkerAgrees, HandlerAgrees, Idle
  <2>2. /\ jobs' = [jobs EXCEPT ![held[w]] = s]
        /\ wpc' = [wpc EXCEPT ![w] = IF WebhookEnabled THEN "notify" ELSE "invalidate"]
        /\ UNCHANGED <<handler, held>>
    BY <1>4, <2>1 DEF Record, WorkerStep, UpdateStatus, Tracked
  <2>3. Running[w] = held[w]
    BY <2>1 DEF Running
  <2>4. VisibleStatus' = [VisibleStatus EXCEPT ![held[w]] = s]
    BY <2>1, <2>2 DEF VisibleStatus
  <2>5. Running' = [Running EXCEPT ![w] = NoJob]
    BY <2>1, <2>2 DEF Running
  <2>6. QED
    BY <2>1, <2>3, <2>4, <2>5 DEF Lifecycle!Finish, Lifecycle!Outcome, Terminal
<1>5. ASSUME NEW w \in Worker,
             \/ CheckContext(w) \/ DequeueJob(w) \/ DequeueEmpty(w)
             \/ SendWebhook(w) \/ Backoff(w) \/ InvalidateCache(w)
      PROVE  VisibleStatus' = VisibleStatus /\ Running' = Running
  <2>1. UNCHANGED <<jobs, handler>>
    BY <1>5 DEF CheckContext, DequeueJob, DequeueEmpty, SendWebhook, Backoff,
                InvalidateCache, WorkerStep
  <2>2. \E to \in WorkerState \ {"calling"} : wpc' = [wpc EXCEPT ![w] = to]
    BY <1>5 DEF CheckContext, DequeueJob, DequeueEmpty, SendWebhook, Backoff,
                InvalidateCache, WorkerStep, WorkerState, Idle, Finishing
  <2>3. wpc[w] # "calling" /\ \E t \in Job \cup {NoJob} : held' = [held EXCEPT ![w] = t]
    <3>1. wpc[w] # "calling"
      BY <1>5 DEF CheckContext, DequeueJob, DequeueEmpty, SendWebhook, Backoff,
                  InvalidateCache, WorkerStep
    <3>2. CASE DequeueJob(w)
      BY <3>1, <3>2 DEF DequeueJob
    <3>3. CASE InvalidateCache(w)
      BY <3>1, <3>3 DEF InvalidateCache
    <3>4. CASE UNCHANGED held
      <4>1. held' = [held EXCEPT ![w] = held[w]]
        BY <3>4
      <4>2. QED
        BY <3>1, <4>1
    <3>5. QED
      BY <1>5, <3>2, <3>3, <3>4 DEF CheckContext, DequeueEmpty, SendWebhook, Backoff
  <2>4. Running' = Running
    BY <2>2, <2>3 DEF Running
  <2>5. QED
    BY <2>1, <2>4 DEF VisibleStatus
<1>6. ASSUME Signal \/ PoolStopped \/ Exit \/ UNCHANGED vars
      PROVE  VisibleStatus' = VisibleStatus /\ Running' = Running
  BY <1>6 DEF Signal, PoolStopped, Exit, MainStep, vars, VisibleStatus, Running
<1>7. QED
  BY <1>1, <1>2, <1>3, <1>4, <1>5, <1>6, StepCases DEF Lifecycle!Next, Lifecycle!lifecycle

\* Refinement: for every set of jobs and workers, each behaviour of the pool,
\* seen through VisibleStatus and Running, is a behaviour of JobLifecycle.
THEOREM Refinement == Spec => ImplementsLifecycle
<1>1. Init => Lifecycle!Init
  BY DEF Init, QueueInit, Lifecycle!Init, VisibleStatus, Running
<1>2. IInv /\ [Next]_vars => [Lifecycle!Next]_(Lifecycle!lifecycle)
  BY StepImplements
<1>3. QED
  BY <1>1, <1>2, InductiveInvariant, PTL DEF Spec, ImplementsLifecycle, Lifecycle!Spec

-----------------------------------------------------------------------------
(* The pipeline that is built on the pool.                                  *)

Begun == {"processing"} \cup Terminal

\* A gateway step other than the recording of a result: what has begun stays
\* begun, what is done stays done, and no job becomes "ready".
LEMMA QuietStep ==
  ASSUME IInv,
         \/ \E j \in Job : Handler(j)
         \/ \E w \in Worker : \/ CheckContext(w) \/ DequeueJob(w) \/ DequeueEmpty(w)
                              \/ MarkProcessing(w) \/ SendWebhook(w) \/ Backoff(w) \/ InvalidateCache(w)
         \/ Signal \/ PoolStopped \/ Exit
  PROVE  \A k \in Job : /\ jobs[k] \in Begun => jobs'[k] \in Begun
                        /\ jobs[k] \in Terminal => jobs'[k] \in Terminal
                        /\ jobs'[k] = "ready" => jobs[k] = "ready"
<1> USE DEF IInv, TypeOK, QueueTypeOK, Begun, Terminal
<1>1. CASE UNCHANGED jobs
  BY <1>1
<1>2. ASSUME NEW j \in Job, PostTrack(j) \/ PostRevert(j)
      PROVE  jobs[j] \notin Begun /\ jobs' \in {[jobs EXCEPT ![j] = "pending"], [jobs EXCEPT ![j] = "absent"]}
  <2>1. handler[j] \in {"new", "refused"}
    BY <1>2 DEF PostTrack, PostRevert, HandlerStep
  <2>2. jobs[j] \in {"absent", "pending"}
    BY <2>1 DEF HandlerAgrees
  <2> QED BY <1>2, <2>2 DEF PostTrack, PostRevert, Track, Untrack
<1>3. ASSUME NEW w \in Worker, MarkProcessing(w)
      PROVE  held[w] \in Job /\ jobs[held[w]] = "pending" /\ jobs' = [jobs EXCEPT ![held[w]] = "processing"]
  <2>1. wpc[w] = "claimed"
    BY <1>3 DEF MarkProcessing, WorkerStep
  <2>2. held[w] \in Job /\ jobs[held[w]] = "pending"
    BY <2>1 DEF WorkerAgrees, Idle
  <2> QED BY <1>3, <2>2 DEF MarkProcessing, UpdateStatus, Tracked
<1>4. CASE ~UNCHANGED jobs
  <2>1. \/ \E j \in Job : PostTrack(j) \/ PostRevert(j)
        \/ \E w \in Worker : MarkProcessing(w)
    BY <1>4 DEF Handler, PostSend, PostRefuse, PostReply, CheckContext, DequeueJob, DequeueEmpty,
                SendWebhook, Backoff, InvalidateCache, Signal, PoolStopped, Exit, MainStep
  <2>2. CASE \E j \in Job : PostTrack(j) \/ PostRevert(j)
    BY <1>2, <2>2
  <2>3. CASE \E w \in Worker : MarkProcessing(w)
    BY <1>3, <2>3
  <2> QED BY <2>1, <2>2, <2>3
<1> QED BY <1>1, <1>4

\* The recording of a result changes the status of the worker's job only, which
\* was "processing".
LEMMA RecordStep ==
  ASSUME IInv, NEW w \in Worker, NEW s \in Terminal, Record(w, s)
  PROVE  /\ held[w] \in Job /\ jobs[held[w]] = "processing"
         /\ jobs' = [jobs EXCEPT ![held[w]] = s]
         /\ UNCHANGED held
<1>1. wpc[w] = "calling"
  BY DEF Record, WorkerStep
<1>2. held[w] \in Job /\ jobs[held[w]] = "processing"
  BY <1>1 DEF IInv, WorkerAgrees, Idle
<1> QED BY <1>2 DEF Record, UpdateStatus, Tracked

\* Every step of the composition is a step of the pool or leaves it alone.
LEMMA PoolStep == [PipelineNext]_pipelineVars => [Next]_vars
<1> SUFFICES ASSUME [PipelineNext]_pipelineVars PROVE [Next]_vars
  OBVIOUS
<1>1. CASE UNCHANGED pipelineVars
  BY <1>1 DEF pipelineVars
<1>2. CASE \E j \in Job : Agent(j)
  BY <1>2 DEF Agent, Start, Store, Publish, Fail, Crash, AgentStep
<1>3. CASE main # "exited" /\ Elsewhere
  BY <1>3 DEF Elsewhere, Next, Local
<1>4. ASSUME main # "exited", NEW w \in Worker, GatewayWorker(w) PROVE [Next]_vars
  BY <1>4 DEF GatewayWorker, SendRequest, Answer, GiveUp, Invalidate, Next, Local, Call
<1> QED BY <1>1, <1>2, <1>3, <1>4 DEF PipelineNext

-----------------------------------------------------------------------------
(* The core of the invariant, from which the properties follow.             *)

Core == PipelineTypeOK /\ IInv /\ AgentAgrees /\ HistoryAgrees /\ ReadyIsBacked

LEMMA CoreSuffices == Core /\ LateAgrees => PipelineIInv
<1> SUFFICES ASSUME Core, LateAgrees PROVE NotifiedIsSearchable /\ StoredWasRun
  BY DEF Core, PipelineIInv
<1> USE DEF Core
<1>1. NotifiedIsSearchable
  <2> SUFFICES ASSUME NEW n \in webhooks, n.status = "ready" PROVE n.job \in stored \/ n.job \in Textless
    BY DEF NotifiedIsSearchable
  <2>1. n.job \in Job /\ jobs[n.job] = "ready"
    BY DEF IInv, TypeOK, NotificationsAgree
  <2> QED BY <2>1 DEF AgentAgrees
<1>2. StoredWasRun
  <2> SUFFICES ASSUME NEW j \in stored
               PROVE  jobs[j] \in {"processing"} \cup Terminal /\ handler[j] \in {"queued", "replied"}
    BY DEF StoredWasRun
  <2>1. j \in Job /\ jobs[j] \in {"processing"} \cup Terminal
    BY DEF PipelineTypeOK, AgentAgrees
  <2>2. jobs[j] \notin {"absent", "pending"}
    BY <2>1 DEF Terminal
  <2>3. handler[j] \notin {"new", "rejected", "tracked", "refused"}
    BY <2>1, <2>2 DEF IInv, HandlerAgrees
  <2> QED BY <2>1, <2>3 DEF IInv, TypeOK, HandlerState
<1> QED BY <1>1, <1>2

LEMMA CoreInit == PipelineInit => Core
<1> SUFFICES ASSUME PipelineInit PROVE Core
  OBVIOUS
<1>1. IInv
  BY InitIInv DEF PipelineInit
<1>2. \A j \in Job : jobs[j] = "absent"
  BY DEF PipelineInit, Init, QueueInit
<1>3. PipelineTypeOK
  BY <1>1 DEF IInv, PipelineInit, PipelineTypeOK
<1>4. AgentAgrees /\ HistoryAgrees /\ ReadyIsBacked
  BY <1>2 DEF PipelineInit, AgentAgrees, HistoryAgrees, ReadyIsBacked, Document
<1> QED BY <1>1, <1>3, <1>4 DEF Core

\* A step of the agent leaves the gateway alone.
LEMMA AgentPreserves ==
  ASSUME Core, NEW j \in Job, Agent(j)
  PROVE  PipelineTypeOK' /\ AgentAgrees' /\ HistoryAgrees' /\ ReadyIsBacked'
<1> USE DEF Core
<1>1. UNCHANGED <<vars, historyVars>>
  BY DEF Agent, Start, Store, Publish, Fail, Crash, AgentStep
<1>2. TypeOK' /\ UNCHANGED <<jobs, held, announced, number>>
  BY <1>1 DEF PipelineTypeOK, TypeOK, QueueTypeOK, vars, historyVars, InChannel
<1>3. DocumentOf[j] \in Document /\ Textless \subseteq Job
  BY PipelineAssumption DEF Document
<1>4. PipelineTypeOK'
  BY <1>2, <1>3 DEF PipelineTypeOK, Agent, Start, Store, Publish, Fail, Crash, AgentStep
<1>5. HistoryAgrees'
  BY <1>2 DEF HistoryAgrees
<1>6. /\ stored \subseteq stored'
      /\ \A d \in Document : docStatus[d] # "unset" => docStatus'[d] # "unset"
      /\ \A d \in Document : docStatus'[d] = "ready" => docStatus[d] = "ready" \/ (d = DocumentOf[j] /\ Publish(j))
  BY <1>3 DEF PipelineTypeOK, Agent, Start, Store, Publish, Fail, Crash, AgentStep
<1>7. AgentAgrees'
  <2> SUFFICES ASSUME NEW k \in Job
               PROVE  /\ agent'[k] # "idle" => jobs[k] \in {"processing"} \cup Terminal
                      /\ agent'[k] \in {"idle", "sent", "running"} => k \notin stored'
                      /\ agent'[k] \in {"stored", "ok"} => k \in stored' \/ k \in Textless
                      /\ agent'[k] = "ok" => docStatus'[DocumentOf[k]] # "unset"
                      /\ jobs[k] = "ready" => agent'[k] = "ok"
    BY <1>2 DEF AgentAgrees
  <2>1. DocumentOf[k] \in Document
    BY DEF Document
  <2>2. CASE k # j
    <3>1. agent'[k] = agent[k] /\ (k \in stored' <=> k \in stored)
      BY <2>2 DEF PipelineTypeOK, Agent, Start, Store, Publish, Fail, Crash, AgentStep
    <3> QED BY <1>6, <2>1, <3>1 DEF AgentAgrees
  <2>3. CASE k = j
    <3>1. CASE Start(j)
      BY <2>3, <3>1 DEF PipelineTypeOK, AgentAgrees, Start, AgentStep
    <3>2. CASE Store(j)
      BY <2>3, <3>2 DEF PipelineTypeOK, AgentAgrees, Store, AgentStep
    <3>3. CASE Publish(j)
      BY <1>3, <2>3, <3>3 DEF PipelineTypeOK, AgentAgrees, Publish, AgentStep
    <3>4. CASE Fail(j) \/ Crash(j)
      BY <2>3, <3>4 DEF PipelineTypeOK, AgentAgrees, Fail, Crash, AgentStep
    <3> QED BY <3>1, <3>2, <3>3, <3>4 DEF Agent
  <2> QED BY <2>2, <2>3
<1>8. ReadyIsBacked'
  <2>1. ASSUME NEW d \in Document, docStatus'[d] = "ready"
        PROVE  \E k \in Job : DocumentOf[k] = d /\ (k \in stored' \/ k \in Textless)
    <3>1. CASE docStatus[d] = "ready"
      BY <1>6, <3>1 DEF ReadyIsBacked
    <3>2. CASE d = DocumentOf[j] /\ Publish(j)
      <4>1. j \in stored \/ j \in Textless
        BY <3>2 DEF Publish, AgentStep, AgentAgrees
      <4> QED BY <1>6, <3>2, <4>1
    <3> QED BY <1>6, <2>1, <3>1, <3>2
  <2>2. ASSUME NEW k \in Job, jobs'[k] = "ready" PROVE docStatus'[DocumentOf[k]] # "unset"
    BY <1>2, <1>6, <2>2 DEF ReadyIsBacked, Document
  <2> QED BY <2>1, <2>2 DEF ReadyIsBacked, Document
<1> QED BY <1>4, <1>5, <1>7, <1>8

\* A step of the gateway leaves the database alone.
LEMMA GatewayPreserves ==
  ASSUME Core, IInv', Elsewhere \/ \E w \in Worker : GatewayWorker(w)
  PROVE  PipelineTypeOK' /\ AgentAgrees' /\ HistoryAgrees' /\ ReadyIsBacked'
<1> USE DEF Core
<1>1. UNCHANGED <<stored, docStatus>> /\ TypeOK'
  BY DEF IInv, Elsewhere, GatewayWorker, SendRequest, Answer, GiveUp, Invalidate, agentVars
<1>2. CASE Elsewhere
  <2>1. UNCHANGED <<agent, announced, number>>
    BY <1>2 DEF Elsewhere, agentVars, historyVars
  <2>2. \A k \in Job : /\ jobs[k] \in Begun => jobs'[k] \in Begun
                       /\ jobs[k] \in Terminal => jobs'[k] \in Terminal
                       /\ jobs'[k] = "ready" => jobs[k] = "ready"
    BY <1>2, QuietStep DEF Elsewhere
  <2>3. AgentAgrees'
    BY <1>1, <2>1, <2>2 DEF AgentAgrees, Begun
  <2>4. HistoryAgrees'
    <3> SUFFICES ASSUME NEW k \in Job, announced[k] # "no", NEW w \in Worker PROVE held'[w] # k
      BY <2>1, <2>2 DEF HistoryAgrees
    <3>1. held[w] # k /\ jobs'[k] \in Terminal
      BY <2>2 DEF HistoryAgrees
    <3>2. CASE held'[w] = held[w]
      BY <3>1, <3>2
    <3>3. CASE held'[w] # held[w]
      <4>1. held'[w] = NoJob \/ wpc'[w] = "claimed"
        BY <1>2, <3>3 DEF IInv, TypeOK, Elsewhere, Handler, PostTrack, PostSend, PostRefuse, PostRevert, PostReply, HandlerStep,
             CheckContext, DequeueJob, DequeueEmpty, MarkProcessing, SendWebhook, Backoff, WorkerStep,
             Signal, PoolStopped, Exit, MainStep
      <4>2. CASE held'[w] = NoJob
        BY <4>2, PoolAssumption
      <4>3. CASE wpc'[w] = "claimed"
        BY <3>1, <4>3 DEF IInv, WorkerAgrees, Terminal
      <4> QED BY <4>1, <4>2, <4>3
    <3> QED BY <3>2, <3>3
  <2> QED BY <1>1, <2>1, <2>2, <2>3, <2>4 DEF PipelineTypeOK, ReadyIsBacked
<1>3. ASSUME NEW w \in Worker, SendRequest(w)
      PROVE  PipelineTypeOK' /\ AgentAgrees' /\ HistoryAgrees' /\ ReadyIsBacked'
  <2>1. held[w] \in Job /\ jobs[held[w]] = "processing"
    BY <1>3 DEF SendRequest, IInv, WorkerAgrees, Idle
  <2>2. UNCHANGED <<jobs, held, announced, number>> /\ agent' = [agent EXCEPT ![held[w]] = "sent"] /\ agent[held[w]] = "idle"
    BY <1>3 DEF SendRequest, vars, historyVars
  <2> QED BY <1>1, <2>1, <2>2 DEF PipelineTypeOK, AgentAgrees, HistoryAgrees, ReadyIsBacked
<1>4. ASSUME NEW w \in Worker, NEW s \in Terminal, Record(w, s), s = "ready" => agent[held[w]] = "ok",
             UNCHANGED <<agentVars, historyVars>>
      PROVE  PipelineTypeOK' /\ AgentAgrees' /\ HistoryAgrees' /\ ReadyIsBacked'
  <2>1. /\ held[w] \in Job /\ jobs[held[w]] = "processing"
        /\ jobs' = [jobs EXCEPT ![held[w]] = s] /\ UNCHANGED held
    BY <1>4, RecordStep
  <2>2. UNCHANGED <<agent, announced, number>>
    BY <1>4 DEF agentVars, historyVars
  <2>3. jobs \in [Job -> Status \cup {"absent"}]
    BY DEF IInv, TypeOK, QueueTypeOK
  <2>4. AgentAgrees' /\ HistoryAgrees'
    BY <1>1, <1>4, <2>1, <2>2, <2>3 DEF AgentAgrees, HistoryAgrees
  <2>5. ReadyIsBacked'
    BY <1>1, <1>4, <2>1, <2>2, <2>3 DEF AgentAgrees, ReadyIsBacked
  <2> QED BY <1>1, <2>2, <2>4, <2>5 DEF PipelineTypeOK
<1>5. ASSUME NEW w \in Worker, Invalidate(w)
      PROVE  PipelineTypeOK' /\ AgentAgrees' /\ HistoryAgrees' /\ ReadyIsBacked'
  <2>1. wpc[w] = "invalidate" /\ UNCHANGED <<agent, jobs>> /\ held' = [held EXCEPT ![w] = NoJob]
    BY <1>5 DEF Invalidate, InvalidateCache, WorkerStep, agentVars
  <2>2. held[w] \in Job /\ jobs[held[w]] \in Terminal
    BY <2>1 DEF IInv, WorkerAgrees, Idle, Finishing
  <2>3. \A v \in Worker : held'[v] # held[w]
    BY <2>1, <2>2, PoolAssumption DEF IInv, TypeOK, OwnedOnce
  <2>4. \A k \in Job : k # held[w] => announced'[k] = announced[k]
    BY <1>5 DEF Invalidate, PipelineTypeOK
  <2>5. \A v \in Worker : held'[v] = held[v] \/ held'[v] = NoJob
    BY <2>1 DEF IInv, TypeOK
  <2>6. HistoryAgrees'
    BY <2>1, <2>2, <2>3, <2>4, <2>5, PoolAssumption DEF HistoryAgrees
  <2>7. version' \in [Project -> Nat] /\ ProjectOf[held[w]] \in Project
    BY <1>1, <2>2, PoolAssumption DEF TypeOK
  <2>8. PipelineTypeOK'
    BY <1>1, <1>5, <2>1, <2>2, <2>7 DEF PipelineTypeOK, Invalidate
  <2>9. AgentAgrees' /\ ReadyIsBacked'
    BY <1>1, <2>1 DEF AgentAgrees, ReadyIsBacked
  <2> QED BY <2>6, <2>8, <2>9
<1>6. ASSUME NEW w \in Worker, GatewayWorker(w)
      PROVE  PipelineTypeOK' /\ AgentAgrees' /\ HistoryAgrees' /\ ReadyIsBacked'
  <2>1. CASE SendRequest(w)
    BY <1>3, <2>1
  <2>2. CASE Answer(w)
    <3>1. Record(w, "ready") /\ agent[held[w]] = "ok" /\ UNCHANGED <<agentVars, historyVars>> /\ "ready" \in Terminal
      BY <2>2 DEF Answer, MarkReady, Terminal
    <3> QED BY <1>4, <3>1
  <2>3. CASE GiveUp(w)
    <3>1. Record(w, "error") /\ UNCHANGED <<agentVars, historyVars>> /\ "error" \in Terminal
      BY <2>3 DEF GiveUp, MarkError, Terminal
    <3> QED BY <1>4, <3>1
  <2>4. CASE Invalidate(w)
    BY <1>5, <2>4
  <2> QED BY <1>6, <2>1, <2>2, <2>3, <2>4 DEF GatewayWorker
<1> QED BY <1>2, <1>6

LEMMA CoreStep == Core /\ [PipelineNext]_pipelineVars => Core'
<1> SUFFICES ASSUME Core, [PipelineNext]_pipelineVars PROVE Core'
  OBVIOUS
<1>1. IInv'
  BY PoolStep, StepIInv DEF Core
<1>2. CASE UNCHANGED pipelineVars
  BY <1>1, <1>2 DEF Core, pipelineVars, vars, agentVars, historyVars, PipelineTypeOK, IInv,
     AgentAgrees, HistoryAgrees, ReadyIsBacked
<1>3. CASE \E j \in Job : Agent(j)
  BY <1>1, <1>3, AgentPreserves DEF Core
<1>4. CASE Elsewhere \/ \E w \in Worker : GatewayWorker(w)
  BY <1>1, <1>4, GatewayPreserves DEF Core
<1> QED BY <1>2, <1>3, <1>4 DEF PipelineNext

LEMMA CoreHolds == PipelineSpec => []Core
BY CoreInit, CoreStep, PTL DEF PipelineSpec

\* A step of the gateway makes no job "ready" whose agent has not answered, and
\* an increment is called early only when the rows are not there.
LEMMA LateStep ==
  ASSUME Core, Core', LateAgrees, [PipelineNext]_pipelineVars
  PROVE  LateAgrees'
<1> USE DEF Core
<1>1. \A j \in Job : jobs'[j] = "ready" => agent'[j] = "ok"
  BY DEF AgentAgrees
<1>3. \A j \in stored' : announced'[j] = "early" => jobs'[j] # "ready"
  <2> SUFFICES ASSUME NEW j \in stored', announced'[j] = "early", jobs'[j] = "ready" PROVE FALSE
    OBVIOUS
  <2>0. j \in Job /\ agent'[j] = "ok"
    BY <1>1 DEF PipelineTypeOK
  <2>1. CASE \E k \in Job : Agent(k)
    <3>1. announced[j] = "early" /\ jobs[j] = "ready"
      BY <2>1 DEF Agent, Start, Store, Publish, Fail, Crash, AgentStep, vars, historyVars
    <3>2. agent[j] = "ok"
      BY <2>0, <3>1 DEF AgentAgrees
    <3>3. j \in stored
      BY <2>0, <2>1, <3>2 DEF Agent, Start, Store, Publish, Fail, Crash, AgentStep
    <3> QED BY <3>1, <3>3 DEF LateAgrees
  <2>2. CASE Elsewhere
    <3>1. stored' = stored /\ announced' = announced
      BY <2>2 DEF Elsewhere, agentVars, historyVars
    <3>2. jobs[j] = "ready"
      BY <2>0, <2>2, QuietStep DEF Elsewhere
    <3> QED BY <3>1, <3>2 DEF LateAgrees
  <2>3. ASSUME NEW w \in Worker, SendRequest(w) \/ Answer(w) \/ GiveUp(w) PROVE FALSE
    <3>1. stored' = stored /\ announced' = announced /\ UNCHANGED held
      BY <2>3 DEF SendRequest, Answer, GiveUp, MarkReady, MarkError, Record, vars, agentVars, historyVars
    <3>2. CASE jobs[j] = "ready"
      BY <3>1, <3>2 DEF LateAgrees
    <3>3. CASE jobs[j] # "ready"
      <4>1. j = held[w]
        BY <2>0, <2>3, <3>3, RecordStep DEF SendRequest, Answer, GiveUp, MarkReady, MarkError, Terminal, vars,
           IInv, TypeOK, QueueTypeOK
      <4> QED BY <2>0, <3>1, <4>1 DEF HistoryAgrees
    <3> QED BY <3>2, <3>3
  <2>4. ASSUME NEW w \in Worker, Invalidate(w) PROVE FALSE
    <3>1. stored' = stored /\ UNCHANGED jobs
      BY <2>4 DEF Invalidate, InvalidateCache, agentVars
    <3>2. announced[j] # "early"
      BY <3>1 DEF LateAgrees
    <3>3. j \notin stored
      BY <2>0, <2>4, <3>2 DEF Invalidate, PipelineTypeOK
    <3> QED BY <3>1, <3>3
  <2>5. CASE UNCHANGED pipelineVars
    BY <2>5 DEF pipelineVars, vars, agentVars, historyVars, LateAgrees
  <2> QED BY <2>1, <2>2, <2>3, <2>4, <2>5 DEF PipelineNext, GatewayWorker
<1>4. \A k \in Job : agent[k] = "failed" => agent'[k] = "failed"
  BY DEF PipelineTypeOK, PipelineNext, Elsewhere, GatewayWorker, SendRequest, Answer, GiveUp, Invalidate, Agent, Start, Store,
     Publish, Fail, Crash, AgentStep, pipelineVars, agentVars
<1>5. ASSUME NEW d \in Document, docStatus'[d] = "error"
      PROVE  \E k \in Job : DocumentOf[k] = d /\ agent'[k] = "failed"
  <2>1. CASE docStatus[d] = "error"
    BY <1>4, <2>1 DEF LateAgrees
  <2>2. CASE docStatus[d] # "error"
    <3>1. PICK j \in Job : Fail(j) /\ DocumentOf[j] = d
      BY <1>5, <2>2 DEF PipelineTypeOK, PipelineNext, Elsewhere, GatewayWorker, SendRequest, Answer, GiveUp, Invalidate,
         Agent, Start, Store, Publish, Fail, Crash, pipelineVars, agentVars
    <3>2. agent'[j] = "failed"
      BY <3>1 DEF PipelineTypeOK, Fail, AgentStep
    <3> QED BY <3>1, <3>2
  <2> QED BY <2>1, <2>2
<1> QED BY <1>3, <1>5 DEF LateAgrees

LEMMA LateHolds == PipelineSpec => []LateAgrees
<1>1. PipelineInit => LateAgrees
  BY DEF PipelineInit, LateAgrees, Document
<1>2. Core /\ Core' /\ LateAgrees /\ [PipelineNext]_pipelineVars => LateAgrees'
  BY LateStep
<1> QED BY <1>1, <1>2, CoreHolds, PTL DEF PipelineSpec

\* The invariant of the composed pipeline, for any number of jobs and workers.
THEOREM PipelineInvariant == PipelineSpec => []PipelineIInv
BY CoreHolds, LateHolds, CoreSuffices, PTL

\* The BFF hears "ready" only of documents whose rows are committed.
THEOREM NotifiedSearchable == PipelineSpec => []NotifiedIsSearchable
<1>1. PipelineIInv => NotifiedIsSearchable
  BY DEF PipelineIInv
<1> QED BY <1>1, PipelineInvariant, PTL

\* The status column says "ready" only of documents with a committed run.
THEOREM ReadyBacked == PipelineSpec => []ReadyIsBacked
<1>1. PipelineIInv => ReadyIsBacked
  BY DEF PipelineIInv
<1> QED BY <1>1, PipelineInvariant, PTL

\* Where gateway and database disagree, a run that went on by itself is the
\* reason: the late rows are of a job reported "error", the late "error" of a
\* document reported "ready" is of another run of it.
THEOREM OnlyLateRunsDisagree == PipelineSpec => []DisagreementsExplained
<1>1. ASSUME PipelineIInv PROVE DisagreementsExplained
  <2> USE <1>1 DEF PipelineIInv
  <2>1. ASSUME NEW j \in stored, announced[j] = "early" PROVE jobs[j] = "error"
    BY <2>1 DEF PipelineTypeOK, LateAgrees, HistoryAgrees, Terminal
  <2>2. ASSUME NEW j \in stored, announced[j] = "early", NEW n \in webhooks, n.job = j PROVE n.status = "error"
    BY <2>1, <2>2 DEF IInv, NotificationsAgree
  <2>3. ASSUME NEW j \in Job, jobs[j] = "ready", docStatus[DocumentOf[j]] = "error"
        PROVE  \E k \in Job \ {j} : DocumentOf[k] = DocumentOf[j] /\ agent[k] = "failed"
    <3>1. PICK k \in Job : DocumentOf[k] = DocumentOf[j] /\ agent[k] = "failed"
      BY <2>3 DEF LateAgrees, Document
    <3>2. k # j
      BY <2>3, <3>1 DEF AgentAgrees
    <3> QED BY <3>1, <3>2
  <2> QED BY <2>1, <2>2, <2>3 DEF DisagreementsExplained
<1> QED BY <1>1, PipelineInvariant, PTL
-----------------------------------------------------------------------------
(* The update side of ChatCache.                                            *)

\* Every step of the composition is a commit, an increment, a lost increment or
\* nothing to the cache of the observed project.
LEMMA CacheStep ==
  ASSUME Core, [PipelineNext]_pipelineVars
  PROVE  [Cache!Next]_(Cache!vars)
<1> USE DEF Core
<1> USE PipelineAssumption, PoolAssumption
<1>1. CASE UNCHANGED <<stored, announced, number, version>>
  BY <1>1 DEF Cache!vars, Runs
<1>2. ASSUME NEW j \in Job, Store(j) PROVE [Cache!Next]_(Cache!vars)
  <2>1. UNCHANGED <<announced, number, version>>
    BY <1>2 DEF Store, AgentStep, vars, historyVars
  <2>2. j \notin stored
    BY <1>2 DEF Store, AgentStep, AgentAgrees
  <2>3. CASE j \in Textless \/ j \notin Runs
    <3>1. stored' \cap Runs = stored \cap Runs
      BY <1>2, <2>3 DEF Store
    <3> QED BY <2>1, <3>1 DEF Cache!vars, Runs
  <2>4. CASE j \notin Textless /\ j \in Runs
    <3>1. Cache!Commit(j)
      BY <1>2, <2>1, <2>2, <2>4 DEF Store, Cache!Commit, Cache!chatVars, Runs
    <3> QED BY <2>4, <3>1 DEF Cache!Next, Cache!Run
  <2> QED BY <2>3, <2>4
<1>3. ASSUME NEW w \in Worker, Invalidate(w) PROVE [Cache!Next]_(Cache!vars)
  <2>0. PICK j \in Job : j = held[w]
    <3>1. wpc[w] = "invalidate"
      BY <1>3 DEF Invalidate, InvalidateCache, WorkerStep
    <3> QED BY <3>1 DEF IInv, WorkerAgrees, Idle
  <2>1. announced[j] = "no" /\ UNCHANGED stored
    BY <1>3, <2>0 DEF HistoryAgrees, Invalidate, agentVars
  <2>2. \A k \in Runs : k \in Job /\ ProjectOf[k] = Observed
    BY DEF Runs
  <2>3. /\ version \in [Project -> Nat] /\ announced \in [Job -> {"no", "early", "done", "lost"}]
        /\ number \in [Job -> Nat]
    BY DEF PipelineTypeOK, TypeOK
  <2>4. CASE version' = version
    <3>1. announced' = [announced EXCEPT ![j] = "lost"] /\ UNCHANGED <<number, version>>
      BY <1>3, <2>0, <2>4 DEF Invalidate
    <3>2. CASE j \in Runs
      <4>1. Cache!IncrementFails(j)
        BY <2>1, <2>2, <2>3, <3>1, <3>2 DEF Cache!IncrementFails, Cache!chatVars
      <4> QED BY <3>2, <4>1 DEF Cache!Next, Cache!Run
    <3>3. CASE j \notin Runs
      BY <2>1, <2>2, <2>3, <3>1, <3>3 DEF Cache!vars
    <3> QED BY <3>2, <3>3
  <2>5. CASE version' # version
    <3>1. /\ version' = [version EXCEPT ![ProjectOf[j]] = @ + 1]
          /\ announced' = [announced EXCEPT ![j] = IF j \in stored THEN "done" ELSE "early"]
          /\ number' = [number EXCEPT ![j] = version'[ProjectOf[j]]]
      BY <1>3, <2>0, <2>5 DEF Invalidate, InvalidateCache
    <3>2. CASE j \in Runs
      <4>1. version'[Observed] = version[Observed] + 1 /\ number'[j] = version[Observed] + 1
        BY <2>1, <2>2, <2>3, <3>1, <3>2
      <4>2. Cache!Increment(j)
        BY <2>1, <2>2, <2>3, <3>1, <3>2, <4>1 DEF Cache!Increment, Cache!chatVars
      <4> QED BY <3>2, <4>2 DEF Cache!Next, Cache!Run
    <3>3. CASE j \notin Runs
      <4>1. version'[Observed] = version[Observed]
        BY <2>1, <2>3, <3>1, <3>3 DEF Runs
      <4>2. \A k \in Runs : announced'[k] = announced[k] /\ number'[k] = number[k]
        BY <2>1, <2>2, <2>3, <3>1, <3>3
      <4> QED BY <2>1, <4>1, <4>2 DEF Cache!vars
    <3> QED BY <3>2, <3>3
  <2> QED BY <2>4, <2>5
<1>4. ASSUME NEW j \in Job, Agent(j), ~Store(j) PROVE UNCHANGED <<stored, announced, number, version>>
  BY <1>4 DEF Agent, Start, Publish, Fail, Crash, AgentStep, vars, historyVars
<1>5. ASSUME NEW w \in Worker, GatewayWorker(w), ~Invalidate(w) PROVE UNCHANGED <<stored, announced, number, version>>
  BY <1>5 DEF GatewayWorker, SendRequest, Answer, GiveUp, MarkReady, MarkError, Record, vars, agentVars, historyVars
<1>6. CASE Elsewhere
  <2>1. UNCHANGED <<stored, announced, number>>
    BY <1>6 DEF Elsewhere, agentVars, historyVars
  <2>2. UNCHANGED version
    BY <1>6 DEF Elsewhere, Handler, PostTrack, PostSend, PostRefuse, PostRevert, PostReply, HandlerStep,
         CheckContext, DequeueJob, DequeueEmpty, MarkProcessing, SendWebhook, Backoff,
         Signal, PoolStopped, Exit, MainStep
  <2> QED BY <1>1, <2>1, <2>2
<1>7. CASE UNCHANGED pipelineVars
  BY <1>1, <1>7 DEF pipelineVars, vars, agentVars, historyVars
<1> QED BY <1>1, <1>2, <1>3, <1>4, <1>5, <1>6, <1>7 DEF PipelineNext

\* Each job commits and increments at most once, in either order: the runs of a
\* project are what ChatCache takes them to be, so its theorems apply.
THEOREM RunsDriveCache == PipelineSpec => DrivesCache
<1>1. PipelineInit => Cache!Init
  <2> SUFFICES ASSUME PipelineInit PROVE Cache!Init
    OBVIOUS
  <2> QED BY PipelineAssumption DEF PipelineInit, Init, Cache!Init, Runs
<1>2. Core /\ [PipelineNext]_pipelineVars => [Cache!Next]_(Cache!vars)
  BY CacheStep
<1> QED BY <1>1, <1>2, CoreHolds, PTL DEF PipelineSpec, DrivesCache, Cache!Spec
=============================================================================
