-------------------------- MODULE ScheduledIndexing --------------------------
(***************************************************************************)
(* The indexer's schedulers at work: a replica that has the lock runs its    *)
(* pipeline, a synchronisation of the catalogue and then one run over it,    *)
(* and gives the lock back.  The lock is SchedulerLock, the runs are those   *)
(* of IndexRun.  Administrators, whose runs do without the lock, are left    *)
(* out: the runners are the replicas.  IndexRun has the runs that meet.     *)
(***************************************************************************)
EXTENDS IndexRun, SchedulerLock

OnlySchedulers == Runner = Replica

VARIABLE synced   \* whether a replica's pipeline is beyond its synchronisation

scheduledVars == <<vars, lockVars, synced>>

ScheduledInit ==
  /\ Init
  /\ LockInit
  /\ synced = [r \in Replica |-> FALSE]

\* The replica that gets the lock begins with the synchronisation.
StartPipeline(r) ==
  /\ Acquire(r)
  /\ synced' = [synced EXCEPT ![r] = FALSE]
  /\ UNCHANGED vars

Synchronising(r) == loop[r] = "pipeline" /\ ~synced[r]

Upsert(r, b) ==
  /\ Synchronising(r)
  /\ Synchronise(b)
  /\ UNCHANGED <<lockVars, synced>>

\* One run follows the synchronisation.
StartRun(r) ==
  /\ Synchronising(r)
  /\ synced' = [synced EXCEPT ![r] = TRUE]
  /\ Begin(r)
  /\ UNCHANGED lockVars

Work(r) == Progress(r) /\ UNCHANGED <<lockVars, synced>>

\* Faulty variant: the run is not awaited.
EndPipelineEarly(r) ==
  /\ PipelineEnds(r)
  /\ UNCHANGED <<vars, synced>>

\* The run is over, or an exception before it has left it out.
EndPipeline(r) ==
  /\ pc[r] = "idle"
  /\ PipelineEnds(r)
  /\ UNCHANGED <<vars, synced>>

\* The task, or the process, takes a run under way with it.
StopScheduler(r) ==
  /\ Stop(r) \/ Die(r)
  /\ IF pc[r] = "idle" THEN UNCHANGED vars ELSE Crash(r)
  /\ UNCHANGED synced

GiveBack(r) == (ReadOwn(r) \/ ReadOther(r) \/ Delete(r)) /\ UNCHANGED <<vars, synced>>

\* The other steps that concern the lock alone.
LockOnly(r) == (AcquireFails(r) \/ StopInRelease(r) \/ Restart(r)) /\ UNCHANGED <<vars, synced>>

KeyExpires == Expire /\ UNCHANGED <<vars, synced>>

KeyOverrun == Overrun /\ UNCHANGED <<vars, synced>>

Publish(b) == Republish(b) /\ UNCHANGED <<lockVars, synced>>

ScheduledNext ==
  \/ \E r \in Replica :
       \/ StartPipeline(r) \/ StartRun(r) \/ Work(r) \/ EndPipeline(r) \/ StopScheduler(r)
       \/ GiveBack(r) \/ LockOnly(r)
       \/ \E b \in Book : Upsert(r, b)
  \/ \E b \in Book : Publish(b)
  \/ KeyExpires \/ KeyOverrun

\* What was begun goes on: steps of a run have timeouts, Redis answers or fails,
\* a synchronisation ends, keys expire.  Nobody need begin anything.
ScheduledSpec ==
  /\ ScheduledInit /\ [][ScheduledNext]_scheduledVars
  /\ WF_scheduledVars(KeyExpires)
  /\ \A r \in Replica : WF_scheduledVars(Work(r)) /\ WF_scheduledVars(EndPipeline(r) \/ GiveBack(r))

-----------------------------------------------------------------------------
Busy(r) == loop[r] = "pipeline" \/ pc[r] # "idle"

\* "garantir que apenas uma instancia execute por vez": two replicas are in their
\* pipelines or have runs under way together only when one of them has lost its
\* key; runs never meet before that; and a replica about to delete a key has its
\* own, or has lost it.  Crashes, cancellations and failures change none of it.
PipelinesApart ==
  /\ \A q, r \in Replica : q # r /\ Busy(q) /\ Busy(r) => {value[q], value[r]} \cap lost # {}
  /\ met => lost # {}
  /\ DeletesOwn

\* Hence, for the indexer as a whole, as long as no pipeline has overrun the TTL:
\* what is marked can be found, nothing is inserted twice, and every label is
\* that of its text.
StoresTrue ==
  lost = {} =>
    \A b \in Book :
      /\ indexed[b] => Searchable(b)
      /\ \A l, t \in Content : rows[b][l][t] <= 1 /\ (rows[b][l][t] > 0 => l = t)

\* Nor does a synchronisation take away the checksum of an entry that a run has
\* read: during a run only the run itself writes checksums.
ChecksumsKept ==
  [][\A r \in Replica, b \in Book :
       lost = {} /\ pc[r] # "idle" /\ checksum'[b] # checksum[b]
       => UpdateArtifactRef(r) /\ book[r] = b]_scheduledVars

-----------------------------------------------------------------------------
\* Why they hold: a run is within a pipeline, after its synchronisation.
Within(r) == pc[r] # "idle" => loop[r] = "pipeline" /\ synced[r]

ScheduledIInv ==
  /\ IInv /\ LockIInv
  /\ synced \in [Replica -> BOOLEAN]
  /\ met => lost # {}
  /\ \A r \in Replica : Within(r)
=============================================================================
