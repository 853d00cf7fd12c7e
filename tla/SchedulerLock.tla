--------------------------- MODULE SchedulerLock ----------------------------
(***************************************************************************)
(* The schedulers of the indexer's replicas and the lock in Redis that is   *)
(* to keep their pipelines apart: SET NX with a TTL that nobody renews, and *)
(* a release that reads the key and then deletes it.  A value of the lock   *)
(* is made new at each attempt (a uuid); here it is the replica and the     *)
(* number of its attempt.                                                   *)
(***************************************************************************)
EXTENDS Integers

CONSTANTS
  Replica,
  None,          \* no value
  MaxAttempts    \* bound on the attempts of each replica to take the lock

Value == Replica \X (1..MaxAttempts)

ASSUME LockAssumption ==
  /\ MaxAttempts \in Nat \ {0}
  /\ None \notin Value

VARIABLES
  lock,       \* the key in Redis
  loop,       \* where each replica's loop stands
  value,      \* its _lock_value
  attempts,   \* attempts it has made
  stopping,   \* whether stop() has been called
  lost        \* history: values whose key went while they were in use

lockVars == <<lock, loop, value, attempts, stopping, lost>>

\* A replica sleeps, runs the pipeline, has yet to read the key, or to delete
\* it; "off" is stopped or dead.
LockTypeOK ==
  /\ lock \in Value \cup {None}
  /\ loop \in [Replica -> {"sleep", "pipeline", "release", "delete", "off"}]
  /\ value \in [Replica -> Value \cup {None}]
  /\ attempts \in [Replica -> 0..MaxAttempts]
  /\ stopping \in [Replica -> BOOLEAN]
  /\ lost \in SUBSET Value

LockInit ==
  /\ lock = None
  /\ loop = [r \in Replica |-> "sleep"]
  /\ value = [r \in Replica |-> None]
  /\ attempts = [r \in Replica |-> 0]
  /\ stopping = [r \in Replica |-> FALSE]
  /\ lost = {}

\* The pipeline of r, or its release, relies on v.
Uses(r, v) == loop[r] \in {"pipeline", "release", "delete"} /\ value[r] = v

New(r) == <<r, attempts[r] + 1>>

Attempt(r) ==
  /\ loop[r] = "sleep" /\ attempts[r] < MaxAttempts
  /\ attempts' = [attempts EXCEPT ![r] = @ + 1]
  /\ value' = [value EXCEPT ![r] = New(r)]
  /\ UNCHANGED <<stopping, lost>>

\* Faulty variant: SET without NX.
AcquireAlways(r) ==
  /\ Attempt(r)
  /\ lock' = New(r)
  /\ loop' = [loop EXCEPT ![r] = "pipeline"]

Acquire(r) ==
  /\ Attempt(r)
  /\ lock = None
  /\ lock' = New(r)
  /\ loop' = [loop EXCEPT ![r] = "pipeline"]

\* Somebody holds the lock, or Redis failed, before or after it set the key;
\* the value is kept until the next attempt.
AcquireFails(r) ==
  /\ Attempt(r)
  /\ lock' \in {lock, IF lock = None THEN New(r) ELSE lock}
  /\ UNCHANGED loop

\* The pipeline ends, well or not.
PipelineEnds(r) ==
  /\ loop[r] = "pipeline"
  /\ loop' = [loop EXCEPT ![r] = "release"]
  /\ UNCHANGED <<lock, value, attempts, stopping, lost>>

Released(r) ==
  /\ loop' = [loop EXCEPT ![r] = IF stopping[r] THEN "off" ELSE "sleep"]
  /\ value' = [value EXCEPT ![r] = None]
  /\ UNCHANGED <<attempts, stopping>>

\* Faulty variant: whoever's the key is, it is deleted.
ReadAny(r) ==
  /\ loop[r] = "release"
  /\ loop' = [loop EXCEPT ![r] = "delete"]
  /\ UNCHANGED <<lock, value, attempts, stopping, lost>>

ReadOwn(r) ==
  /\ loop[r] = "release" /\ lock = value[r]
  /\ loop' = [loop EXCEPT ![r] = "delete"]
  /\ UNCHANGED <<lock, value, attempts, stopping, lost>>

\* The key is another's or gone, or Redis failed, or the task is cancelled here.
ReadOther(r) ==
  /\ loop[r] = "release"
  /\ Released(r)
  /\ UNCHANGED <<lock, lost>>

\* DELETE does not look at the value: it may be another replica that loses its
\* key.  It may fail, or be cancelled.
DeleteKey(r) ==
  \/ UNCHANGED <<lock, lost>>
  \/ /\ lock' = None
     /\ lost' = lost \cup {value[q] : q \in {p \in Replica \ {r} : Uses(p, lock)}}

Delete(r) ==
  /\ loop[r] = "delete"
  /\ DeleteKey(r)
  /\ Released(r)

\* stop() cancels the task: a pipeline is left through its release, a sleeping
\* replica releases what its last attempt may have set.
Stop(r) ==
  /\ loop[r] \in {"sleep", "pipeline"} /\ ~stopping[r]
  /\ stopping' = [stopping EXCEPT ![r] = TRUE]
  /\ loop' = [loop EXCEPT ![r] = IF loop[r] = "sleep" /\ value[r] = None THEN "off" ELSE "release"]
  /\ UNCHANGED <<lock, value, attempts, lost>>

\* The same while the lock is being released: the release is cut short.
StopInRelease(r) ==
  /\ loop[r] \in {"release", "delete"} /\ ~stopping[r]
  /\ stopping' = [stopping EXCEPT ![r] = TRUE]
  /\ IF loop[r] = "delete" THEN DeleteKey(r) ELSE UNCHANGED <<lock, lost>>
  /\ loop' = [loop EXCEPT ![r] = "off"]
  /\ value' = [value EXCEPT ![r] = None]
  /\ UNCHANGED attempts

Die(r) ==
  /\ loop[r] # "off"
  /\ loop' = [loop EXCEPT ![r] = "off"]
  /\ value' = [value EXCEPT ![r] = None]
  /\ UNCHANGED <<lock, attempts, stopping, lost>>

Restart(r) ==
  /\ loop[r] = "off"
  /\ loop' = [loop EXCEPT ![r] = "sleep"]
  /\ stopping' = [stopping EXCEPT ![r] = FALSE]
  /\ UNCHANGED <<lock, value, attempts, lost>>

\* Faulty variant: the key is set without a TTL.
ExpireNever ==
  /\ FALSE
  /\ UNCHANGED lockVars

\* The TTL of a key that nobody uses any more ends.
Expire ==
  /\ lock # None /\ \A r \in Replica : ~Uses(r, lock)
  /\ lock' = None
  /\ UNCHANGED <<loop, value, attempts, stopping, lost>>

\* The TTL of a key in use ends: nobody renews it, and its owner is not told.
Overrun ==
  /\ \E r \in Replica : Uses(r, lock)
  /\ lock' = None
  /\ lost' = lost \cup {lock}
  /\ UNCHANGED <<loop, value, attempts, stopping>>

Release(r) == PipelineEnds(r) \/ ReadOwn(r) \/ ReadOther(r) \/ Delete(r)

LockNext ==
  \/ \E r \in Replica :
       Acquire(r) \/ AcquireFails(r) \/ Release(r) \/ Stop(r) \/ StopInRelease(r) \/ Die(r) \/ Restart(r)
  \/ Expire \/ Overrun

\* Pipelines end, Redis answers or fails, and keys expire.  That a key expires
\* under its owner is possible, never needed.
LockSpec == LockInit /\ [][LockNext]_lockVars /\ WF_lockVars(Expire) /\ \A r \in Replica : WF_lockVars(Release(r))

-----------------------------------------------------------------------------
\* Two pipelines run together only when one of them has lost its key, to the TTL
\* or to the release of another: crashes, restarts, lost answers and releases
\* that were cut short do not bring them together.
Exclusion ==
  \A q, r \in Replica :
    q # r /\ loop[q] = "pipeline" /\ loop[r] = "pipeline" => {value[q], value[r]} \cap lost # {}

\* "Libera lock distribuido se ainda for o owner": reading and deleting are two
\* commands, but a replica deletes the key of another only when its own expired
\* between them.
DeletesOwn == \A r \in Replica : loop[r] = "delete" => lock = value[r] \/ value[r] \in lost

\* The lock of a replica that died, or whose release failed, does not keep the
\* others out for ever, even if no key expires in use.
LockComesFree == lock # None ~> lock = None

-----------------------------------------------------------------------------
\* Who runs has the key, or has lost it: what excludes two pipelines.
OwnerRuns ==
  \A r \in Replica : loop[r] \in {"pipeline", "delete"} => lock = value[r] \/ value[r] \in lost

ValuesOwned ==
  \A r \in Replica :
    /\ value[r] # None => value[r][1] = r
    /\ loop[r] \in {"pipeline", "release", "delete"} => value[r] # None
    /\ loop[r] = "off" => value[r] = None

LockIInv == LockTypeOK /\ OwnerRuns /\ ValuesOwned

-----------------------------------------------------------------------------
(* Claims of the documentation that the code does not keep *)

\* "Usa lock distribuido Redis para garantir que apenas uma instancia execute por
\* vez" (scheduler.py:29).
OnlyOneRuns == \A q, r \in Replica : loop[q] = "pipeline" /\ loop[r] = "pipeline" => q = r
=============================================================================
