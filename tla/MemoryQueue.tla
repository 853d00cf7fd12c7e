---------------------------- MODULE MemoryQueue -----------------------------
(***************************************************************************)
(* The gateway's in-memory job queue: a buffered channel of jobs beside a   *)
(* mutex-protected map that tracks every job for status lookups.  The two   *)
(* are updated in separate critical sections, so each operator below is one *)
(* atomic access to one of them; WorkerPool orders them as Enqueue, Dequeue *)
(* and UpdateStatus do.                                                     *)
(***************************************************************************)
EXTENDS Naturals, Sequences

CONSTANTS
  Job,        \* job identifiers (a fresh UUID per request)
  Capacity    \* buffer size of the channel (PDF_QUEUE_SIZE)

ASSUME CapacityAssumption == Capacity \in Nat

VARIABLES
  ch,         \* the channel's buffer
  jobs        \* status of each tracked job, "absent" when not in the map

Terminal == {"ready", "error"}
Status   == {"pending", "processing"} \cup Terminal

QueueTypeOK ==
  /\ ch \in Seq(Job)
  /\ jobs \in [Job -> Status \cup {"absent"}]

QueueInit ==
  /\ ch = <<>>
  /\ jobs = [j \in Job |-> "absent"]

InChannel(j) == \E i \in 1..Len(ch) : ch[i] = j

Full == Len(ch) >= Capacity

Track(j)   == jobs' = [jobs EXCEPT ![j] = "pending"]
Untrack(j) == jobs' = [jobs EXCEPT ![j] = "absent"]
Send(j)    == ~Full /\ ch' = Append(ch, j)

Receive(j) ==
  /\ ch # <<>>
  /\ j = Head(ch)
  /\ ch' = Tail(ch)

\* UpdateStatus: ErrJobNotFound, and no change, for a job that is not in the map.
Tracked(j) == jobs[j] # "absent"
UpdateStatus(j, s) ==
  jobs' = IF Tracked(j) THEN [jobs EXCEPT ![j] = s] ELSE jobs
=============================================================================
