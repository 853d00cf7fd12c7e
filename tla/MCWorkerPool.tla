---------------------------- MODULE MCWorkerPool ----------------------------
(* Small instances of WorkerPool for TLC. *)
EXTENDS WorkerPool, TLC

CONSTANTS d1, p1

\* Every job is a submission of the same document of the same project, the case
\* in which jobs share an idempotency key and a cache version; it also makes the
\* jobs interchangeable.
MCProjectOf  == [j \in Job |-> p1]
MCDocumentOf == [j \in Job |-> d1]

Symmetry == Permutations(Job) \cup Permutations(Worker)
=============================================================================
