----------------------------- MODULE ChatCache ------------------------------
(***************************************************************************)
(* The gateway's semantic cache of chat answers for one project, in Redis.  *)
(* A chat request reads the project's cache version, looks its question up  *)
(* under that version, and on a miss asks the Python agent and stores the   *)
(* answer in the background under the key it built at the beginning.  A     *)
(* document run commits embeddings and then increments the version; the     *)
(* increment can come too early, when the worker gives up on the agent      *)
(* before it commits, or not at all.  Keys of other projects are disjoint.  *)
(***************************************************************************)
EXTENDS Integers

CONSTANTS
  Request,      \* chat requests
  Question,     \* normalised questions
  QuestionOf,   \* question of each request
  Update        \* document runs of the project

ASSUME CacheAssumption == QuestionOf \in [Request -> Question]

VARIABLES
  committed,    \* updates whose embeddings are in the database
  announced,    \* what became of each update's INCR
  number,       \* the version each INCR returned
  version,      \* the project's cache version in Redis
  cache,        \* stored answers: question, version, and the data they rest on
  pc,           \* where each chat request stands
  readOk,       \* whether its read of the version succeeded
  ver,          \* the version it uses in its key
  answer,       \* the data its answer rests on
  due,          \* history: updates announced after their commit when it began
  writes        \* background SETs that have not reached Redis yet

chatVars   == <<pc, readOk, ver, answer, due>>
updateVars == <<committed, announced, number, version>>
vars       == <<committed, announced, number, version, cache, pc, readOk, ver, answer, due, writes>>

Entry == [question : Question, version : Nat, data : SUBSET Update]

TypeOK ==
  /\ committed \in SUBSET Update
  /\ announced \in [Update -> {"no", "early", "done", "lost"}]
  /\ number \in [Update -> Nat]
  /\ version \in Nat
  /\ cache \in SUBSET Entry
  /\ pc \in [Request -> {"new", "lookup", "asking", "searched", "answered", "hit", "failed"}]
  /\ readOk \in [Request -> BOOLEAN]
  /\ ver \in [Request -> Nat]
  /\ answer \in [Request -> SUBSET Update]
  /\ due \in [Request -> SUBSET Update]
  /\ writes \in SUBSET Entry

Init ==
  /\ committed = {}
  /\ announced = [u \in Update |-> "no"]
  /\ number = [u \in Update |-> 0]
  /\ version = 0
  /\ cache = {}
  /\ pc = [r \in Request |-> "new"]
  /\ readOk = [r \in Request |-> FALSE]
  /\ ver = [r \in Request |-> 0]
  /\ answer = [r \in Request |-> {}]
  /\ due = [r \in Request |-> {}]
  /\ writes = {}

-----------------------------------------------------------------------------
(* Document runs: the agent's commit and the worker's INCR.                 *)

Commit(u) ==
  /\ u \notin committed
  /\ committed' = committed \cup {u}
  /\ UNCHANGED <<announced, number, version, cache, chatVars, writes>>

\* The worker increments once per run, after its agent call returned; when that
\* was a timeout, the commit may still be to come.
Increment(u) ==
  /\ announced[u] = "no"
  /\ announced' = [announced EXCEPT ![u] = IF u \in committed THEN "done" ELSE "early"]
  /\ version' = version + 1
  /\ number' = [number EXCEPT ![u] = version + 1]
  /\ UNCHANGED <<committed, cache, chatVars, writes>>

\* Redis failed or the pool was stopping: nobody tries again.
IncrementFails(u) ==
  /\ announced[u] = "no"
  /\ announced' = [announced EXCEPT ![u] = "lost"]
  /\ UNCHANGED <<committed, number, version, cache, chatVars, writes>>

-----------------------------------------------------------------------------
(* A chat request.                                                          *)

Settled == {u \in Update : announced[u] = "done"}

Key(r, e) == e.question = QuestionOf[r] /\ e.version = ver[r]

\* The version key is read; an error is answered with version 0.
ReadVersion(r) ==
  /\ pc[r] = "new"
  /\ pc' = [pc EXCEPT ![r] = "lookup"]
  /\ \/ readOk' = [readOk EXCEPT ![r] = TRUE] /\ ver' = [ver EXCEPT ![r] = version]
     \/ UNCHANGED <<readOk, ver>>
  /\ due' = [due EXCEPT ![r] = Settled]
  /\ UNCHANGED <<updateVars, cache, answer, writes>>

LookupHits(r) ==
  /\ pc[r] = "lookup"
  /\ \E e \in cache : Key(r, e) /\ answer' = [answer EXCEPT ![r] = e.data]
  /\ pc' = [pc EXCEPT ![r] = "hit"]
  /\ UNCHANGED <<updateVars, cache, readOk, ver, due, writes>>

\* A miss, or Redis is unavailable or answers too late.
LookupMisses(r) ==
  /\ pc[r] = "lookup"
  /\ pc' = [pc EXCEPT ![r] = "asking"]
  /\ UNCHANGED <<updateVars, cache, readOk, ver, answer, due, writes>>

\* The agent searches the database for the answer.
Search(r) ==
  /\ pc[r] = "asking"
  /\ pc' = [pc EXCEPT ![r] = "searched"]
  /\ answer' = [answer EXCEPT ![r] = committed]
  /\ UNCHANGED <<updateVars, cache, readOk, ver, due, writes>>

\* Faulty variant: the answer is stored under the version current when it comes.
RespondUnderCurrent(r) ==
  /\ pc[r] = "searched"
  /\ pc' = [pc EXCEPT ![r] = "answered"]
  /\ writes' = writes \cup {[question |-> QuestionOf[r], version |-> version, data |-> answer[r]]}
  /\ UNCHANGED <<updateVars, cache, readOk, ver, answer, due>>

\* The agent's answer arrives; its SET, under the key built at the beginning, is
\* left to a goroutine and the client is answered without waiting for it.
Respond(r) ==
  /\ pc[r] = "searched"
  /\ pc' = [pc EXCEPT ![r] = "answered"]
  /\ writes' = writes \cup {[question |-> QuestionOf[r], version |-> ver[r], data |-> answer[r]]}
  /\ UNCHANGED <<updateVars, cache, readOk, ver, answer, due>>

\* The call of the agent fails, before or after its search: nothing is stored.
AskFails(r) ==
  /\ pc[r] \in {"asking", "searched"}
  /\ pc' = [pc EXCEPT ![r] = "failed"]
  /\ UNCHANGED <<updateVars, cache, readOk, ver, answer, due, writes>>

-----------------------------------------------------------------------------
(* Redis: a SET arrives, replacing what the key held, or is lost; a key     *)
(* expires.  The version key has no TTL.                                    *)

SameKey(e, f) == e.question = f.question /\ e.version = f.version

\* A new entry replaces the one under its key.
Stored(e) ==
  /\ writes' = writes \ {e}
  /\ cache' = {f \in cache : ~SameKey(e, f)} \cup {e}
  /\ UNCHANGED <<updateVars, chatVars>>

Dropped(e) ==
  /\ writes' = writes \ {e}
  /\ UNCHANGED <<updateVars, cache, chatVars>>

Expire(e) ==
  /\ cache' = cache \ {e}
  /\ UNCHANGED <<updateVars, chatVars, writes>>

-----------------------------------------------------------------------------
Run(u)  == Commit(u) \/ Increment(u) \/ IncrementFails(u)
Chat(r) == ReadVersion(r) \/ LookupHits(r) \/ LookupMisses(r)
           \/ Search(r) \/ Respond(r) \/ AskFails(r)

Next ==
  \/ \E u \in Update : Run(u)
  \/ \E r \in Request : Chat(r)
  \/ \E e \in writes : Stored(e) \/ Dropped(e)
  \/ \E e \in cache : Expire(e)

Spec == Init /\ [][Next]_vars
-----------------------------------------------------------------------------
\* A request that read the version is never answered with less than every
\* update whose increment had followed its commit when the request began: not
\* from an answer that was computed before the update and stored after it, nor
\* from one stored by a request that fell back to version 0.
FreshAnswer ==
  \A r \in Request : pc[r] \in {"hit", "searched", "answered"} /\ readOk[r] => due[r] \subseteq answer[r]

\* Specification of the semantic cache: after a document update every lookup
\* of the project uses the new version, old entries are out of reach.  It makes
\* no exception for a request that could not read the version.
UpdateInvalidates ==
  \A r \in Request : pc[r] = "hit" => due[r] \subseteq answer[r]

-----------------------------------------------------------------------------
\* The updates that whoever uses version v must see.
DueAt(v) == {u \in Update : announced[u] = "done" /\ number[u] <= v}

\* Every stored answer, or one on its way, contains what its version promises;
\* no version that is in use lies ahead of the counter.
Honest(e) == e.version <= version /\ DueAt(e.version) \subseteq e.data

NumbersAgree ==
  \A u \in Update :
    /\ number[u] <= version
    /\ announced[u] = "done" => u \in committed /\ number[u] > 0

EntriesHonest == \A e \in cache \cup writes : Honest(e)

RequestsAgree ==
  \A r \in Request :
    /\ pc[r] = "new" => ~readOk[r]
    /\ ver[r] <= version
    /\ readOk[r] => due[r] \subseteq DueAt(ver[r])
    /\ due[r] \subseteq committed
    /\ pc[r] = "searched" => DueAt(ver[r]) \subseteq answer[r]

IInv ==
  /\ TypeOK
  /\ NumbersAgree
  /\ EntriesHonest
  /\ RequestsAgree
  /\ FreshAnswer
=============================================================================
