----------------------------- MODULE Resilience -----------------------------
(***************************************************************************)
(* How the gateway calls the Python agent for one operation: the retry      *)
(* policy around the circuit breaker around one HTTP request with a         *)
(* deadline, and the status the client is answered with.  Calls run         *)
(* concurrently and share the breaker.  client.go wires the two layers      *)
(* independently of each other: production has both, and calls of a client  *)
(* that has retries only are made here beside them.                         *)
(***************************************************************************)
EXTENDS CircuitBreaker, FiniteSets

\* What doRequest returns; "other" is an answer that cannot be read or parsed.
AllOutcomes == {"ok", "timeout", "unavailable", "notfound", "validation", "other"}

CONSTANTS
  Call,         \* calls of the operation, from any number of clients
  Guarded,      \* those of a client built with breakers
  HasRetry,     \* whether it was built with a retry policy
  MaxRetries,   \* additional attempts (RETRY_MAX_RETRIES; NewPolicy makes 0 the default)
  Outcome       \* what the agent's side is seen to do

ASSUME ResilienceAssumption ==
  /\ Guarded \subseteq Call
  /\ HasRetry \in BOOLEAN
  /\ MaxRetries \in Nat \ {0}
  /\ Outcome \subseteq AllOutcomes

VARIABLES
  pc,      \* where each call stands
  tries,   \* attempts it has begun
  gen,     \* generation its last admitted attempt belongs to
  error    \* what its last attempt returned: kind, and whether it is wrapped

callVars == <<pc, tries, gen, error>>
vars     == <<breaker, callVars>>

Kind == Outcome \cup {"none", "open", "toomany", "cancelled"}

Retryable == {"timeout", "unavailable"}   \* the sentinels given to NewPolicy

TypeOK ==
  /\ BreakerTypeOK
  /\ pc \in [Call -> {"new", "attempt", "flight", "backoff", "done"}]
  /\ tries \in [Call -> 0..(MaxRetries + 1)]
  /\ gen \in [Call -> Nat \cup {-1}]
  /\ error \in [Call -> [kind : Kind, wrapped : BOOLEAN]]

Plain(k)   == [kind |-> k, wrapped |-> FALSE]
Wrapped(k) == [kind |-> k, wrapped |-> TRUE]

Init ==
  /\ BreakerInit
  /\ pc = [c \in Call |-> "new"]
  /\ tries = [c \in Call |-> 0]
  /\ gen = [c \in Call |-> -1]
  /\ error = [c \in Call |-> Plain("none")]

\* Faulty variant: one retry less than configured.
ShouldRetryLess(c, e) == HasRetry /\ e.kind \in Retryable /\ ~e.wrapped /\ tries[c] < MaxRetries

\* isRetryable compares with ==, so an error wrapped by the breaker is none of
\* the sentinels.
ShouldRetry(c, e) == HasRetry /\ e.kind \in Retryable /\ ~e.wrapped /\ tries[c] <= MaxRetries

Finish(c, e) ==
  /\ error' = [error EXCEPT ![c] = e]
  /\ pc' = [pc EXCEPT ![c] = IF ShouldRetry(c, e) THEN "backoff" ELSE "done"]

-----------------------------------------------------------------------------
Arrive(c) ==
  /\ pc[c] = "new"
  /\ pc' = [pc EXCEPT ![c] = "attempt"]
  /\ UNCHANGED <<breaker, tries, gen, error>>

Depart(c) ==
  /\ pc[c] = "attempt"
  /\ pc' = [pc EXCEPT ![c] = "flight"]
  /\ tries' = [tries EXCEPT ![c] = @ + 1]
  /\ UNCHANGED error

\* An attempt without a breaker, or one that the breaker admits.
SendUnguarded(c) ==
  /\ c \notin Guarded
  /\ Depart(c)
  /\ UNCHANGED <<breaker, gen>>

SendAdmitted(c) ==
  /\ c \in Guarded /\ Admit
  /\ Depart(c)
  /\ gen' = [gen EXCEPT ![c] = NowGen]

\* Faulty variant: a refusal is treated as transient.
RefusedWaits(c) ==
  /\ pc[c] = "attempt" /\ c \in Guarded
  /\ RefusesOpen \/ RefusesTooMany
  /\ pc' = [pc EXCEPT ![c] = "backoff"]
  /\ UNCHANGED <<breaker, tries, gen, error>>

\* An attempt that the breaker refuses.  Only ErrOpenState is given a sentinel
\* of the gateway's own; anything else is wrapped.
Refused(c) ==
  /\ pc[c] = "attempt" /\ c \in Guarded
  /\ tries' = [tries EXCEPT ![c] = @ + 1]
  /\ error' = [error EXCEPT ![c] = IF RefusesOpen THEN Plain("open") ELSE Wrapped("toomany")]
  /\ pc' = [pc EXCEPT ![c] = "done"]
  /\ RefusesOpen \/ RefusesTooMany
  /\ UNCHANGED <<breaker, gen>>

\* The request ends: an answer, the deadline, a broken connection, or a client
\* that has gone, which counts as unavailable.
ReturnUnguarded(c) ==
  /\ pc[c] = "flight" /\ c \notin Guarded
  /\ \E k \in Outcome : Finish(c, Plain(k))
  /\ UNCHANGED <<breaker, tries, gen>>

\* Through the breaker every error, a bad request included, is a failure.
ReturnGuarded(c) ==
  /\ pc[c] = "flight" /\ c \in Guarded
  /\ \E k \in Outcome :
       /\ AfterRequest(gen[c], k = "ok")
       /\ Finish(c, IF k = "ok" THEN Plain(k) ELSE Wrapped(k))
  /\ UNCHANGED <<tries, gen>>

\* The backoff ends, or the client's context does.
BackoffEnds(c) ==
  /\ pc[c] = "backoff"
  /\ pc' = [pc EXCEPT ![c] = "attempt"]
  /\ UNCHANGED <<breaker, tries, gen, error>>

BackoffCancelled(c) ==
  /\ pc[c] = "backoff"
  /\ pc' = [pc EXCEPT ![c] = "done"]
  /\ error' = [error EXCEPT ![c] = Plain("cancelled")]
  /\ UNCHANGED <<breaker, tries, gen>>

-----------------------------------------------------------------------------
Proceed(c) ==
  \/ SendUnguarded(c) \/ SendAdmitted(c) \/ Refused(c)
  \/ ReturnUnguarded(c) \/ ReturnGuarded(c)
  \/ BackoffEnds(c) \/ BackoffCancelled(c)

Next ==
  \/ \E c \in Call : Arrive(c) \/ Proceed(c)
  \/ TimeoutPasses /\ UNCHANGED callVars

\* Requests have deadlines and backoffs are timers, so a call that has arrived
\* moves on; clients need not come.
Spec == Init /\ [][Next]_vars /\ \A c \in Call : WF_vars(Proceed(c))

-----------------------------------------------------------------------------
Probing(c) == pc[c] = "flight" /\ gen[c] = generation
Ended(c)   == pc[c] = "done" /\ gen[c] # -1

\* A half-open circuit is never stuck: while it refuses further probes, one of
\* those it admitted in this period is still on its way and will decide.
NeverWedged ==
  state = "half-open" /\ requests >= MaxRequests => \E c \in Call : Probing(c)

\* The circuit closes again only on the word of MaxRequests probes of the
\* half-open period before, all of them; a slow success of a call from before
\* the circuit opened does not count, nor does one probe among failing ones.
ClosedByProbes ==
  state = "closed" /\ generation > 0 =>
    /\ Cardinality({c \in Call : gen[c] = generation - 1}) = MaxRequests
    /\ \A c \in Call : gen[c] = generation - 1 => pc[c] = "done" /\ error[c].kind = "ok"

\* It is open because of calls of the period before: a probe that failed, or as
\* many calls as the threshold; late failures of older calls do not count.
OpenedByFailures ==
  state = "open" =>
    LET failed == {c \in Call : gen[c] = generation - 1 /\ Ended(c) /\ error[c].kind # "ok"}
    IN  failed # {} /\ (generation = 1 => Cardinality(failed) >= FailureThreshold)

\* Every call that arrives is answered: neither the breaker nor the retries
\* hold one for ever.
Answered == \A c \in Call : pc[c] = "attempt" ~> pc[c] = "done"

\* What a call has left to do at most: for each attempt a request, its end, and a
\* backoff.
StepsLeft(c) ==
  CASE pc[c] = "done" -> 0
    [] pc[c] = "flight"  -> 3 * (MaxRetries + 1 - tries[c]) + 2
    [] pc[c] = "backoff" -> 3 * (MaxRetries + 1 - tries[c]) + 1
    [] pc[c] \in {"new", "attempt"} -> 3 * (MaxRetries + 1 - tries[c])

\* Why: each of its steps leaves it less, whatever the breaker says and whatever
\* comes back, and other calls and the clock leave it as it is.
CallsShrink ==
  [][\A c \in Call : IF Proceed(c) THEN StepsLeft(c)' < StepsLeft(c) ELSE StepsLeft(c)' = StepsLeft(c)]_vars

TriedEnough(c) == pc[c] = "done" /\ error[c].kind \in Retryable => tries[c] = MaxRetries + 1

\* Where no breaker comes in between, a timeout or an unavailable agent is
\* reported to the client after exactly the attempts the policy allows.
RetriedUntilExhausted == HasRetry => \A c \in Call \ Guarded : TriedEnough(c)

\* Feature 2.3 says so of every call; but errors come out of the breaker wrapped.
RetriedThroughBreaker == HasRetry => \A c \in Guarded : TriedEnough(c)

-----------------------------------------------------------------------------
(* The answer of handlePythonError.                                         *)

StatusOf(k) ==
  CASE k = "ok"          -> 200
    [] k = "open"        -> 503
    [] k = "timeout"     -> 504
    [] k = "unavailable" -> 502
    [] k = "notfound"    -> 404
    [] k = "validation"  -> 400
    [] OTHER             -> 500

\* Feature 2.2: a call the breaker turns away is answered 503.
RefusedIs503 ==
  \A c \in Call : pc[c] = "done" /\ error[c].kind \in {"open", "toomany"} => StatusOf(error[c].kind) = 503
=============================================================================
