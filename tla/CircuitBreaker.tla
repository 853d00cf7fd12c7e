--------------------------- MODULE CircuitBreaker ---------------------------
(***************************************************************************)
(* One breaker of the gateway's BreakerGroup: a gobreaker with the settings *)
(* of getOrCreate (no periodic reset while closed, opened by consecutive    *)
(* failures).  Its methods run under its mutex, so each is one step of a    *)
(* caller.  A result is counted only in the generation that admitted it.    *)
(* The counts no decision reads, such as requests while closed, are left    *)
(* out.                                                                     *)
(***************************************************************************)
EXTENDS Integers

CONSTANTS
  MaxRequests,       \* probes admitted while half-open (CIRCUIT_MAX_REQUESTS)
  FailureThreshold   \* consecutive failures that open (CIRCUIT_FAILURE_THRESHOLD)

ASSUME BreakerAssumption ==
  /\ MaxRequests \in Nat \ {0}
  /\ FailureThreshold \in Nat \ {0}

VARIABLES
  state,       \* closed, open, half-open
  generation,  \* number of state changes so far
  requests,    \* probes admitted in this generation, while half-open
  successes,   \* consecutive successes in it, while half-open
  failures,    \* consecutive failures in it, while closed
  expired      \* CIRCUIT_TIMEOUT has passed since it opened

breaker == <<state, generation, requests, successes, failures, expired>>

BreakerTypeOK ==
  /\ state \in {"closed", "open", "half-open"}
  /\ generation \in Nat
  /\ requests \in 0..MaxRequests
  /\ successes \in 0..(MaxRequests - 1)
  /\ failures \in 0..(FailureThreshold - 1)
  /\ expired \in BOOLEAN

BreakerInit ==
  /\ state = "closed"
  /\ generation = 0
  /\ requests = 0
  /\ successes = 0
  /\ failures = 0
  /\ expired = FALSE

\* What a method finds when it looks at the clock: an open circuit whose time
\* has passed is half-open, in a generation of its own.
Reopening == state = "open" /\ expired
Now       == IF Reopening THEN "half-open" ELSE state
NowGen    == IF Reopening THEN generation + 1 ELSE generation

Settle ==
  /\ state' = Now
  /\ generation' = NowGen
  /\ expired' = (expired /\ ~Reopening)

Enter(s) ==
  /\ state' = s
  /\ generation' = NowGen + 1
  /\ requests' = 0
  /\ successes' = 0
  /\ failures' = 0
  /\ expired' = FALSE

\* beforeRequest: ErrOpenState, ErrTooManyRequests, or admitted.
RefusesOpen    == Now = "open"
RefusesTooMany == Now = "half-open" /\ requests >= MaxRequests

Admit ==
  /\ ~RefusesOpen /\ ~RefusesTooMany
  /\ Settle
  /\ requests' = IF Now = "half-open" THEN requests + 1 ELSE requests
  /\ UNCHANGED <<successes, failures>>

\* Faulty variant: results count whatever generation admitted them.
AfterRequestAnyGeneration(g, ok) ==
  CASE Now = "half-open" /\ ~ok -> Enter("open")
    [] Now = "half-open" /\ ok /\ successes + 1 >= MaxRequests -> Enter("closed")
    [] Now = "half-open" /\ ok /\ successes + 1 < MaxRequests ->
         Settle /\ successes' = successes + 1 /\ UNCHANGED <<requests, failures>>
    [] Now = "closed" /\ ~ok /\ failures + 1 >= FailureThreshold -> Enter("open")
    [] Now = "closed" /\ ~ok /\ failures + 1 < FailureThreshold ->
         Settle /\ failures' = failures + 1 /\ UNCHANGED <<requests, successes>>
    [] OTHER -> Settle /\ UNCHANGED <<requests, successes, failures>>

\* Faulty variant: a failed probe does not reopen the circuit.
AfterRequestForgiving(g, ok) ==
  CASE g = NowGen /\ Now = "half-open" /\ ok /\ successes + 1 >= MaxRequests -> Enter("closed")
    [] g = NowGen /\ Now = "half-open" /\ ok /\ successes + 1 < MaxRequests ->
         Settle /\ successes' = successes + 1 /\ UNCHANGED <<requests, failures>>
    [] g = NowGen /\ Now = "closed" /\ ~ok /\ failures + 1 >= FailureThreshold -> Enter("open")
    [] g = NowGen /\ Now = "closed" /\ ~ok /\ failures + 1 < FailureThreshold ->
         Settle /\ failures' = failures + 1 /\ UNCHANGED <<requests, successes>>
    [] OTHER -> Settle /\ UNCHANGED <<requests, successes, failures>>

\* afterRequest, with the generation beforeRequest returned.  In the closed
\* state a success clears the failures.
AfterRequest(g, ok) ==
  CASE g # NowGen -> Settle /\ UNCHANGED <<requests, successes, failures>>
    [] g = NowGen /\ Now = "half-open" /\ ~ok -> Enter("open")
    [] g = NowGen /\ Now = "half-open" /\ ok /\ successes + 1 >= MaxRequests -> Enter("closed")
    [] g = NowGen /\ Now = "half-open" /\ ok /\ successes + 1 < MaxRequests ->
         Settle /\ successes' = successes + 1 /\ UNCHANGED <<requests, failures>>
    [] g = NowGen /\ Now = "closed" /\ ~ok /\ failures + 1 >= FailureThreshold -> Enter("open")
    [] g = NowGen /\ Now = "closed" /\ ~ok /\ failures + 1 < FailureThreshold ->
         Settle /\ failures' = failures + 1 /\ UNCHANGED <<requests, successes>>
    [] g = NowGen /\ Now = "closed" /\ ok -> Settle /\ failures' = 0 /\ UNCHANGED <<requests, successes>>

\* The timeout of the open state passes; only the next caller notices.
TimeoutPasses ==
  /\ state = "open" /\ ~expired
  /\ expired' = TRUE
  /\ UNCHANGED <<state, generation, requests, successes, failures>>
=============================================================================
