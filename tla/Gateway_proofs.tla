--------------------------- MODULE Gateway_proofs ---------------------------
(***************************************************************************)
(* What keeps the gateway from overload: the breaker and the retries on the  *)
(* way to the agent, and the rate limiters in front of everything.           *)
(***************************************************************************)
EXTENDS Resilience, RateLimiter, FiniteSetTheorems, Induction, TLAPS

-----------------------------------------------------------------------------
(* Resilience.                                                              *)

\* The calls that a generation admitted, and those of them that have ended.
Calls(g)     == {c \in Call : gen[c] = g}
Good(c)      == pc[c] = "done" /\ error[c].kind = "ok"
Bad(c)       == pc[c] = "done" /\ error[c].kind # "ok"
Succeeded(g) == {c \in Calls(g) : Good(c)}
Failed(g)    == {c \in Calls(g) : Bad(c)}

\* A guarded call is admitted once; one without a breaker counts its attempts.
CallInv(c) ==
  /\ gen[c] <= generation
  /\ c \in Guarded =>
       /\ pc[c] \in {"new", "attempt"} => gen[c] = -1 /\ tries[c] = 0
       /\ pc[c] = "flight" => gen[c] # -1
       /\ pc[c] # "backoff"
  /\ c \notin Guarded =>
       /\ gen[c] = -1
       /\ pc[c] = "new" => tries[c] = 0
       /\ pc[c] \in {"attempt", "backoff"} => tries[c] <= MaxRetries
       /\ HasRetry => TriedEnough(c)

ClosedInv ==
  state = "closed" =>
    /\ requests = 0 /\ successes = 0
    /\ failures <= Cardinality(Failed(generation))
    /\ generation > 0 =>
         /\ Cardinality(Calls(generation - 1)) = MaxRequests
         /\ \A c \in Calls(generation - 1) : Good(c)

OpenInv ==
  state = "open" =>
    /\ requests = 0 /\ successes = 0 /\ failures = 0
    /\ generation > 0
    /\ Calls(generation) = {}
    /\ Failed(generation - 1) # {}
    /\ generation = 1 => Cardinality(Failed(0)) >= FailureThreshold

HalfOpenInv ==
  state = "half-open" =>
    /\ failures = 0
    /\ generation > 1
    /\ requests = Cardinality(Calls(generation))
    /\ successes = Cardinality(Succeeded(generation))
    /\ \A c \in Calls(generation) : pc[c] = "flight" \/ Good(c)

PeriodInv ==
  /\ \A g \in Nat : IsFiniteSet(Calls(g))
  /\ expired => state = "open"
  /\ ClosedInv /\ OpenInv /\ HalfOpenInv

GuardInv ==
  /\ TypeOK
  /\ \A c \in Call : CallInv(c)
  /\ PeriodInv

-----------------------------------------------------------------------------
LEMMA InitGuard == Init => GuardInv
<1> SUFFICES ASSUME Init PROVE GuardInv
  OBVIOUS
<1> USE BreakerAssumption, ResilienceAssumption DEF Init, BreakerInit, Plain
<1>1. TypeOK
  <2>1. BreakerTypeOK
    <3>1. 0 \in 0..MaxRequests /\ 0 \in 0..(MaxRequests - 1) /\ 0 \in 0..(FailureThreshold - 1)
      BY SMT
    <3> QED BY <3>1 DEF BreakerTypeOK
  <2>2. "none" \in Kind
    BY DEF Kind
  <2>3. Plain("none") \in [kind : Kind, wrapped : BOOLEAN]
    BY <2>2
  <2> QED BY <2>1, <2>3 DEF TypeOK
<1>2. \A c \in Call : CallInv(c)
  BY DEF CallInv, TriedEnough
<1>3. \A g \in Nat : Calls(g) = {} /\ Failed(g) = {}
  BY DEF Calls, Failed
<1>4. PeriodInv
  BY <1>3, FS_EmptySet DEF PeriodInv, ClosedInv, OpenInv, HalfOpenInv
<1> QED BY <1>1, <1>2, <1>4 DEF GuardInv

\* A step that leaves alone who was admitted, and who has ended.
LEMMA SameSets ==
  ASSUME GuardInv, gen' = gen, 
         \A c \in Call : gen[c] # -1 => pc'[c] = pc[c] /\ error'[c] = error[c]
  PROVE  \A g \in Nat : Calls(g)' = Calls(g) /\ Succeeded(g)' = Succeeded(g) /\ Failed(g)' = Failed(g)
  BY DEF GuardInv, TypeOK, Calls, Succeeded, Failed, Good, Bad

LEMMA SamePeriod ==
  ASSUME GuardInv, gen' = gen, UNCHANGED <<state, generation, requests, successes, failures>>,
         expired' => state = "open",
         \A c \in Call : gen[c] # -1 => pc'[c] = pc[c] /\ error'[c] = error[c]
  PROVE  PeriodInv'
<1>1. \A g \in Nat : Calls(g)' = Calls(g) /\ Succeeded(g)' = Succeeded(g) /\ Failed(g)' = Failed(g)
  BY SameSets
<1>2. \A c \in Call : gen[c] \in Nat \cup {-1}
  BY DEF GuardInv, TypeOK
<1>3. \A g \in Nat : \A c \in Calls(g) : pc'[c] = pc[c] /\ error'[c] = error[c]
  BY DEF Calls
<1>4. generation \in Nat /\ (generation > 0 => generation - 1 \in Nat)
  BY DEF GuardInv, TypeOK, BreakerTypeOK
<1>5. PeriodInv
  BY DEF GuardInv
<1>6. ClosedInv'
  BY <1>1, <1>3, <1>4, <1>5 DEF PeriodInv, ClosedInv, Good
<1>7. OpenInv'
  BY <1>1, <1>4, <1>5 DEF PeriodInv, OpenInv
<1>8. HalfOpenInv'
  BY <1>1, <1>3, <1>4, <1>5 DEF PeriodInv, HalfOpenInv, Good
<1> QED BY <1>1, <1>5, <1>6, <1>7, <1>8 DEF PeriodInv

-----------------------------------------------------------------------------
LEMMA CountOne ==
  ASSUME NEW S, IsFiniteSet(S), NEW x, x \notin S
  PROVE  /\ IsFiniteSet(S \cup {x})
         /\ Cardinality(S) \in Nat
         /\ Cardinality(S \cup {x}) = Cardinality(S) + 1
  BY FS_AddElement, FS_CardinalityType

LEMMA CountPart ==
  ASSUME NEW S, IsFiniteSet(S), NEW T, T \subseteq S
  PROVE  /\ IsFiniteSet(T)
         /\ Cardinality(T) \in Nat /\ Cardinality(S) \in Nat
         /\ Cardinality(T) <= Cardinality(S)
         /\ Cardinality(T) = Cardinality(S) => T = S
  BY FS_Subset, FS_CardinalityType

\* Those of a generation that ended are finitely many.
LEMMA Finite ==
  ASSUME GuardInv, NEW g \in Nat
  PROVE  /\ IsFiniteSet(Calls(g)) /\ IsFiniteSet(Succeeded(g)) /\ IsFiniteSet(Failed(g))
         /\ Cardinality(Calls(g)) \in Nat /\ Cardinality(Succeeded(g)) \in Nat
         /\ Cardinality(Failed(g)) \in Nat
         /\ Cardinality(Succeeded(g)) <= Cardinality(Calls(g))
         /\ Cardinality(Succeeded(g)) = Cardinality(Calls(g)) => Succeeded(g) = Calls(g)
<1>1. IsFiniteSet(Calls(g))
  BY DEF GuardInv, PeriodInv
<1>2. Succeeded(g) \subseteq Calls(g) /\ Failed(g) \subseteq Calls(g)
  BY DEF Succeeded, Failed
<1> QED BY <1>1, <1>2, CountPart

\* What the half-open circuit knows, whether it was noticed already or not.
LEMMA HalfOpenNow ==
  ASSUME GuardInv, NEW n \in Nat, n = NowGen, Now = "half-open"
  PROVE  /\ failures = 0 /\ n > 1 /\ requests = Cardinality(Calls(n))
         /\ successes = Cardinality(Succeeded(n))
         /\ \A d \in Calls(n) : pc[d] = "flight" \/ Good(d)
<1>1. PeriodInv /\ TypeOK /\ BreakerTypeOK
  BY DEF GuardInv, TypeOK
<1>2. CASE ~Reopening
  BY <1>1, <1>2 DEF PeriodInv, HalfOpenInv, Now, NowGen
<1>3. CASE Reopening
  <2>1. Calls(n) = {}
    BY <1>1, <1>3 DEF GuardInv, Calls, CallInv, NowGen, TypeOK, BreakerTypeOK
  <2>2. Succeeded(n) = {}
    BY <2>1 DEF Succeeded
  <2>3. requests = 0 /\ successes = 0 /\ failures = 0 /\ generation > 0
    BY <1>1, <1>3 DEF PeriodInv, OpenInv, Reopening
  <2> QED BY <1>1, <1>3, <2>1, <2>2, <2>3, FS_EmptySet DEF NowGen, BreakerTypeOK
<1> QED BY <1>2, <1>3

-----------------------------------------------------------------------------
LEMMA AdmitKeeps ==
  ASSUME GuardInv, NEW c \in Call, SendAdmitted(c)
  PROVE  GuardInv'
<1> USE BreakerAssumption, ResilienceAssumption
<1>1. /\ TypeOK /\ BreakerTypeOK /\ PeriodInv /\ CallInv(c) /\ \A d \in Call : CallInv(d)
  BY DEF GuardInv, TypeOK
<1>2. /\ pc[c] = "attempt" /\ c \in Guarded /\ pc' = [pc EXCEPT ![c] = "flight"]
      /\ tries' = [tries EXCEPT ![c] = @ + 1] /\ error' = error /\ gen' = [gen EXCEPT ![c] = NowGen]
  BY DEF SendAdmitted, Depart
<1>3. /\ state' = Now /\ generation' = NowGen /\ expired' = (expired /\ ~Reopening)
      /\ successes' = successes /\ failures' = failures
      /\ Now # "open" /\ (Now = "half-open" => requests < MaxRequests /\ requests' = requests + 1)
      /\ (Now # "half-open" => requests' = requests)
  BY <1>1 DEF SendAdmitted, Admit, Settle, RefusesOpen, RefusesTooMany, BreakerTypeOK
<1>4. gen[c] = -1 /\ tries[c] = 0
  BY <1>1, <1>2 DEF CallInv
<1>5. /\ NowGen \in Nat /\ NowGen >= generation /\ generation \in Nat
      /\ Now \in {"closed", "half-open"}
      /\ requests' \in 0..MaxRequests
      /\ expired' \in BOOLEAN
  BY <1>1, <1>3 DEF NowGen, Now, Reopening, BreakerTypeOK
<1>6. TypeOK'
  <2>1. BreakerTypeOK'
    BY <1>1, <1>3, <1>5 DEF BreakerTypeOK
  <2>2. pc' \in [Call -> {"new", "attempt", "flight", "backoff", "done"}] /\ error' \in [Call -> [kind : Kind', wrapped : BOOLEAN]]
    BY <1>1, <1>2 DEF TypeOK, Kind
  <2>3. tries' \in [Call -> 0..(MaxRetries + 1)]
    BY <1>1, <1>2, <1>4 DEF TypeOK
  <2>4. gen' \in [Call -> Nat \cup {-1}]
    BY <1>1, <1>2, <1>5 DEF TypeOK
  <2> QED BY <2>1, <2>2, <2>3, <2>4 DEF TypeOK
<1>7. ASSUME NEW d \in Call PROVE CallInv(d)'
  <2>1. CallInv(d) /\ gen[d] \in Nat \cup {-1}
    BY <1>1 DEF TypeOK
  <2>2. CASE d = c
    BY <1>1, <1>2, <1>3, <1>4, <1>5, <2>2 DEF CallInv, TypeOK
  <2>3. CASE d # c
    <3>1. pc'[d] = pc[d] /\ tries'[d] = tries[d] /\ gen'[d] = gen[d] /\ error'[d] = error[d]
      BY <1>1, <1>2, <2>3 DEF TypeOK
    <3>2. gen'[d] <= generation'
      BY <1>3, <1>5, <2>1, <3>1 DEF CallInv
    <3> QED BY <2>1, <3>1, <3>2 DEF CallInv, TriedEnough
  <2> QED BY <2>2, <2>3
<1>n. PICK n \in Nat : n = NowGen
  BY <1>5
<1>8. c \notin Calls(n)
  BY <1>n, <1>4, <1>5 DEF Calls
<1>9. /\ Calls(n)' = Calls(n) \cup {c}
      /\ \A g \in Nat : g # n => Calls(g)' = Calls(g)
  BY <1>n, <1>1, <1>2, <1>4 DEF Calls, TypeOK
<1>10. \A g \in Nat : Succeeded(g)' = Succeeded(g) /\ Failed(g)' = Failed(g)
  BY <1>1, <1>2, <1>4, <1>5 DEF Succeeded, Failed, Calls, Good, Bad, TypeOK
<1>11. \A g \in Nat : \A d \in Calls(g) : pc'[d] = pc[d] /\ error'[d] = error[d]
  BY <1>1, <1>2, <1>4 DEF Calls, TypeOK
<1>12. /\ IsFiniteSet(Calls(n) \cup {c})
       /\ Cardinality(Calls(n)) \in Nat
       /\ Cardinality(Calls(n) \cup {c}) = Cardinality(Calls(n)) + 1
  BY <1>8, Finite, CountOne
<1>13. \A g \in Nat : IsFiniteSet(Calls(g)')
  BY <1>1, <1>9, <1>12 DEF PeriodInv
<1>14. generation > 0 => generation - 1 \in Nat
  BY <1>5
<1>15. ClosedInv'
  <2>1. SUFFICES ASSUME state' = "closed" PROVE ClosedInv'
    BY DEF ClosedInv
  <2>2. state = "closed" /\ NowGen = generation /\ Now # "half-open"
    BY <1>3, <2>1 DEF Now, NowGen, Reopening
  <2>3. generation > 0 => Calls(generation - 1)' = Calls(generation - 1)
    BY <1>n, <1>3, <1>9, <1>14, <2>2, <1>5
  <2>4. \A d \in Calls(generation - 1) : generation > 0 => Good(d)' = Good(d)
    BY <1>11, <1>14 DEF Good
  <2>5. ClosedInv
    BY <1>1 DEF PeriodInv
  <2> QED BY <1>n, <1>3, <1>5, <1>10, <2>2, <2>3, <2>4, <2>5 DEF ClosedInv
<1>16. OpenInv'
  BY <1>3 DEF OpenInv
<1>17. HalfOpenInv'
  <2>1. SUFFICES ASSUME state' = "half-open" PROVE HalfOpenInv'
    BY DEF HalfOpenInv
  <2>2. requests' = requests + 1
    BY <1>3, <2>1
  <2>3. failures = 0 /\ n > 1 /\ requests = Cardinality(Calls(n))
        /\ successes = Cardinality(Succeeded(n))
        /\ \A d \in Calls(n) : pc[d] = "flight" \/ Good(d)
    BY <1>n, <1>3, <2>1, HalfOpenNow
  <2>4. requests' = Cardinality(Calls(n)')
    BY <1>9, <1>12, <2>2, <2>3
  <2>5. successes' = Cardinality(Succeeded(n)')
    BY <1>3, <1>5, <1>10, <2>3
  <2>6. ASSUME NEW d \in Calls(n)' PROVE pc'[d] = "flight" \/ Good(d)'
    <3>1. CASE d = c
      BY <1>1, <1>2, <3>1 DEF TypeOK
    <3>2. CASE d \in Calls(n)
      BY <1>5, <1>11, <2>3, <3>2 DEF Good
    <3> QED BY <1>9, <3>1, <3>2
  <2> QED BY <1>n, <1>3, <2>3, <2>4, <2>5, <2>6 DEF HalfOpenInv
<1>18. PeriodInv'
  <2>1. expired' => state' = "open"
    BY <1>1, <1>3 DEF PeriodInv, Reopening
  <2> QED BY <1>13, <1>15, <1>16, <1>17, <2>1 DEF PeriodInv
<1> QED BY <1>6, <1>7, <1>18 DEF GuardInv

\* How a result changes the sets.
LEMMA ReturnSets ==
  ASSUME GuardInv, NEW c \in Call, pc[c] = "flight", gen' = gen,
         pc' = [pc EXCEPT ![c] = "done"], NEW e, error' = [error EXCEPT ![c] = e]
  PROVE  \A g \in Nat :
           /\ Calls(g)' = Calls(g)
           /\ c \notin Succeeded(g) /\ c \notin Failed(g)
           /\ Succeeded(g)' = IF gen[c] = g /\ e.kind = "ok" THEN Succeeded(g) \cup {c} ELSE Succeeded(g)
           /\ Failed(g)' = IF gen[c] = g /\ e.kind # "ok" THEN Failed(g) \cup {c} ELSE Failed(g)
           /\ \A d \in Calls(g) : Good(d) => Good(d)'
<1>1. pc \in [Call -> {"new", "attempt", "flight", "backoff", "done"}]
      /\ error \in [Call -> [kind : Kind, wrapped : BOOLEAN]] /\ gen \in [Call -> Nat \cup {-1}]
  BY DEF GuardInv, TypeOK
<1>2. \A d \in Call : d # c => pc'[d] = pc[d] /\ error'[d] = error[d]
  BY <1>1
<1>3. pc'[c] = "done" /\ error'[c] = e
  BY <1>1
<1> QED BY <1>2, <1>3 DEF Calls, Succeeded, Failed, Good, Bad

LEMMA ReturnKeeps ==
  ASSUME GuardInv, NEW c \in Call, ReturnGuarded(c)
  PROVE  GuardInv'
<1> USE BreakerAssumption, ResilienceAssumption
<1>1. /\ TypeOK /\ BreakerTypeOK /\ PeriodInv /\ CallInv(c) /\ \A d \in Call : CallInv(d)
  BY DEF GuardInv, TypeOK
<1>2. PICK k \in Outcome : /\ AfterRequest(gen[c], k = "ok")
                          /\ Finish(c, IF k = "ok" THEN Plain(k) ELSE Wrapped(k))
  BY DEF ReturnGuarded
<1> DEFINE e == IF k = "ok" THEN Plain(k) ELSE Wrapped(k)
<1>3. c \in Guarded /\ pc[c] = "flight" /\ tries' = tries /\ gen' = gen
  BY DEF ReturnGuarded
<1>4. e.kind = k /\ e \in [kind : Kind, wrapped : BOOLEAN]
  BY DEF Plain, Wrapped, Kind
<1>5. pc' = [pc EXCEPT ![c] = "done"] /\ error' = [error EXCEPT ![c] = e]
  BY <1>2 DEF Finish, ShouldRetry, Retryable, Plain, Wrapped
<1>6. PICK n \in Nat : n = NowGen
  BY <1>1 DEF NowGen, BreakerTypeOK
<1>7. gen[c] \in Nat /\ gen[c] <= generation
  BY <1>1, <1>3 DEF CallInv, TypeOK
<1>8. generation \in Nat /\ generation <= n /\ \A d \in Call : gen[d] <= generation /\ gen[d] \in Nat \cup {-1}
  BY <1>1, <1>6 DEF NowGen, BreakerTypeOK, CallInv, TypeOK
<1> HIDE DEF e
<1>9. \A g \in Nat :
           /\ Calls(g)' = Calls(g)
           /\ c \notin Succeeded(g) /\ c \notin Failed(g)
           /\ Succeeded(g)' = IF gen[c] = g /\ k = "ok" THEN Succeeded(g) \cup {c} ELSE Succeeded(g)
           /\ Failed(g)' = IF gen[c] = g /\ k # "ok" THEN Failed(g) \cup {c} ELSE Failed(g)
           /\ \A d \in Calls(g) : Good(d) => Good(d)'
  BY <1>3, <1>4, <1>5, ReturnSets
<1>10. ASSUME NEW g \in Nat
       PROVE  /\ Cardinality(Succeeded(g) \cup {c}) = Cardinality(Succeeded(g)) + 1
              /\ Cardinality(Failed(g) \cup {c}) = Cardinality(Failed(g)) + 1
              /\ Cardinality(Succeeded(g)) \in Nat /\ Cardinality(Failed(g)) \in Nat
  BY <1>9, Finite, CountOne
<1>11. Calls(n + 1)' = {} /\ Succeeded(n + 1)' = {} /\ Failed(n + 1)' = {}
  BY <1>3, <1>8 DEF Calls, Succeeded, Failed
<1>12. \A g \in Nat : IsFiniteSet(Calls(g)')
  BY <1>1, <1>9 DEF PeriodInv
<1>13. c \in Calls(gen[c])
  BY DEF Calls
<1>14. ASSUME BreakerTypeOK', generation' \in Nat, generation' >= generation, PeriodInv'
       PROVE  GuardInv'
  <2>1. /\ pc' \in [Call -> {"new", "attempt", "flight", "backoff", "done"}]
        /\ error' \in [Call -> [kind : Kind', wrapped : BOOLEAN]]
    BY <1>1, <1>4, <1>5 DEF TypeOK, Kind
  <2>2. TypeOK'
    BY <1>1, <1>3, <1>14, <2>1 DEF TypeOK
  <2>3. ASSUME NEW d \in Call PROVE CallInv(d)'
    <3>1. gen'[d] <= generation'
      BY <1>3, <1>8, <1>14
    <3>2. CASE d = c
      BY <1>1, <1>3, <1>5, <1>7, <3>1, <3>2 DEF CallInv, TypeOK
    <3>3. CASE d # c
      <4>1. CallInv(d) /\ pc'[d] = pc[d] /\ tries'[d] = tries[d] /\ gen'[d] = gen[d] /\ error'[d] = error[d]
        BY <1>1, <1>3, <1>5, <3>3 DEF TypeOK
      <4> QED BY <3>1, <4>1 DEF CallInv, TriedEnough
    <3> QED BY <3>2, <3>3
  <2> QED BY <1>14, <2>2, <2>3 DEF GuardInv
<1>z. 0 \in 0..MaxRequests /\ 0 \in 0..(MaxRequests - 1) /\ 0 \in 0..(FailureThreshold - 1)
  BY SMT
<1>15. Now \in {"closed", "open", "half-open"} /\ (expired => state = "open")
  BY <1>1 DEF Now, BreakerTypeOK, PeriodInv
<1>16. /\ generation > 0 => generation - 1 \in Nat
       /\ n > 0 => n - 1 \in Nat
       /\ n + 1 \in Nat /\ (n + 1) - 1 = n
  BY <1>8
<1>17. CASE gen[c] # n
  \* A result of an earlier period changes nothing but the clock's part.
  <2>1. state' = Now /\ generation' = n /\ expired' = (expired /\ ~Reopening)
        /\ requests' = requests /\ successes' = successes /\ failures' = failures
    BY <1>2, <1>6, <1>17 DEF AfterRequest, Settle
  <2>2. BreakerTypeOK'
    BY <1>1, <1>6, <1>15, <2>1 DEF BreakerTypeOK
  <2>3. Calls(n)' = Calls(n) /\ Succeeded(n)' = Succeeded(n) /\ Failed(n)' = Failed(n)
    BY <1>9, <1>17
  <2>4. ClosedInv'
    <3>1. SUFFICES ASSUME Now = "closed" PROVE ClosedInv'
      BY <2>1 DEF ClosedInv
    <3>2. state = "closed" /\ n = generation /\ ClosedInv
      BY <1>1, <1>6, <3>1 DEF Now, NowGen, Reopening, PeriodInv
    <3>3. n > 0 => /\ Calls(n - 1)' = Calls(n - 1)
                   /\ \A d \in Calls(n - 1) : Good(d)'
      BY <1>9, <1>16, <3>2 DEF ClosedInv
    <3> QED BY <2>1, <2>3, <3>2, <3>3 DEF ClosedInv
  <2>5. OpenInv'
    <3>1. SUFFICES ASSUME Now = "open" PROVE OpenInv'
      BY <2>1 DEF OpenInv
    <3>2. state = "open" /\ n = generation /\ OpenInv
      BY <1>1, <1>6, <3>1 DEF Now, NowGen, Reopening, PeriodInv
    <3>3. Failed(n - 1) \subseteq Failed(n - 1)'
      BY <1>9, <1>16, <3>2 DEF OpenInv
    <3>4. n = 1 => Cardinality(Failed(0)') >= Cardinality(Failed(0)) /\ Cardinality(Failed(0)) >= FailureThreshold
                   /\ Cardinality(Failed(0)') \in Nat /\ Cardinality(Failed(0)) \in Nat
      <4>1. SUFFICES ASSUME n = 1
                     PROVE  Cardinality(Failed(0)') >= Cardinality(Failed(0)) /\ Cardinality(Failed(0)) >= FailureThreshold
                            /\ Cardinality(Failed(0)') \in Nat /\ Cardinality(Failed(0)) \in Nat
        OBVIOUS
      <4>2. Cardinality(Failed(0)) >= FailureThreshold
        BY <3>2, <4>1 DEF OpenInv
      <4>3. Failed(0)' = Failed(0) \/ Failed(0)' = Failed(0) \cup {c}
        BY <1>9
      <4>4. Cardinality(Failed(0)) \in Nat /\ Cardinality(Failed(0) \cup {c}) = Cardinality(Failed(0)) + 1
        BY <1>10
      <4> QED BY <4>2, <4>3, <4>4
    <3>5. n = 1 => Cardinality(Failed(0)') >= FailureThreshold
      BY <3>4
    <3> QED BY <2>1, <2>3, <3>2, <3>3, <3>5 DEF OpenInv
  <2>6. HalfOpenInv'
    <3>1. SUFFICES ASSUME Now = "half-open" PROVE HalfOpenInv'
      BY <2>1 DEF HalfOpenInv
    <3>2. \A d \in Calls(n) : d # c
      BY <1>17 DEF Calls
    <3>3. \A d \in Calls(n) : pc'[d] = "flight" \/ Good(d)'
      BY <1>1, <1>5, <1>6, <1>9, <3>1, <3>2, HalfOpenNow DEF TypeOK, Calls
    <3> QED BY <1>6, <2>1, <2>3, <3>1, <3>3, HalfOpenNow DEF HalfOpenInv
  <2>7. expired' => state' = "open"
    BY <1>15, <2>1 DEF Now, Reopening
  <2>8. PeriodInv'
    BY <1>12, <2>4, <2>5, <2>6, <2>7 DEF PeriodInv
  <2> QED BY <1>8, <1>14, <2>1, <2>2, <2>8
<1>18. CASE gen[c] = n /\ Now = "half-open" /\ k # "ok"
  <2>1. state' = "open" /\ generation' = n + 1 /\ expired' = FALSE
        /\ requests' = 0 /\ successes' = 0 /\ failures' = 0
    BY <1>2, <1>6, <1>18 DEF AfterRequest, Enter
  <2>2. BreakerTypeOK'
    BY <1>z, <1>16, <2>1 DEF BreakerTypeOK
  <2>3. n > 1 /\ c \in Failed(n)'
    BY <1>6, <1>9, <1>18, HalfOpenNow
  <2>4. OpenInv'
    BY <1>11, <1>16, <2>1, <2>3 DEF OpenInv
  <2>5. PeriodInv'
    BY <1>12, <2>1, <2>4 DEF PeriodInv, ClosedInv, HalfOpenInv
  <2> QED BY <1>8, <1>14, <2>1, <2>2, <2>5
<1>19. CASE gen[c] = n /\ Now = "half-open" /\ k = "ok"
  <2>1. /\ failures = 0 /\ n > 1 /\ requests = Cardinality(Calls(n))
        /\ successes = Cardinality(Succeeded(n))
        /\ \A d \in Calls(n) : pc[d] = "flight" \/ Good(d)
    BY <1>6, <1>19, HalfOpenNow
  <2>2. /\ Succeeded(n)' = Succeeded(n) \cup {c}
        /\ Succeeded(n)' \subseteq Calls(n) /\ Calls(n)' = Calls(n)
        /\ Cardinality(Succeeded(n)') = successes + 1
    BY <1>9, <1>10, <1>13, <1>19, <2>1 DEF Succeeded
  <2>3. requests \in 0..MaxRequests /\ successes \in 0..(MaxRequests - 1)
    BY <1>1 DEF BreakerTypeOK
  <2>4. CASE successes + 1 >= MaxRequests
    <3>1. state' = "closed" /\ generation' = n + 1 /\ expired' = FALSE
          /\ requests' = 0 /\ successes' = 0 /\ failures' = 0
      <4>1. ~(successes + 1 < MaxRequests)
        BY <2>3, <2>4
      <4> QED BY <1>2, <1>6, <1>19, <2>4, <4>1 DEF AfterRequest, Enter
    <3>2. BreakerTypeOK'
      BY <1>z, <1>16, <3>1 DEF BreakerTypeOK
    <3>3. Cardinality(Succeeded(n)') <= Cardinality(Calls(n))
          /\ (Cardinality(Succeeded(n)') = Cardinality(Calls(n)) => Succeeded(n)' = Calls(n))
      BY <2>2, Finite, CountPart
    <3>4. Cardinality(Calls(n)) = MaxRequests /\ Cardinality(Succeeded(n)') = Cardinality(Calls(n))
      BY <2>1, <2>2, <2>3, <2>4, <3>3
    <3>5. \A d \in Calls(n)' : Good(d)'
      BY <2>2, <3>3, <3>4 DEF Succeeded
    <3>6. ClosedInv'
      <4>1. Cardinality(Failed(n + 1)') = 0
        BY <1>11, FS_EmptySet
      <4> QED BY <1>16, <2>2, <3>1, <3>4, <3>5, <4>1 DEF ClosedInv
    <3>7. PeriodInv'
      BY <1>12, <3>1, <3>6 DEF PeriodInv, OpenInv, HalfOpenInv
    <3> QED BY <1>8, <1>14, <3>1, <3>2, <3>7
  <2>5. CASE successes + 1 < MaxRequests
    <3>1. state' = "half-open" /\ generation' = n /\ expired' = (expired /\ ~Reopening)
          /\ requests' = requests /\ successes' = successes + 1 /\ failures' = failures
      BY <1>2, <1>6, <1>19, <2>3, <2>5 DEF AfterRequest, Settle
    <3>2. BreakerTypeOK'
      BY <1>1, <2>3, <2>5, <3>1 DEF BreakerTypeOK
    <3>3. \A d \in Calls(n)' : pc'[d] = "flight" \/ Good(d)'
      <4>1. ASSUME NEW d \in Calls(n) PROVE pc'[d] = "flight" \/ Good(d)'
        <5>1. CASE d = c
          BY <1>1, <1>4, <1>5, <1>19, <5>1 DEF Good, TypeOK
        <5>2. CASE d # c
          BY <1>1, <1>5, <1>9, <2>1, <5>2 DEF TypeOK, Calls
        <5> QED BY <5>1, <5>2
      <4> QED BY <2>2, <4>1
    <3>4. HalfOpenInv'
      BY <2>1, <2>2, <3>1, <3>3 DEF HalfOpenInv
    <3>5. expired' => state' = "open"
      BY <1>15, <1>19, <3>1 DEF Now, Reopening
    <3>6. PeriodInv'
      BY <1>12, <3>1, <3>4, <3>5 DEF PeriodInv, ClosedInv, OpenInv
    <3> QED BY <1>8, <1>14, <3>1, <3>2, <3>6
  <2> QED BY <2>3, <2>4, <2>5
<1>20. CASE gen[c] = n /\ Now = "closed"
  <2>1. state = "closed" /\ n = generation /\ ~Reopening /\ ClosedInv
    BY <1>1, <1>6, <1>20 DEF Now, NowGen, Reopening, PeriodInv
  <2>2. failures \in 0..(FailureThreshold - 1) /\ failures <= Cardinality(Failed(n)) /\ requests = 0 /\ successes = 0
    BY <1>1, <2>1 DEF BreakerTypeOK, ClosedInv
  <2>3. ASSUME k # "ok"
        PROVE  /\ Failed(n)' = Failed(n) \cup {c}
               /\ Cardinality(Failed(n)') >= failures + 1 /\ Cardinality(Failed(n)') \in Nat
    <3>1. Failed(n)' = Failed(n) \cup {c}
      BY <1>9, <1>20, <2>3
    <3>2. Cardinality(Failed(n) \cup {c}) = Cardinality(Failed(n)) + 1 /\ Cardinality(Failed(n)) \in Nat
      BY <1>10
    <3> QED BY <2>2, <3>1, <3>2
  <2>4. CASE k # "ok" /\ failures + 1 >= FailureThreshold
    <3>1. state' = "open" /\ generation' = n + 1 /\ expired' = FALSE
          /\ requests' = 0 /\ successes' = 0 /\ failures' = 0
      <4>1. ~(failures + 1 < FailureThreshold)
        BY <2>2, <2>4
      <4> QED BY <1>2, <1>6, <1>20, <2>1, <2>4, <4>1 DEF AfterRequest, Enter
    <3>2. BreakerTypeOK'
      BY <1>z, <1>16, <3>1 DEF BreakerTypeOK
    <3>3. Cardinality(Failed(n)') >= FailureThreshold /\ Failed(n)' # {}
      BY <2>2, <2>3, <2>4
    <3>4. n + 1 = 1 => n = 0
      OBVIOUS
    <3>5. OpenInv'
      BY <1>8, <1>11, <1>16, <3>1, <3>3, <3>4 DEF OpenInv
    <3>6. PeriodInv'
      BY <1>12, <3>1, <3>5 DEF PeriodInv, ClosedInv, HalfOpenInv
    <3> QED BY <1>8, <1>14, <3>1, <3>2, <3>6
  <2>5. CASE ~(k # "ok" /\ failures + 1 >= FailureThreshold)
    <3>1. state' = "closed" /\ generation' = n /\ expired' = (expired /\ ~Reopening)
          /\ requests' = requests /\ successes' = successes
          /\ failures' = IF k = "ok" THEN 0 ELSE failures + 1
      <4>1. CASE k = "ok"
        BY <1>2, <1>6, <1>20, <2>1, <4>1 DEF AfterRequest, Settle
      <4>2. CASE k # "ok"
        <5>1. failures + 1 < FailureThreshold /\ ~(failures + 1 >= FailureThreshold)
          BY <2>2, <2>5, <4>2
        <5> QED BY <1>2, <1>6, <1>20, <2>1, <4>2, <5>1 DEF AfterRequest, Settle
      <4> QED BY <4>1, <4>2
    <3>2. failures' \in 0..(FailureThreshold - 1) /\ failures' <= Cardinality(Failed(n)')
      <4>1. CASE k = "ok"
        <5>1. Cardinality(Failed(n)') \in Nat
          BY <1>9, <1>10, <4>1
        <5> QED BY <3>1, <4>1, <5>1
      <4>2. CASE k # "ok"
        BY <2>2, <2>3, <2>5, <3>1, <4>2
      <4> QED BY <4>1, <4>2
    <3>3. BreakerTypeOK'
      BY <1>1, <3>1, <3>2 DEF BreakerTypeOK
    <3>4. n > 0 => /\ Calls(n - 1)' = Calls(n - 1)
                   /\ \A d \in Calls(n - 1) : Good(d)'
      BY <1>9, <1>16, <2>1 DEF ClosedInv
    <3>5. ClosedInv'
      BY <2>1, <2>2, <3>1, <3>2, <3>4 DEF ClosedInv
    <3>6. expired' => state' = "open"
      BY <1>15, <2>1, <3>1
    <3>7. PeriodInv'
      BY <1>12, <3>1, <3>5, <3>6 DEF PeriodInv, OpenInv, HalfOpenInv
    <3> QED BY <1>8, <1>14, <2>1, <3>1, <3>3, <3>7
  <2> QED BY <2>4, <2>5
<1>21. gen[c] = n => Now # "open"
  <2>1. SUFFICES ASSUME Now = "open", gen[c] = n PROVE FALSE
    OBVIOUS
  <2>2. state = "open" /\ n = generation /\ OpenInv
    BY <1>1, <1>6, <2>1 DEF Now, NowGen, Reopening, PeriodInv
  <2> QED BY <1>13, <2>1, <2>2 DEF OpenInv
<1> QED BY <1>15, <1>17, <1>18, <1>19, <1>20, <1>21

-----------------------------------------------------------------------------
(* The steps that leave the breaker alone, or only its clock.               *)

\* They change what a call does that no generation has admitted.
LEMMA QuietKeeps ==
  ASSUME GuardInv, gen' = gen, UNCHANGED <<state, generation, requests, successes, failures>>,
         expired' = expired, TypeOK', NEW c \in Call, gen[c] = -1, CallInv(c)',
         \A d \in Call : d # c => pc'[d] = pc[d] /\ tries'[d] = tries[d] /\ error'[d] = error[d]
  PROVE  GuardInv'
<1>1. \A d \in Call : CallInv(d)
  BY DEF GuardInv
<1>2. ASSUME NEW d \in Call, d # c PROVE CallInv(d)'
  BY <1>1, <1>2 DEF CallInv, TriedEnough
<1>3. PeriodInv'
  <2>1. expired' => state = "open"
    BY DEF GuardInv, PeriodInv
  <2> QED BY <2>1, SamePeriod
<1> QED BY <1>2, <1>3 DEF GuardInv

LEMMA GuardStep ==
  ASSUME GuardInv, [Next]_vars
  PROVE  GuardInv'
<1> USE BreakerAssumption, ResilienceAssumption
<1>1. TypeOK /\ BreakerTypeOK /\ \A c \in Call : CallInv(c)
  BY DEF GuardInv, TypeOK
<1> DEFINE Types == /\ pc \in [Call -> {"new", "attempt", "flight", "backoff", "done"}]
                    /\ tries \in [Call -> 0..(MaxRetries + 1)]
                    /\ gen \in [Call -> Nat \cup {-1}]
                    /\ error \in [Call -> [kind : Kind, wrapped : BOOLEAN]]
<1>2. Types
  BY <1>1 DEF TypeOK
<1>3. ASSUME UNCHANGED breaker, Types' PROVE TypeOK'
  BY <1>1, <1>3 DEF TypeOK, BreakerTypeOK, breaker
<1>4. ASSUME NEW c \in Call, Arrive(c) PROVE GuardInv'
  <2>1. /\ pc[c] = "new" /\ pc' = [pc EXCEPT ![c] = "attempt"]
        /\ tries' = tries /\ gen' = gen /\ error' = error
        /\ UNCHANGED breaker
    BY <1>4 DEF Arrive
  <2>2. gen[c] = -1 /\ CallInv(c)
    BY <1>1, <2>1 DEF CallInv
  <2>3. TypeOK'
    BY <1>2, <1>3, <2>1
  <2>4. CallInv(c)'
    BY <1>2, <2>1, <2>2 DEF CallInv, TriedEnough, breaker
  <2> QED BY <1>2, <2>1, <2>2, <2>3, <2>4, QuietKeeps DEF breaker
<1>5. ASSUME NEW c \in Call, SendUnguarded(c) PROVE GuardInv'
  <2>1. /\ pc[c] = "attempt" /\ c \notin Guarded /\ pc' = [pc EXCEPT ![c] = "flight"]
        /\ tries' = [tries EXCEPT ![c] = @ + 1] /\ gen' = gen /\ error' = error
        /\ UNCHANGED breaker
    BY <1>5 DEF SendUnguarded, Depart
  <2>2. gen[c] = -1 /\ CallInv(c) /\ tries[c] <= MaxRetries
    BY <1>1, <2>1 DEF CallInv
  <2>3. TypeOK'
    BY <1>2, <1>3, <2>1, <2>2
  <2>4. CallInv(c)'
    BY <1>2, <2>1, <2>2 DEF CallInv, TriedEnough, breaker
  <2> QED BY <1>2, <2>1, <2>2, <2>3, <2>4, QuietKeeps DEF breaker
<1>6. ASSUME NEW c \in Call, Refused(c) PROVE GuardInv'
  <2> DEFINE e == IF RefusesOpen THEN Plain("open") ELSE Wrapped("toomany")
  <2>1. /\ pc[c] = "attempt" /\ c \in Guarded /\ pc' = [pc EXCEPT ![c] = "done"]
        /\ tries' = [tries EXCEPT ![c] = @ + 1] /\ gen' = gen /\ error' = [error EXCEPT ![c] = e]
        /\ UNCHANGED breaker
    BY <1>6 DEF Refused
  <2>2. gen[c] = -1 /\ CallInv(c) /\ tries[c] = 0
    BY <1>1, <2>1 DEF CallInv
  <2>3. e \in [kind : Kind, wrapped : BOOLEAN]
    BY DEF Plain, Wrapped, Kind
  <2> HIDE DEF e
  <2>4. TypeOK'
    BY <1>2, <1>3, <2>1, <2>2, <2>3
  <2>5. CallInv(c)'
    BY <1>2, <2>1, <2>2 DEF CallInv, breaker
  <2> QED BY <1>2, <2>1, <2>2, <2>4, <2>5, QuietKeeps DEF breaker
<1>7. ASSUME NEW c \in Call, ReturnUnguarded(c) PROVE GuardInv'
  <2>1. PICK k \in Outcome : Finish(c, Plain(k))
    BY <1>7 DEF ReturnUnguarded
  <2>2. /\ pc[c] = "flight" /\ c \notin Guarded
        /\ pc' = [pc EXCEPT ![c] = IF ShouldRetry(c, Plain(k)) THEN "backoff" ELSE "done"]
        /\ tries' = tries /\ gen' = gen /\ error' = [error EXCEPT ![c] = Plain(k)]
        /\ UNCHANGED breaker
    BY <1>7, <2>1 DEF ReturnUnguarded, Finish
  <2>3. gen[c] = -1 /\ CallInv(c)
    BY <1>1, <2>2 DEF CallInv
  <2>4. Plain(k) \in [kind : Kind, wrapped : BOOLEAN]
    BY DEF Plain, Kind
  <2>5. TypeOK'
    BY <1>2, <1>3, <2>2, <2>4
  <2>6. CASE ShouldRetry(c, Plain(k))
    <3>1. tries[c] <= MaxRetries
      BY <2>6 DEF ShouldRetry
    <3>2. CallInv(c)'
      BY <1>2, <2>2, <2>3, <2>6, <3>1 DEF CallInv, TriedEnough, breaker
    <3> QED BY <1>2, <2>2, <2>3, <2>5, <3>2, QuietKeeps DEF breaker
  <2>7. CASE ~ShouldRetry(c, Plain(k))
    <3>1. HasRetry /\ k \in Retryable => tries[c] = MaxRetries + 1
      <4>1. tries[c] \in 0..(MaxRetries + 1)
        BY <1>2
      <4>2. HasRetry /\ k \in Retryable => ~(tries[c] <= MaxRetries)
        BY <2>7 DEF ShouldRetry, Plain
      <4> QED BY <4>1, <4>2
    <3>2. error'[c].kind = k /\ pc'[c] = "done"
      BY <1>2, <2>2, <2>7 DEF Plain
    <3>3. CallInv(c)'
      BY <1>2, <2>2, <2>3, <3>1, <3>2 DEF CallInv, TriedEnough, breaker
    <3> QED BY <1>2, <2>2, <2>3, <2>5, <3>3, QuietKeeps DEF breaker
  <2> QED BY <2>6, <2>7
<1>8. ASSUME NEW c \in Call, BackoffEnds(c) PROVE GuardInv'
  <2>1. /\ pc[c] = "backoff" /\ pc' = [pc EXCEPT ![c] = "attempt"]
        /\ tries' = tries /\ gen' = gen /\ error' = error
        /\ UNCHANGED breaker
    BY <1>8 DEF BackoffEnds
  <2>2. gen[c] = -1 /\ CallInv(c) /\ c \notin Guarded
    BY <1>1, <2>1 DEF CallInv
  <2>3. TypeOK'
    BY <1>2, <1>3, <2>1
  <2>4. CallInv(c)'
    BY <1>2, <2>1, <2>2 DEF CallInv, TriedEnough, breaker
  <2> QED BY <1>2, <2>1, <2>2, <2>3, <2>4, QuietKeeps DEF breaker
<1>9. ASSUME NEW c \in Call, BackoffCancelled(c) PROVE GuardInv'
  <2>1. /\ pc[c] = "backoff" /\ pc' = [pc EXCEPT ![c] = "done"]
        /\ tries' = tries /\ gen' = gen /\ error' = [error EXCEPT ![c] = Plain("cancelled")]
        /\ UNCHANGED breaker
    BY <1>9 DEF BackoffCancelled
  <2>2. gen[c] = -1 /\ CallInv(c) /\ c \notin Guarded
    BY <1>1, <2>1 DEF CallInv
  <2>3. Plain("cancelled") \in [kind : Kind, wrapped : BOOLEAN] /\ Plain("cancelled").kind \notin Retryable
    BY DEF Plain, Kind, Retryable
  <2>4. TypeOK'
    BY <1>2, <1>3, <2>1, <2>3
  <2>5. error'[c].kind \notin Retryable
    BY <1>2, <2>1, <2>3
  <2>6. CallInv(c)'
    BY <1>2, <2>1, <2>2, <2>5 DEF CallInv, TriedEnough, breaker
  <2> QED BY <1>2, <2>1, <2>2, <2>4, <2>6, QuietKeeps DEF breaker
<1>10. CASE TimeoutPasses /\ UNCHANGED callVars
  <2>1. /\ state = "open" /\ expired' = TRUE
        /\ UNCHANGED <<state, generation, requests, successes, failures>>
        /\ pc' = pc /\ tries' = tries /\ gen' = gen /\ error' = error
    BY <1>10 DEF TimeoutPasses, callVars
  <2>2. TypeOK'
    BY <1>1, <2>1 DEF TypeOK, BreakerTypeOK, Kind
  <2>3. \A c \in Call : CallInv(c)'
    BY <1>1, <2>1 DEF CallInv, TriedEnough
  <2>4. PeriodInv'
    BY <2>1, SamePeriod
  <2> QED BY <2>2, <2>3, <2>4 DEF GuardInv
<1>11. CASE UNCHANGED vars
  <2>1. /\ UNCHANGED <<state, generation, requests, successes, failures>> /\ expired' = expired
        /\ pc' = pc /\ tries' = tries /\ gen' = gen /\ error' = error
    BY <1>11 DEF vars, breaker, callVars
  <2>2. TypeOK'
    BY <1>1, <2>1 DEF TypeOK, BreakerTypeOK, Kind
  <2>3. \A c \in Call : CallInv(c)'
    BY <1>1, <2>1 DEF CallInv, TriedEnough
  <2>4. expired' => state = "open"
    BY <2>1 DEF GuardInv, PeriodInv
  <2>5. PeriodInv'
    BY <2>1, <2>4, SamePeriod
  <2> QED BY <2>2, <2>3, <2>5 DEF GuardInv
<1> QED BY <1>4, <1>5, <1>6, <1>7, <1>8, <1>9, <1>10, <1>11, AdmitKeeps, ReturnKeeps DEF Next, Proceed

-----------------------------------------------------------------------------
\* Breaker and calls agree at every moment: how many probes the half-open
\* period admitted and how many succeeded, how many failures in a row the
\* closed one has seen, and where each call stands.
THEOREM BreakerAgrees == Spec => []GuardInv
<1>1. Init => GuardInv
  BY InitGuard
<1>2. GuardInv /\ [Next]_vars => GuardInv'
  BY GuardStep
<1> QED BY <1>1, <1>2, PTL DEF Spec

\* Every variable keeps its type, the generations being unbounded.
THEOREM CallsTyped == Spec => []TypeOK
<1>1. GuardInv => TypeOK
  BY DEF GuardInv
<1> QED BY <1>1, BreakerAgrees, PTL

\* While the half-open circuit turns further callers away, one of the probes it
\* admitted is still on its way: had all ended well, it would have closed.
THEOREM SomeProbeDecides == Spec => []NeverWedged
<1>1. ASSUME GuardInv, state = "half-open", requests >= MaxRequests
      PROVE  \E c \in Call : Probing(c)
  <2>1. PICK n \in Nat : n = generation
    BY <1>1 DEF GuardInv, TypeOK, BreakerTypeOK
  <2>2. /\ requests = Cardinality(Calls(n)) /\ successes = Cardinality(Succeeded(n))
        /\ \A c \in Calls(n) : pc[c] = "flight" \/ Good(c)
    BY <1>1, <2>1 DEF GuardInv, PeriodInv, HalfOpenInv
  <2>3. successes \in 0..(MaxRequests - 1)
    BY <1>1 DEF GuardInv, TypeOK, BreakerTypeOK
  <2>4. Cardinality(Succeeded(n)) # Cardinality(Calls(n))
    BY <1>1, <2>2, <2>3, BreakerAssumption
  <2>5. PICK c \in Calls(n) : c \notin Succeeded(n)
    BY <2>4 DEF Succeeded
  <2>6. c \in Call /\ gen[c] = n /\ pc[c] = "flight"
    BY <2>2, <2>5 DEF Succeeded, Calls
  <2> QED BY <2>1, <2>6 DEF Probing
<1>2. GuardInv => NeverWedged
  BY <1>1 DEF NeverWedged
<1> QED BY <1>2, BreakerAgrees, PTL

\* A circuit that is closed again was closed by exactly MaxRequests probes of
\* the period before, all of them successful.
THEOREM ProbesClose == Spec => []ClosedByProbes
<1>1. GuardInv => ClosedByProbes
  BY DEF GuardInv, PeriodInv, ClosedInv, ClosedByProbes, Calls, Good
<1> QED BY <1>1, BreakerAgrees, PTL

\* A circuit that is open was opened by a failure of a call that the period
\* before had admitted, and the first time by as many as the threshold.
THEOREM FailuresOpen == Spec => []OpenedByFailures
<1>1. ASSUME GuardInv, state = "open"
      PROVE  LET failed == {c \in Call : gen[c] = generation - 1 /\ Ended(c) /\ error[c].kind # "ok"}
             IN  failed # {} /\ (generation = 1 => Cardinality(failed) >= FailureThreshold)
  <2> DEFINE failed == {c \in Call : gen[c] = generation - 1 /\ Ended(c) /\ error[c].kind # "ok"}
  <2>1. /\ generation \in Nat /\ generation > 0 /\ Failed(generation - 1) # {}
        /\ generation = 1 => Cardinality(Failed(0)) >= FailureThreshold
    BY <1>1 DEF GuardInv, TypeOK, BreakerTypeOK, PeriodInv, OpenInv
  <2>2. \A c \in Call : gen[c] = generation - 1 => gen[c] # -1
    BY <2>1
  <2>3. failed = Failed(generation - 1)
    BY <2>2 DEF Failed, Calls, Bad, Ended
  <2>4. generation = 1 => failed = Failed(0)
    BY <2>3
  <2> HIDE DEF failed
  <2>5. failed # {} /\ (generation = 1 => Cardinality(failed) >= FailureThreshold)
    BY <2>1, <2>3, <2>4
  <2> QED BY <2>5 DEF failed
<1>2. GuardInv => OpenedByFailures
  BY <1>1 DEF OpenedByFailures
<1> QED BY <1>2, BreakerAgrees, PTL

\* Without a breaker in between, a timeout or an unavailable agent reaches the
\* client only after MaxRetries further attempts.
THEOREM RetriesExhausted == Spec => []RetriedUntilExhausted
<1>1. GuardInv => RetriedUntilExhausted
  BY DEF GuardInv, CallInv, RetriedUntilExhausted
<1> QED BY <1>1, BreakerAgrees, PTL

\* What a call has left to do is never negative, and an attempt is only made
\* while the policy allows one.
LEMMA TriesLeft ==
  ASSUME GuardInv, NEW c \in Call
  PROVE  /\ tries[c] \in Nat /\ tries[c] <= MaxRetries + 1 /\ StepsLeft(c) \in Nat
         /\ pc[c] = "attempt" => tries[c] <= MaxRetries
<1>1. /\ tries[c] \in Nat /\ tries[c] <= MaxRetries + 1 /\ MaxRetries \in Nat
      /\ pc[c] \in {"new", "attempt", "flight", "backoff", "done"}
  BY ResilienceAssumption DEF GuardInv, TypeOK
<1>2. pc[c] = "attempt" => tries[c] <= MaxRetries
  BY <1>1 DEF GuardInv, CallInv
<1>3. StepsLeft(c) \in Nat
  BY <1>1 DEF StepsLeft
<1> QED BY <1>1, <1>2, <1>3

\* Every step of a call that has arrived leaves it less to do, and nothing gives
\* it more: it is answered after at most three steps per attempt if it goes on,
\* however the breaker changes in between.
THEOREM CallsGetShorter == Spec => CallsShrink /\ [](\A c \in Call : StepsLeft(c) \in Nat)
<1> DEFINE Shrink ==
      \A c \in Call : IF Proceed(c) THEN StepsLeft(c)' < StepsLeft(c) ELSE StepsLeft(c)' = StepsLeft(c)
<1>1. GuardInv /\ [Next]_vars => [Shrink]_vars
  <2> SUFFICES ASSUME GuardInv, Next, NEW c \in Call
               PROVE  IF Proceed(c) THEN StepsLeft(c)' < StepsLeft(c) ELSE StepsLeft(c)' = StepsLeft(c)
    OBVIOUS
  <2>1. /\ tries[c] \in Nat /\ tries[c] <= MaxRetries + 1 /\ MaxRetries \in Nat
        /\ pc[c] = "attempt" => tries[c] <= MaxRetries
    BY TriesLeft, ResilienceAssumption
  <2>2. pc \in [Call -> {"new", "attempt", "flight", "backoff", "done"}] /\ tries \in [Call -> 0..(MaxRetries + 1)]
    BY DEF GuardInv, TypeOK
  <2>3. ASSUME NEW d \in Call, Proceed(d)
        PROVE  /\ \A b \in Call \ {d} : pc'[b] = pc[b] /\ tries'[b] = tries[b]
               /\ \/ pc[d] = "attempt" /\ pc'[d] \in {"flight", "done"} /\ tries'[d] = tries[d] + 1
                  \/ pc[d] = "flight" /\ pc'[d] \in {"backoff", "done"} /\ tries'[d] = tries[d]
                  \/ pc[d] = "backoff" /\ pc'[d] \in {"attempt", "done"} /\ tries'[d] = tries[d]
    <3>1. CASE SendUnguarded(d) \/ SendAdmitted(d)
      BY <2>2, <3>1 DEF SendUnguarded, SendAdmitted, Depart
    <3>2. CASE Refused(d)
      BY <2>2, <3>2 DEF Refused
    <3>3. CASE ReturnUnguarded(d) \/ ReturnGuarded(d)
      BY <2>2, <3>3 DEF ReturnUnguarded, ReturnGuarded, Finish
    <3>4. CASE BackoffEnds(d) \/ BackoffCancelled(d)
      BY <2>2, <3>4 DEF BackoffEnds, BackoffCancelled
    <3> QED BY <2>3, <3>1, <3>2, <3>3, <3>4 DEF Proceed
  <2>4. CASE Proceed(c)
    <3>1. StepsLeft(c)' < StepsLeft(c)
      BY <2>1, <2>3, <2>4 DEF StepsLeft
    <3> QED BY <2>4, <3>1
  <2>5. CASE ~Proceed(c)
    <3>1. ASSUME NEW d \in Call \ {c}, Arrive(d) \/ Proceed(d) PROVE pc'[c] = pc[c] /\ tries'[c] = tries[c]
      BY <2>2, <2>3, <3>1 DEF Arrive
    <3>2. ASSUME Arrive(c) PROVE pc[c] = "new" /\ pc'[c] = "attempt" /\ tries'[c] = tries[c]
      BY <2>2, <3>2 DEF Arrive
    <3>3. ASSUME UNCHANGED callVars PROVE pc'[c] = pc[c] /\ tries'[c] = tries[c]
      BY <3>3 DEF callVars
    <3>4. ASSUME NEW d \in Call, Arrive(d) \/ Proceed(d)
          PROVE  /\ tries'[c] = tries[c]
                 /\ pc'[c] = pc[c] \/ (pc[c] = "new" /\ pc'[c] = "attempt")
      <4>1. CASE d = c
        BY <2>5, <3>2, <3>4, <4>1
      <4>2. CASE d # c
        BY <3>1, <3>4, <4>2
      <4> QED BY <4>1, <4>2
    <3>5. /\ tries'[c] = tries[c]
          /\ pc'[c] = pc[c] \/ (pc[c] = "new" /\ pc'[c] = "attempt")
      BY <3>3, <3>4 DEF Next
    <3>6. StepsLeft(c)' = StepsLeft(c)
      BY <3>5 DEF StepsLeft
    <3> QED BY <2>5, <3>6
  <2> QED BY <2>4, <2>5
<1>2. GuardInv => \A c \in Call : StepsLeft(c) \in Nat
  BY TriesLeft
<1> QED BY <1>1, <1>2, BreakerAgrees, PTL DEF Spec, CallsShrink

-----------------------------------------------------------------------------
(* RateLimiter.                                                             *)

\* Only a pipeline that is on its way has a client.
RateInv ==
  /\ LimiterTypeOK
  /\ \A g \in Gateway : pipeline[g] # "idle" => asker[g] \in Client

LEMMA WindowIsNat ==
  Window \in Nat /\ Window >= 1
<1>1. Rps \in Nat \ {0} /\ Burst \in Nat \ {0}
  BY RateAssumption
<1>2. Burst \div Rps \in Nat
  BY <1>1
<1>3. \A k \in Nat \ {0} : Rps * k \in Nat /\ Rps * k >= 1
  BY <1>1
<1>4. (IF Burst \div Rps > 1 THEN Burst \div Rps ELSE 1) \in Nat \ {0}
  BY <1>2
<1> QED BY <1>3, <1>4 DEF Window

LEMMA RateInit ==
  ASSUME LimiterInit
  PROVE  RateInv
<1>1. 0 \in 0..MaxCount /\ 0 \in 0..Window
  BY WindowIsNat, RateAssumption
<1> QED BY <1>1 DEF RateInv, LimiterTypeOK, LimiterInit

LEMMA BucketsStay ==
  ASSUME RateInv, NEW g \in Gateway, NEW c \in Client, Allow(g, c)
  PROVE  RateInv'
<1> DEFINE Bucket == [tokens : 0..Burst, idle : 0..(Hour + 1)]
           own == Clean(buckets[g])
           left == Tokens(own[c])
           take == IF left > 0 THEN 1 ELSE 0
           new == [tokens |-> left - take, idle |-> 0]
<1>1. /\ buckets \in [Gateway -> [Client -> {None} \cup Bucket]]
      /\ verdict \in [Gateway -> [Client -> {"none", "admitted", "refused"}]]
      /\ Burst \in Nat \ {0} /\ Hour \in Nat
  BY RateAssumption DEF RateInv, LimiterTypeOK
<1>2. own \in [Client -> {None} \cup Bucket]
  BY <1>1 DEF Clean
<1>3. left \in 0..Burst
  <2>1. CASE own[c] = None
    BY <1>1, <2>1 DEF Tokens
  <2>2. CASE own[c] # None
    <3>1. own[c] \in Bucket
      BY <1>2, <2>2
    <3> QED BY <1>1, <2>2, <3>1 DEF Tokens, Min2
  <2> QED BY <2>1, <2>2
<1> HIDE DEF left
<1>4. new \in Bucket
  BY <1>1, <1>3
<1> HIDE DEF own, new
<1>5. /\ buckets' = [buckets EXCEPT ![g] = [own EXCEPT ![c] = new]]
      /\ verdict' = [verdict EXCEPT ![g][c] = IF left > 0 THEN "admitted" ELSE "refused"]
      /\ UNCHANGED <<backend, count, ttl, pipeline, asker, number, late, passes, apart, refused, quiet>>
  BY DEF Allow, own, left, take, new, redis, seen
<1>6. buckets' \in [Gateway -> [Client -> {None} \cup Bucket]]
  BY <1>1, <1>2, <1>4, <1>5
<1>7. verdict' \in [Gateway -> [Client -> {"none", "admitted", "refused"}]]
  BY <1>1, <1>5
<1> QED BY <1>5, <1>6, <1>7 DEF RateInv, LimiterTypeOK, Age

LEMMA RateTypeStep ==
  ASSUME RateInv, [LimiterNext]_limiterVars
  PROVE  RateInv'
<1>1. /\ backend \in [Gateway -> {"memory", "redis"}]
      /\ buckets \in [Gateway -> [Client -> {None} \cup [tokens : 0..Burst, idle : 0..(Hour + 1)]]]
      /\ verdict \in [Gateway -> [Client -> {"none", "admitted", "refused"}]]
      /\ count \in [Client -> 0..MaxCount]
      /\ ttl \in [Client -> {None} \cup 1..Window]
      /\ pipeline \in [Gateway -> {"idle", "incr", "expire"}]
      /\ asker \in [Gateway -> Client \cup {None}]
      /\ number \in [Gateway -> 0..MaxCount]
      /\ late \subseteq Gateway
      /\ passes \in [Client -> [Age -> Nat]]
      /\ apart \subseteq Client /\ refused \subseteq Client
      /\ quiet \in [Client -> 0..Window]
      /\ \A g \in Gateway : pipeline[g] # "idle" => asker[g] \in Client
  BY DEF RateInv, LimiterTypeOK
<1>2. /\ MaxCount \in Nat \ {0} /\ Burst \in Nat \ {0} /\ Hour \in Nat /\ Hour >= Burst
      /\ Counted \subseteq Client /\ None \notin Nat
      /\ Window \in Nat /\ Window >= 1
  BY WindowIsNat, RateAssumption
<1>3. 0 \in 0..MaxCount /\ 0 \in 0..Window /\ Window \in 1..Window
  BY <1>2
<1>4. ASSUME NEW g \in Gateway, NEW c \in Client, Send(g, c) PROVE RateInv'
  BY <1>1, <1>4 DEF Send, memory, seen, RateInv, LimiterTypeOK, Age
<1>5. ASSUME NEW g \in Gateway, Incr(g) PROVE RateInv'
  <2> DEFINE c == asker[g]
  <2>1. /\ pipeline[g] = "incr" /\ count[c] < MaxCount
        /\ pipeline' = [pipeline EXCEPT ![g] = "expire"]
        /\ count' = [count EXCEPT ![c] = @ + 1]
        /\ number' = [number EXCEPT ![g] = count[c] + 1]
        /\ passes' = [passes EXCEPT ![c][0] = IF count[c] < Burst THEN @ + 1 ELSE @]
        /\ quiet' = [quiet EXCEPT ![c] = 0]
        /\ UNCHANGED <<backend, buckets, verdict, ttl, asker, late, apart, refused>>
    BY <1>5 DEF Incr, memory
  <2>2. c \in Client
    BY <1>1, <2>1
  <2>3. count[c] + 1 \in 0..MaxCount
    BY <1>1, <1>2, <2>1, <2>2
  <2>4. 0 \in Age
    BY <1>2 DEF Age
  <2>5. passes' \in [Client -> [Age -> Nat]]
    <3>1. passes[c][0] \in Nat /\ passes[c][0] + 1 \in Nat
      BY <1>1, <2>2, <2>4
    <3> QED BY <1>1, <2>1, <2>2, <2>4, <3>1
  <2> HIDE DEF c
  <2>6. count' \in [Client -> 0..MaxCount] /\ number' \in [Gateway -> 0..MaxCount] /\ quiet' \in [Client -> 0..Window]
    BY <1>1, <1>3, <2>1, <2>2, <2>3
  <2>7. pipeline' \in [Gateway -> {"idle", "incr", "expire"}] /\ \A h \in Gateway : pipeline'[h] # "idle" => asker'[h] \in Client
    BY <1>1, <2>1
  <2> QED BY <1>1, <2>1, <2>5, <2>6, <2>7 DEF RateInv, LimiterTypeOK, Age
<1>6. ASSUME NEW g \in Gateway, Done(g)
      PROVE  /\ pipeline' \in [Gateway -> {"idle", "incr", "expire"}]
             /\ asker' \in [Gateway -> Client \cup {None}]
             /\ number' \in [Gateway -> 0..MaxCount]
             /\ late' \subseteq Gateway
             /\ \A h \in Gateway : pipeline'[h] # "idle" => asker'[h] \in Client
  BY <1>1, <1>3, <1>6 DEF Done
<1>7. ASSUME NEW g \in Gateway, Expire(g) PROVE RateInv'
  <2> DEFINE c == asker[g]
  <2>1. /\ pipeline[g] = "expire" /\ Done(g) /\ Decide(g, c)
        /\ ttl' = [ttl EXCEPT ![c] = IF count[c] > 0 THEN Window ELSE @]
        /\ quiet' = [quiet EXCEPT ![c] = 0]
        /\ UNCHANGED <<backend, buckets, verdict, count, passes, apart>>
    BY <1>7 DEF Expire, memory
  <2>2. c \in Client
    BY <1>1, <2>1
  <2>3. refused' \subseteq Client
    BY <1>1, <2>1, <2>2 DEF Decide
  <2> HIDE DEF c
  <2>4. ttl' \in [Client -> {None} \cup 1..Window] /\ quiet' \in [Client -> 0..Window]
    BY <1>1, <1>3, <2>1, <2>2
  <2> QED BY <1>1, <1>6, <2>1, <2>3, <2>4 DEF RateInv, LimiterTypeOK, Age
<1>8. ASSUME NEW g \in Gateway, GiveUp(g) PROVE RateInv'
  BY <1>1, <1>8 DEF GiveUp, memory, RateInv, LimiterTypeOK, Age
<1>9. ASSUME NEW g \in Gateway, Break(g) PROVE RateInv'
  <2>1. /\ Done(g) /\ asker[g] \in Client
        /\ refused' \subseteq Client /\ apart' \subseteq Client
        /\ UNCHANGED <<backend, buckets, verdict, count, ttl, passes, quiet>>
    BY <1>1, <1>9 DEF Break, memory
  <2> QED BY <1>1, <1>6, <2>1 DEF RateInv, LimiterTypeOK, Age
<1>10. ASSUME Tick PROVE RateInv'
  <2>1. buckets' \in [Gateway -> [Client -> {None} \cup [tokens : 0..Burst, idle : 0..(Hour + 1)]]]
    <3>1. ASSUME NEW g \in Gateway, NEW c \in Client
          PROVE  (IF buckets[g][c] = None THEN None ELSE [buckets[g][c] EXCEPT !.idle = Min2(@, Hour) + 1])
                 \in {None} \cup [tokens : 0..Burst, idle : 0..(Hour + 1)]
      <4>1. CASE buckets[g][c] = None
        BY <4>1
      <4>2. CASE buckets[g][c] # None
        <5>1. buckets[g][c] \in [tokens : 0..Burst, idle : 0..(Hour + 1)]
          BY <1>1, <4>2
        <5>2. Min2(buckets[g][c].idle, Hour) + 1 \in 0..(Hour + 1)
          BY <1>2, <5>1 DEF Min2
        <5> QED BY <4>2, <5>1, <5>2
      <4> QED BY <4>1, <4>2
    <3> QED BY <1>10, <3>1 DEF Tick
  <2>2. verdict' \in [Gateway -> [Client -> {"none", "admitted", "refused"}]] /\ count' \in [Client -> 0..MaxCount]
    BY <1>1, <1>3, <1>10 DEF Tick
  <2>3. ttl' \in [Client -> {None} \cup 1..Window]
    <3>1. ASSUME NEW c \in Client
          PROVE  (IF ttl[c] = None \/ Ends(c) THEN None ELSE ttl[c] - 1) \in {None} \cup 1..Window
      <4>1. CASE ttl[c] = None \/ Ends(c)
        BY <4>1
      <4>2. CASE ~(ttl[c] = None \/ Ends(c))
        <5>1. ttl[c] \in 1..Window /\ ttl[c] # 1
          BY <1>1, <4>2 DEF Ends
        <5>2. ttl[c] - 1 \in 1..Window
          BY <1>2, <5>1
        <5> QED BY <4>2, <5>2
      <4> QED BY <4>1, <4>2
    <3> QED BY <1>10, <3>1 DEF Tick
  <2>4. passes' \in [Client -> [Age -> Nat]]
    <3>1. ASSUME NEW c \in Client, NEW a \in Age
          PROVE  (IF a = 0 THEN 0 ELSE passes[c][a - 1]) \in Nat
      <4>1. a # 0 => a - 1 \in Age
        BY <1>2 DEF Age
      <4> QED BY <1>1, <4>1
    <3> QED BY <1>10, <3>1 DEF Tick
  <2>5. quiet' \in [Client -> 0..Window]
    <3>1. ASSUME NEW c \in Client PROVE Min2(quiet[c] + 1, Window) \in 0..Window
      BY <1>1, <1>2 DEF Min2
    <3> QED BY <1>3, <1>10, <3>1 DEF Tick
  <2>6. apart' \subseteq Client /\ UNCHANGED <<backend, pipeline, asker, number, late, refused>>
    BY <1>10 DEF Tick
  <2> QED BY <1>1, <2>1, <2>2, <2>3, <2>4, <2>5, <2>6 DEF RateInv, LimiterTypeOK, Age
<1>11. ASSUME UNCHANGED limiterVars PROVE RateInv'
  BY <1>1, <1>11 DEF limiterVars, memory, redis, seen, RateInv, LimiterTypeOK, Age
<1> QED BY <1>4, <1>5, <1>7, <1>8, <1>9, <1>10, <1>11, BucketsStay DEF LimiterNext, Request

-----------------------------------------------------------------------------
\* A command for the client has been counted and its EXPIRE is still to come.
Waiting(c) == \E g \in Gateway : pipeline[g] = "expire" /\ asker[g] = c

\* The last s ages belong to the counter that is there; what is older belongs
\* to the one before, of which nothing is left in the window unless an EXPIRE
\* went astray; and a counter lives for a window at least.
Split(c, s) ==
  /\ Total(passes[c])[s] <= count[c]
  /\ Total(passes[c])[s] <= Burst
  /\ Total(passes[c])[Window] - Total(passes[c])[s] <= IF c \in apart THEN Burst ELSE 0
  /\ ttl[c] # None => ttl[c] + s >= Window + 1

\* As long as no EXPIRE is missing, what was counted expires with the counter.
Expiring(c) ==
  c \notin apart /\ ~Waiting(c) =>
    \A a \in Age : passes[c][a] > 0 => ttl[c] # None /\ a >= Window - ttl[c]

CountInv(c) == (\E s \in 1..Window : Split(c, s)) /\ Expiring(c)

LEMMA TotalIsSums ==
  ASSUME NEW f \in [Age -> Nat]
  PROVE  IsSums(Total(f), f, Window)
<1>1. Window \in Nat /\ \A a \in 0..(Window - 1) : f[a] \in Nat
  BY WindowIsNat DEF Age
<1>2. \E sum : IsSums(sum, f, Window)
  BY <1>1, SumsExist
<1> QED BY <1>2 DEF Total, IsSums

\* What the sums are, and how they grow.
LEMMA TotalGrows ==
  ASSUME NEW f \in [Age -> Nat]
  PROVE  /\ Total(f)[0] = 0
         /\ \A n \in 0..Window : Total(f)[n] \in Nat /\ Total(f)[n] <= Total(f)[Window]
         /\ \A m, n \in 0..Window : m <= n => Total(f)[m] <= Total(f)[n]
         /\ \A a \in Age : f[a] <= Total(f)[Window]
<1>1. Window \in Nat /\ \A a \in 0..(Window - 1) : f[a] \in Nat
  BY WindowIsNat DEF Age
<1>2. IsSums(Total(f), f, Window)
  BY TotalIsSums
<1>3. \A m, n \in 0..Window : m <= n => Total(f)[m] <= Total(f)[n]
  BY <1>1, <1>2, SumsGrow
<1>4. \A n \in 0..Window : Total(f)[n] \in Nat
  BY <1>1, <1>2, SumsType
<1>5. Total(f)[0] = 0 /\ \A n \in 0..(Window - 1) : Total(f)[n + 1] = Total(f)[n] + f[n]
  BY <1>1, <1>2, SumsStep
<1>6. ASSUME NEW a \in Age PROVE f[a] <= Total(f)[Window]
  <2>1. a \in 0..(Window - 1) /\ a \in 0..Window /\ a + 1 \in 0..Window /\ Window \in 0..Window /\ a + 1 <= Window
    BY <1>1 DEF Age
  <2>2. Total(f)[a + 1] = Total(f)[a] + f[a] /\ Total(f)[a] \in Nat /\ f[a] \in Nat
    BY <1>1, <1>4, <1>5, <2>1
  <2>3. Total(f)[a + 1] <= Total(f)[Window] /\ Total(f)[Window] \in Nat
    BY <1>3, <1>4, <2>1
  <2> QED BY <2>2, <2>3
<1>7. \A n \in 0..Window : Total(f)[n] <= Total(f)[Window]
  BY <1>1, <1>3
<1> QED BY <1>3, <1>4, <1>5, <1>6, <1>7

LEMMA TotalOfNothing ==
  ASSUME NEW f \in [Age -> Nat], NEW m \in 0..Window,
         \A a \in Age : a >= m => f[a] = 0
  PROVE  Total(f)[Window] = Total(f)[m]
<1>1. Window \in Nat /\ Window \in 0..Window /\ \A a \in 0..(Window - 1) : f[a] \in Nat
  BY WindowIsNat DEF Age
<1>2. m <= Window /\ \A a \in 0..(Window - 1) : m <= a /\ a < Window => f[a] = 0
  BY <1>1 DEF Age
<1> QED BY <1>1, <1>2, TotalIsSums, SumsRest

LEMMA CountInit ==
  ASSUME LimiterInit, NEW c \in Client
  PROVE  CountInv(c)
<1>1. Window \in 1..Window /\ Window \in 0..Window /\ 0 \in 0..Window /\ Burst \in Nat
  BY WindowIsNat, RateAssumption
<1>2. passes[c] \in [Age -> Nat] /\ (\A a \in Age : passes[c][a] = 0) /\ ttl[c] = None /\ count[c] = 0 /\ c \notin apart
  BY DEF LimiterInit
<1>3. Total(passes[c])[Window] = Total(passes[c])[0] /\ Total(passes[c])[0] = 0
  BY <1>1, <1>2, TotalOfNothing, TotalGrows
<1>4. Split(c, Window)
  BY <1>1, <1>2, <1>3 DEF Split
<1>5. Expiring(c)
  BY <1>2 DEF Expiring
<1> QED BY <1>1, <1>4, <1>5 DEF CountInv

\* A step that leaves the counter and the past of a client alone.
LEMMA CountStays ==
  ASSUME RateInv, NEW c \in Client, CountInv(c),
         passes'[c] = passes[c], count'[c] = count[c], ttl'[c] = ttl[c],
         c \in apart => c \in apart', Waiting(c) => Waiting(c)' \/ c \in apart'
  PROVE  CountInv(c)'
<1>1. PICK s \in 1..Window : Split(c, s)
  BY DEF CountInv
<1>2. Total(passes'[c]) = Total(passes[c])
  OBVIOUS
<1>3. Total(passes[c])[Window] - Total(passes[c])[s] <= IF c \in apart' THEN Burst ELSE 0
  <2> DEFINE x == Total(passes[c])[Window] - Total(passes[c])[s]
  <2>1. x <= IF c \in apart THEN Burst ELSE 0
    BY <1>1 DEF Split
  <2>2. passes[c] \in [Age -> Nat] /\ Burst \in Nat /\ s \in 0..Window /\ Window \in 0..Window
    BY WindowIsNat, RateAssumption DEF RateInv, LimiterTypeOK
  <2>3. x \in Int
    BY <2>2, TotalGrows
  <2> HIDE DEF x
  <2>4. x <= IF c \in apart' THEN Burst ELSE 0
    BY <2>1, <2>2, <2>3
  <2> QED BY <2>4 DEF x
<1>4. Split(c, s)'
  BY <1>1, <1>2, <1>3 DEF Split
<1>5. Expiring(c)'
  BY DEF CountInv, Expiring
<1> QED BY <1>4, <1>5 DEF CountInv

LEMMA IncrCounts ==
  ASSUME RateInv, NEW g \in Gateway, Incr(g), NEW c \in Client, CountInv(c)
  PROVE  CountInv(c)'
<1>1. /\ pipeline[g] = "incr" /\ pipeline' = [pipeline EXCEPT ![g] = "expire"] /\ asker' = asker
      /\ count' = [count EXCEPT ![asker[g]] = @ + 1]
      /\ passes' = [passes EXCEPT ![asker[g]][0] = IF count[asker[g]] < Burst THEN @ + 1 ELSE @]
      /\ ttl' = ttl /\ apart' = apart
  BY DEF Incr
<1>2. /\ pipeline \in [Gateway -> {"idle", "incr", "expire"}] /\ count \in [Client -> 0..MaxCount]
      /\ passes \in [Client -> [Age -> Nat]] /\ asker[g] \in Client /\ Burst \in Nat
      /\ MaxCount \in Nat /\ 0 \in Age /\ Window \in Nat /\ Window >= 1
  BY <1>1, WindowIsNat, RateAssumption DEF RateInv, LimiterTypeOK, Age
<1>3. Waiting(c) => Waiting(c)'
  BY <1>1, <1>2 DEF Waiting
<1>4. CASE c # asker[g]
  BY <1>1, <1>2, <1>3, <1>4, CountStays
<1>5. CASE c = asker[g]
  <2> DEFINE k == IF count[c] < Burst THEN 1 ELSE 0
             old == Total(passes[c])
             new == Total(passes'[c])
  <2>1. PICK s \in 1..Window : Split(c, s)
    BY DEF CountInv
  <2>2. passes'[c] = [passes[c] EXCEPT ![0] = @ + k] /\ count'[c] = count[c] + 1
    BY <1>1, <1>2, <1>5
  <2>3. passes[c] \in [Age -> Nat] /\ passes'[c] \in [Age -> Nat] /\ k \in Nat
    BY <1>2, <2>2
  <2>4. \A a \in 0..(Window - 1) : passes'[c][a] = IF a = 0 THEN passes[c][a] + k ELSE passes[c][a]
    BY <2>2, <2>3 DEF Age
  <2>5. \A a \in 0..(Window - 1) : passes[c][a] \in Nat
    BY <2>3 DEF Age
  <2>6. \A n \in 1..Window : new[n] = old[n] + k
    <3>1. IsSums(old, passes[c], Window) /\ IsSums(new, passes'[c], Window)
      BY <2>3, TotalIsSums
    <3> DEFINE f == passes[c]
               h == passes'[c]
    <3>2. /\ IsSums(old, f, Window) /\ IsSums(new, h, Window) /\ k \in Nat /\ Window \in Nat
          /\ \A a \in 0..(Window - 1) : f[a] \in Nat
          /\ \A a \in 0..(Window - 1) : h[a] = IF a = 0 THEN f[a] + k ELSE f[a]
      BY <1>2, <2>3, <2>4, <2>5, <3>1
    <3> HIDE DEF old, new, k, f, h
    <3> QED BY <3>2, SumsFirst
  <2>7. old[s] \in Nat /\ old[Window] \in Nat /\ Window \in 1..Window
    BY <1>2, <2>3, TotalGrows
  <2>8. new[s] = old[s] + k /\ new[Window] = old[Window] + k
    BY <2>6, <2>7
  <2>9. old[s] <= count[c] /\ old[s] <= Burst /\ count[c] \in Nat
        /\ old[Window] - old[s] <= IF c \in apart THEN Burst ELSE 0
    BY <1>2, <2>1 DEF Split
  <2>10. Split(c, s)'
    <3>1. new[s] <= count[c] + 1 /\ new[s] <= Burst /\ new[Window] - new[s] = old[Window] - old[s]
      BY <1>2, <2>7, <2>8, <2>9
    <3>2. ttl[c] # None => ttl[c] + s >= Window + 1
      BY <2>1 DEF Split
    <3> HIDE DEF old
    <3> QED BY <1>1, <2>2, <2>9, <3>1, <3>2 DEF Split
  <2>11. Waiting(c)'
    BY <1>1, <1>2, <1>5 DEF Waiting
  <2> QED BY <2>10, <2>11 DEF CountInv, Expiring
<1> QED BY <1>4, <1>5

LEMMA ExpireCounts ==
  ASSUME RateInv, NEW g \in Gateway, Expire(g), NEW c \in Client, CountInv(c)
  PROVE  CountInv(c)'
<1>1. /\ pipeline[g] = "expire" /\ pipeline' = [pipeline EXCEPT ![g] = "idle"] /\ asker' = [asker EXCEPT ![g] = None]
      /\ ttl' = [ttl EXCEPT ![asker[g]] = IF count[asker[g]] > 0 THEN Window ELSE @]
      /\ count' = count /\ passes' = passes /\ apart' = apart
  BY DEF Expire, Done
<1>2. /\ pipeline \in [Gateway -> {"idle", "incr", "expire"}] /\ asker \in [Gateway -> Client \cup {None}]
      /\ ttl \in [Client -> {None} \cup 1..Window] /\ count \in [Client -> 0..MaxCount]
      /\ passes[c] \in [Age -> Nat] /\ asker[g] \in Client
      /\ None \notin Nat /\ Window \in Nat /\ Window >= 1 /\ MaxCount \in Nat
  BY <1>1, WindowIsNat, RateAssumption DEF RateInv, LimiterTypeOK
<1>3. CASE c # asker[g]
  <2>1. ttl'[c] = ttl[c]
    BY <1>1, <1>2, <1>3
  <2>2. Waiting(c) => Waiting(c)'
    BY <1>1, <1>2, <1>3 DEF Waiting
  <2> QED BY <1>1, <2>1, <2>2, CountStays
<1>4. CASE c = asker[g]
  <2>1. PICK s \in 1..Window : Split(c, s)
    BY DEF CountInv
  <2>2. CASE count[c] > 0
    <3>1. ttl'[c] = Window
      BY <1>1, <1>2, <1>4, <2>2
    <3>2. Split(c, s)'
      <4>1. Window + s >= Window + 1
        BY <1>2
      <4> QED BY <1>1, <2>1, <3>1, <4>1 DEF Split
    <3>3. Expiring(c)'
      <4>1. \A a \in Age : a >= Window - Window
        BY <1>2 DEF Age
      <4> QED BY <1>2, <3>1, <4>1 DEF Expiring
    <3> QED BY <3>2, <3>3 DEF CountInv
  <2>3. CASE ~(count[c] > 0)
    <3>1. ttl'[c] = ttl[c] /\ count[c] = 0
      BY <1>1, <1>2, <1>4, <2>3
    <3>2. Split(c, s)'
      BY <1>1, <2>1, <3>1 DEF Split
    <3>3. ASSUME c \notin apart, NEW a \in Age PROVE passes[c][a] = 0
      <4> DEFINE t == Total(passes[c])
      <4>1. t[s] <= 0 /\ t[Window] - t[s] <= 0
        BY <2>1, <3>1, <3>3 DEF Split
      <4>2. t[s] \in Nat /\ t[Window] \in Nat /\ passes[c][a] <= t[Window] /\ passes[c][a] \in Nat
        BY <1>2, TotalGrows
      <4> HIDE DEF t
      <4> QED BY <4>1, <4>2
    <3>4. Expiring(c)'
      BY <1>1, <3>3 DEF Expiring
    <3> QED BY <3>2, <3>4 DEF CountInv
  <2> QED BY <2>2, <2>3
<1> QED BY <1>3, <1>4

LEMMA TickCounts ==
  ASSUME RateInv, Tick, NEW c \in Client, CountInv(c)
  PROVE  CountInv(c)'
<1> DEFINE W == Window
           old == Total(passes[c])
           new == Total(passes'[c])
<1>1. /\ passes[c] \in [Age -> Nat] /\ count[c] \in Nat /\ Burst \in Nat
      /\ ttl[c] \in {None} \cup 1..W /\ None \notin Nat
      /\ W \in Nat /\ W >= 1 /\ MaxCount \in Nat
  BY WindowIsNat, RateAssumption DEF RateInv, LimiterTypeOK
<1>2. /\ passes'[c] = [a \in Age |-> IF a = 0 THEN 0 ELSE passes[c][a - 1]]
      /\ count'[c] = IF Ends(c) THEN 0 ELSE count[c]
      /\ ttl'[c] = IF ttl[c] = None \/ Ends(c) THEN None ELSE ttl[c] - 1
      /\ pipeline' = pipeline /\ asker' = asker
      /\ c \in apart' <=> /\ \E a \in Age : passes'[c][a] > 0
                          /\ c \in apart \/ (Ends(c) /\ Waiting(c))
  BY DEF Tick, Waiting
<1>3. passes'[c] \in [Age -> Nat]
  <2>1. \A a \in Age : a # 0 => a - 1 \in Age
    BY <1>1 DEF Age
  <2>2. \A a \in Age : (IF a = 0 THEN 0 ELSE passes[c][a - 1]) \in Nat
    BY <1>1, <2>1
  <2> QED BY <1>2, <2>2
<1>4. \A n \in 1..W : new[n] = old[n - 1]
  <2> DEFINE f == passes[c]
             h == passes'[c]
  <2>1. /\ W \in Nat /\ IsSums(old, f, W) /\ IsSums(new, h, W)
        /\ \A a \in 0..(W - 1) : f[a] \in Nat
        /\ \A a \in 0..(W - 1) : h[a] = IF a = 0 THEN 0 ELSE f[a - 1]
    BY <1>1, <1>2, <1>3, TotalIsSums DEF Age
  <2> HIDE DEF old, new, f, h, W
  <2> QED BY <2>1, SumsShift
<1>5. /\ old[0] = 0
      /\ \A n \in 0..W : old[n] \in Nat
      /\ \A m, n \in 0..W : m <= n => old[m] <= old[n]
  BY <1>1, TotalGrows
<1>6. \A n \in 0..W : new[n] \in Nat /\ new[n] <= new[W]
  BY <1>3, TotalGrows
<1>7. PICK s \in 1..W : Split(c, s)
  BY DEF CountInv
<1>8. /\ old[s] <= count[c] /\ old[s] <= Burst
      /\ old[W] - old[s] <= IF c \in apart THEN Burst ELSE 0
      /\ ttl[c] # None => ttl[c] + s >= W + 1
  BY <1>7 DEF Split
<1>9. ASSUME NEW t \in 1..W, new[t] <= count'[c], new[t] <= Burst,
             new[W] - new[t] <= (IF c \in apart' THEN Burst ELSE 0),
             ttl'[c] # None => ttl'[c] + t >= W + 1
      PROVE  Split(c, t)'
  BY <1>9 DEF Split
<1>10. W \in 1..W /\ 1 \in 1..W /\ W - 1 \in 0..W /\ W \in 0..W /\ s \in 0..W
  BY <1>1
<1>11. Waiting(c)' = Waiting(c)
  BY <1>2 DEF Waiting
<1>12. CASE \A a \in Age : passes'[c][a] = 0
  <2>1. new[W] = 0
    BY <1>1, <1>3, <1>12, TotalGrows, TotalOfNothing
  <2> HIDE DEF new, old
  <2>2. new[W] <= count'[c] /\ new[W] <= Burst /\ new[W] - new[W] = 0 /\ (0 <= IF c \in apart' THEN Burst ELSE 0)
    BY <1>1, <1>2, <2>1
  <2>3. ttl'[c] # None => ttl'[c] + W >= W + 1
    <3>1. ASSUME ttl'[c] # None PROVE ttl'[c] \in Nat /\ ttl'[c] >= 1
      BY <1>1, <1>2, <3>1 DEF Ends
    <3> QED BY <1>1, <3>1
  <2>4. Split(c, W)'
    BY <1>9, <1>10, <2>2, <2>3
  <2>5. Expiring(c)'
    BY <1>12 DEF Expiring
  <2> QED BY <1>10, <2>4, <2>5 DEF CountInv
<1>13. CASE Ends(c) /\ \E a \in Age : passes'[c][a] > 0
  <2>1. ttl[c] = 1 /\ s = W
    BY <1>1, <1>8, <1>13 DEF Ends
  <2>2. c \in apart'
    <3>1. SUFFICES ASSUME c \notin apart, ~Waiting(c) PROVE FALSE
      BY <1>2, <1>13
    <3>2. PICK a \in Age : passes'[c][a] > 0
      BY <1>13
    <3>3. a # 0 /\ passes[c][a - 1] > 0 /\ a - 1 \in Age /\ a <= W - 1 /\ a \in Nat
      BY <1>1, <1>2, <3>2 DEF Age
    <3>4. a - 1 >= W - 1
      BY <2>1, <3>1, <3>3 DEF CountInv, Expiring
    <3> QED BY <1>1, <3>3, <3>4
  <2>3. new[1] = 0 /\ new[W] = old[W - 1] /\ old[W - 1] <= old[W]
    BY <1>1, <1>4, <1>5, <1>10
  <2>4. old[W] \in Nat /\ old[W - 1] \in Nat
    BY <1>5, <1>10
  <2> HIDE DEF new, old, W
  <2>5. new[1] <= count'[c] /\ new[1] <= Burst /\ new[W] - new[1] <= Burst
    BY <1>1, <1>2, <1>8, <1>13, <2>1, <2>3, <2>4
  <2>6. ttl'[c] = None
    BY <1>2, <1>13
  <2>7. Split(c, 1)'
    BY <1>9, <1>10, <2>2, <2>5, <2>6
  <2> QED BY <1>10, <2>2, <2>7 DEF CountInv, Expiring, W
<1>14. CASE ~Ends(c) /\ \E a \in Age : passes'[c][a] > 0
  <2> DEFINE t == IF s < W THEN s + 1 ELSE W
  <2>1. t \in 1..W /\ t - 1 \in 0..W /\ t - 1 <= s /\ (s < W => t - 1 = s) /\ (~(s < W) => s = W /\ t = W)
    BY <1>1
  <2>2. (c \in apart' <=> c \in apart) /\ count'[c] = count[c] /\ ttl'[c] = (IF ttl[c] = None THEN None ELSE ttl[c] - 1)
    BY <1>2, <1>14
  <2> HIDE DEF t
  <2>3. new[t] = old[t - 1] /\ new[W] = old[W - 1] /\ old[t - 1] <= old[s] /\ old[W - 1] <= old[W]
    BY <1>1, <1>4, <1>5, <1>10, <2>1
  <2>4. old[W] \in Nat /\ old[W - 1] \in Nat /\ old[s] \in Nat /\ old[t - 1] \in Nat
    BY <1>5, <1>10, <2>1
  <2> HIDE DEF new, old, W
  <2>5. new[t] <= count'[c] /\ new[t] <= Burst
    BY <1>1, <1>8, <2>2, <2>3, <2>4
  <2>6. new[W] - new[t] <= IF c \in apart' THEN Burst ELSE 0
    <3>1. CASE s < W
      <4>1. new[W] - new[t] <= old[W] - old[s]
        BY <2>1, <2>3, <2>4, <3>1
      <4>2. new[W] - new[t] \in Int /\ old[W] - old[s] \in Int
        BY <2>3, <2>4
      <4> QED BY <1>1, <1>8, <2>2, <4>1, <4>2
    <3>2. CASE ~(s < W)
      <4>1. new[W] - new[t] = 0
        BY <2>1, <2>3, <2>4, <3>2
      <4> QED BY <1>1, <4>1
    <3> QED BY <3>1, <3>2
  <2>7. ttl'[c] # None => ttl'[c] + t >= W + 1
    <3>1. SUFFICES ASSUME ttl[c] # None PROVE ttl'[c] + t >= W + 1
      BY <2>2
    <3>2. ttl[c] \in 1..W /\ ttl[c] # 1 /\ ttl[c] + s >= W + 1 /\ ttl'[c] = ttl[c] - 1
      BY <1>1, <1>8, <1>14, <2>2, <3>1 DEF Ends
    <3> QED BY <1>1, <2>1, <3>2
  <2>8. Split(c, t)'
    BY <1>9, <2>1, <2>5, <2>6, <2>7
  <2>9. Expiring(c)'
    <3>1. SUFFICES ASSUME c \notin apart, ~Waiting(c), NEW a \in Age, passes'[c][a] > 0
                   PROVE  ttl'[c] # None /\ a >= W - ttl'[c]
      BY <1>11, <2>2 DEF Expiring, W
    <3>2. a # 0 /\ passes[c][a - 1] > 0 /\ a - 1 \in Age /\ a \in Nat
      BY <1>1, <1>2, <3>1 DEF Age, W
    <3>3. ttl[c] # None /\ a - 1 >= W - ttl[c]
      BY <3>1, <3>2 DEF CountInv, Expiring, W
    <3>4. ttl[c] \in 1..W /\ ttl'[c] = ttl[c] - 1
      BY <1>1, <2>2, <3>3
    <3> QED BY <1>1, <3>2, <3>3, <3>4
  <2> QED BY <2>1, <2>8, <2>9 DEF CountInv, W
<1> QED
  <2>1. \A a \in Age : passes'[c][a] \in Nat
    BY <1>3
  <2> QED BY <1>12, <1>13, <1>14, <2>1

LEMMA CountStep ==
  ASSUME RateInv, [LimiterNext]_limiterVars, NEW c \in Client, CountInv(c)
  PROVE  CountInv(c)'
<1>1. /\ pipeline \in [Gateway -> {"idle", "incr", "expire"}] /\ asker \in [Gateway -> Client \cup {None}]
  BY DEF RateInv, LimiterTypeOK
<1>2. ASSUME UNCHANGED <<count, ttl, passes, apart, pipeline, asker>> PROVE CountInv(c)'
  BY <1>2, CountStays DEF Waiting
<1>3. ASSUME NEW g \in Gateway, NEW d \in Client, Allow(g, d) PROVE CountInv(c)'
  BY <1>2, <1>3 DEF Allow, redis, seen
<1>4. ASSUME NEW g \in Gateway, NEW d \in Client, Send(g, d) PROVE CountInv(c)'
  <2>1. /\ pipeline[g] = "idle" /\ pipeline' = [pipeline EXCEPT ![g] = "incr"] /\ asker' = [asker EXCEPT ![g] = d]
        /\ UNCHANGED <<count, ttl, passes, apart>>
    BY <1>4 DEF Send, seen
  <2>2. Waiting(c) => Waiting(c)'
    BY <1>1, <2>1 DEF Waiting
  <2> QED BY <2>1, <2>2, CountStays
<1>5. ASSUME NEW g \in Gateway, GiveUp(g) PROVE CountInv(c)'
  BY <1>2, <1>5 DEF GiveUp
<1>6. ASSUME NEW g \in Gateway, Break(g) PROVE CountInv(c)'
  <2>1. /\ pipeline' = [pipeline EXCEPT ![g] = "idle"] /\ asker' = [asker EXCEPT ![g] = None]
        /\ apart' = (IF pipeline[g] = "expire" THEN apart \cup {asker[g]} ELSE apart)
        /\ UNCHANGED <<count, ttl, passes>>
    BY <1>6 DEF Break, Done
  <2>2. Waiting(c) => Waiting(c)' \/ c \in apart'
    BY <1>1, <2>1 DEF Waiting
  <2>3. c \in apart => c \in apart'
    BY <2>1
  <2> QED BY <2>1, <2>2, <2>3, CountStays
<1>7. ASSUME UNCHANGED limiterVars PROVE CountInv(c)'
  BY <1>2, <1>7 DEF limiterVars, redis, seen
<1> QED BY <1>3, <1>4, <1>5, <1>6, <1>7, IncrCounts, ExpireCounts, TickCounts DEF LimiterNext, Request

\* Every variable of the limiter keeps its type, the counted requests in the
\* window being unbounded, and no command is under way for nobody.
THEOREM LimiterTyped ==
  LimiterSpec => []RateInv
<1>1. LimiterInit => RateInv
  BY RateInit
<1>2. RateInv /\ [LimiterNext]_limiterVars => RateInv'
  BY RateTypeStep
<1> QED BY <1>1, <1>2, PTL DEF LimiterSpec

\* No window counts more requests within the burst than the burst, of all
\* replicas together, or twice as many after a lost or overtaken EXPIRE,
\* whatever the burst, the rate and the number of replicas and clients.
THEOREM WindowIsKept ==
  LimiterSpec => []WindowKept
<1> DEFINE Inv == RateInv /\ \A c \in Client : CountInv(c)
<1>1. LimiterInit => Inv
  BY RateInit, CountInit
<1>2. Inv /\ [LimiterNext]_limiterVars => Inv'
  BY RateTypeStep, CountStep
<1>3. Inv => WindowKept
  <2> SUFFICES ASSUME RateInv, NEW c \in Client, CountInv(c)
               PROVE  Passed(c) <= IF c \in apart THEN 2 * Burst ELSE Burst
    BY DEF WindowKept
  <2> DEFINE t == Total(passes[c])
  <2>1. PICK s \in 1..Window : Split(c, s)
    BY DEF CountInv
  <2>2. t[s] <= Burst /\ t[Window] - t[s] <= IF c \in apart THEN Burst ELSE 0
    BY <2>1 DEF Split
  <2>3. t[s] \in Nat /\ t[Window] \in Nat /\ Burst \in Nat
    BY WindowIsNat, TotalGrows, RateAssumption DEF RateInv, LimiterTypeOK
  <2> HIDE DEF t
  <2>4. t[Window] <= IF c \in apart THEN 2 * Burst ELSE Burst
    BY <2>2, <2>3
  <2> QED BY <2>4 DEF Passed, t
<1> HIDE DEF Inv
<1> QED BY <1>1, <1>2, <1>3, PTL DEF LimiterSpec

-----------------------------------------------------------------------------
\* Requests that were let through and may still be counted; and those counted
\* that have not been let through.
Astray(c) == {g \in Gateway : g \in late /\ pipeline[g] = "incr" /\ asker[g] = c}
Coming(c) == {g \in Gateway : g \notin late /\ pipeline[g] = "expire" /\ asker[g] = c}

\* While a client is refused its counter will expire, or it has none, or one
\* that only requests made which had been let through before.
BackInv(c) ==
  c \in refused =>
    /\ ttl[c] # None => ttl[c] + quiet[c] <= Window
    /\ Cardinality(Astray(c)) + 1 <= Cardinality(Gateway)
    /\ ttl[c] = None =>
         count[c] + Cardinality(Astray(c)) + 1 <= Cardinality(Gateway) + Cardinality(Coming(c))

LEMMA SetsCount ==
  ASSUME IsFiniteSet(Gateway), NEW c
  PROVE  /\ IsFiniteSet(Astray(c)) /\ IsFiniteSet(Coming(c))
         /\ Cardinality(Astray(c)) \in Nat /\ Cardinality(Coming(c)) \in Nat
         /\ Cardinality(Gateway) \in Nat
  BY FS_Subset, FS_CardinalityType DEF Astray, Coming

\* A step that takes nothing from those coming and adds nothing to those astray,
\* and does not refuse the client.
LEMMA BackStays ==
  ASSUME RateInv, IsFiniteSet(Gateway), NEW c \in Client, BackInv(c),
         c \in refused' =>
           /\ c \in refused /\ ttl'[c] = ttl[c] /\ count'[c] = count[c] /\ quiet'[c] = quiet[c]
           /\ Astray(c)' \subseteq Astray(c) /\ Coming(c) \subseteq Coming(c)' /\ Coming(c)' \subseteq Gateway
  PROVE  BackInv(c)'
<1>1. SUFFICES ASSUME c \in refused' PROVE BackInv(c)'
  BY DEF BackInv
<1>2. /\ Cardinality(Astray(c)') <= Cardinality(Astray(c)) /\ Cardinality(Astray(c)') \in Nat
      /\ Cardinality(Coming(c)') >= Cardinality(Coming(c)) /\ Cardinality(Coming(c)') \in Nat
  <2>1. IsFiniteSet(Coming(c)') /\ IsFiniteSet(Astray(c)')
    BY <1>1, SetsCount, FS_Subset
  <2> QED BY <1>1, <2>1, SetsCount, FS_Subset, FS_CardinalityType
<1>3. count[c] \in Nat
  BY RateAssumption DEF RateInv, LimiterTypeOK
<1>4. BackInv(c) /\ c \in refused
  BY <1>1
<1>5. ttl[c] = None =>
        count[c] + Cardinality(Astray(c)') + 1 <= Cardinality(Gateway) + Cardinality(Coming(c)')
  BY <1>2, <1>3, <1>4, SetsCount DEF BackInv
<1>6. Cardinality(Astray(c)') + 1 <= Cardinality(Gateway)
  BY <1>2, <1>4, SetsCount DEF BackInv
<1> QED BY <1>1, <1>4, <1>5, <1>6 DEF BackInv

LEMMA IncrBack ==
  ASSUME RateInv, IsFiniteSet(Gateway), NEW g \in Gateway, Incr(g), NEW c \in Client, BackInv(c)
  PROVE  BackInv(c)'
<1>1. /\ pipeline[g] = "incr" /\ pipeline' = [pipeline EXCEPT ![g] = "expire"] /\ asker' = asker /\ late' = late
      /\ count' = [count EXCEPT ![asker[g]] = @ + 1] /\ quiet' = [quiet EXCEPT ![asker[g]] = 0]
      /\ ttl' = ttl /\ refused' = refused
  BY DEF Incr
<1>2. /\ pipeline \in [Gateway -> {"idle", "incr", "expire"}] /\ count \in [Client -> 0..MaxCount]
      /\ quiet \in [Client -> 0..Window] /\ ttl[c] \in {None} \cup 1..Window
      /\ Window \in Nat /\ MaxCount \in Nat /\ count[c] \in Nat
  BY WindowIsNat, RateAssumption DEF RateInv, LimiterTypeOK
<1>3. CASE c # asker[g]
  <2>1. Astray(c)' = Astray(c) /\ Coming(c)' = Coming(c) /\ Coming(c) \subseteq Gateway
    BY <1>1, <1>2, <1>3 DEF Astray, Coming
  <2>2. count'[c] = count[c] /\ quiet'[c] = quiet[c]
    BY <1>1, <1>2, <1>3
  <2> QED BY <1>1, <2>1, <2>2, BackStays
<1>4. CASE c = asker[g]
  <2>1. SUFFICES ASSUME c \in refused PROVE BackInv(c)'
    BY <1>1 DEF BackInv
  <2>2. count'[c] = count[c] + 1 /\ quiet'[c] = 0
    BY <1>1, <1>2, <1>4
  <2>3. CASE g \in late
    <3>1. Astray(c)' = Astray(c) \ {g} /\ g \in Astray(c) /\ Coming(c)' = Coming(c)
      BY <1>1, <1>2, <1>4, <2>3 DEF Astray, Coming
    <3>2. Cardinality(Astray(c)') = Cardinality(Astray(c)) - 1
      BY <3>1, SetsCount, FS_RemoveElement
    <3>3. ttl[c] = None => count[c] + Cardinality(Astray(c)) + 1 <= Cardinality(Gateway) + Cardinality(Coming(c))
      BY <2>1 DEF BackInv
    <3>4. Cardinality(Astray(c)) + 1 <= Cardinality(Gateway)
      BY <2>1 DEF BackInv
    <3>5. Cardinality(Astray(c)') + 1 <= Cardinality(Gateway)
      BY <3>2, <3>4, SetsCount
    <3>6. ttl[c] = None => (count[c] + 1) + Cardinality(Astray(c)') + 1 <= Cardinality(Gateway) + Cardinality(Coming(c)')
      BY <1>2, <3>1, <3>2, <3>3, SetsCount
    <3>7. ttl[c] # None => ttl[c] + 0 <= Window
      BY <1>2
    <3> QED BY <1>1, <2>2, <3>5, <3>6, <3>7 DEF BackInv
  <2>4. CASE g \notin late
    <3>1. Coming(c)' = Coming(c) \cup {g} /\ g \notin Coming(c) /\ Astray(c)' = Astray(c)
      BY <1>1, <1>2, <1>4, <2>4 DEF Astray, Coming
    <3>2. Cardinality(Coming(c)') = Cardinality(Coming(c)) + 1
      BY <3>1, SetsCount, FS_AddElement
    <3>3. ttl[c] = None => count[c] + Cardinality(Astray(c)) + 1 <= Cardinality(Gateway) + Cardinality(Coming(c))
      BY <2>1 DEF BackInv
    <3>4. Cardinality(Astray(c)') + 1 <= Cardinality(Gateway)
      BY <2>1, <3>1 DEF BackInv
    <3>5. ttl[c] = None => (count[c] + 1) + Cardinality(Astray(c)') + 1 <= Cardinality(Gateway) + Cardinality(Coming(c)')
      BY <1>2, <3>1, <3>2, <3>3, SetsCount
    <3>6. ttl[c] # None => ttl[c] + 0 <= Window
      BY <1>2
    <3> QED BY <1>1, <2>2, <3>4, <3>5, <3>6 DEF BackInv
  <2> QED BY <2>3, <2>4
<1> QED BY <1>3, <1>4

LEMMA ExpireBack ==
  ASSUME RateInv, IsFiniteSet(Gateway), NEW g \in Gateway, Expire(g), NEW c \in Client, BackInv(c)
  PROVE  BackInv(c)'
<1>1. /\ pipeline[g] = "expire" /\ pipeline' = [pipeline EXCEPT ![g] = "idle"] /\ asker' = [asker EXCEPT ![g] = None]
      /\ late' = late \ {g}
      /\ ttl' = [ttl EXCEPT ![asker[g]] = IF count[asker[g]] > 0 THEN Window ELSE @]
      /\ quiet' = [quiet EXCEPT ![asker[g]] = 0]
      /\ count' = count
      /\ refused' \subseteq refused \cup {asker[g]}
  BY DEF Expire, Done, Decide
<1>2. /\ pipeline \in [Gateway -> {"idle", "incr", "expire"}] /\ asker \in [Gateway -> Client \cup {None}]
      /\ ttl \in [Client -> {None} \cup 1..Window] /\ count[c] \in Nat
      /\ quiet \in [Client -> 0..Window]
      /\ Window \in Nat /\ Window >= 1 /\ None \notin Nat
  BY WindowIsNat, RateAssumption DEF RateInv, LimiterTypeOK
<1>3. CASE c # asker[g]
  <2>1. Astray(c)' = Astray(c) /\ Coming(c)' = Coming(c) /\ Coming(c) \subseteq Gateway
    BY <1>1, <1>2, <1>3 DEF Astray, Coming
  <2>2. ttl'[c] = ttl[c] /\ quiet'[c] = quiet[c] /\ (c \in refused' => c \in refused)
    BY <1>1, <1>2, <1>3
  <2> QED BY <1>1, <2>1, <2>2, BackStays
<1>4. CASE c = asker[g]
  <2>1. Astray(c)' \subseteq Gateway \ {g} /\ Coming(c)' \subseteq Gateway
    BY <1>1, <1>2 DEF Astray, Coming
  <2>2. /\ Cardinality(Astray(c)') \in Nat /\ Cardinality(Coming(c)') \in Nat
        /\ Cardinality(Astray(c)') <= Cardinality(Gateway) - 1
    <3>1. IsFiniteSet(Gateway \ {g}) /\ Cardinality(Gateway \ {g}) = Cardinality(Gateway) - 1
      BY FS_RemoveElement
    <3>2. IsFiniteSet(Astray(c)') /\ Cardinality(Astray(c)') <= Cardinality(Gateway \ {g})
      BY <2>1, <3>1, FS_Subset
    <3>3. IsFiniteSet(Coming(c)')
      BY <2>1, FS_Subset
    <3> QED BY <3>1, <3>2, <3>3, FS_CardinalityType
  <2>3. Cardinality(Gateway) \in Nat
    BY SetsCount
  <2>4. Cardinality(Astray(c)') + 1 <= Cardinality(Gateway)
    BY <2>2, <2>3
  <2>5. quiet'[c] = 0 /\ ttl'[c] = IF count[c] > 0 THEN Window ELSE ttl[c]
    BY <1>1, <1>2, <1>4
  <2>6. ttl'[c] # None => ttl'[c] + 0 <= Window
    BY <1>2, <2>5
  <2>7. ttl'[c] = None => count[c] + Cardinality(Astray(c)') + 1 <= Cardinality(Gateway) + Cardinality(Coming(c)')
    <3>1. ttl'[c] = None => count[c] = 0
      BY <1>2, <2>5
    <3> QED BY <2>2, <2>3, <3>1
  <2> QED BY <1>1, <2>4, <2>5, <2>6, <2>7 DEF BackInv
<1> QED BY <1>3, <1>4

LEMMA TickBack ==
  ASSUME RateInv, IsFiniteSet(Gateway), Tick, NEW c \in Client, BackInv(c)
  PROVE  BackInv(c)'
<1>1. SUFFICES ASSUME c \in refused PROVE BackInv(c)'
  BY DEF Tick, BackInv
<1>2. /\ pipeline' = pipeline /\ asker' = asker /\ late' = late /\ refused' = refused
      /\ count'[c] = (IF Ends(c) THEN 0 ELSE count[c])
      /\ ttl'[c] = (IF ttl[c] = None \/ Ends(c) THEN None ELSE ttl[c] - 1)
      /\ quiet'[c] = Min2(quiet[c] + 1, Window)
  BY <1>1 DEF Tick
<1>3. /\ ttl[c] \in {None} \cup 1..Window /\ count[c] \in Nat /\ quiet[c] \in Nat
      /\ Window \in Nat /\ None \notin Nat
  BY WindowIsNat, RateAssumption DEF RateInv, LimiterTypeOK
<1>4. Astray(c)' = Astray(c) /\ Coming(c)' = Coming(c)
  BY <1>2 DEF Astray, Coming
<1>5. BackInv(c)
  OBVIOUS
<1>6. Cardinality(Astray(c)) + 1 <= Cardinality(Gateway)
  BY <1>1 DEF BackInv
<1>7. ttl'[c] # None => ttl'[c] + quiet'[c] <= Window
  <2>1. SUFFICES ASSUME ttl'[c] # None PROVE ttl'[c] + quiet'[c] <= Window
    OBVIOUS
  <2>2. ttl[c] # None /\ ttl[c] \in Nat /\ ttl'[c] = ttl[c] - 1
    BY <1>2, <1>3, <2>1
  <2>3. ttl[c] + quiet[c] <= Window
    BY <1>1, <2>2 DEF BackInv
  <2>4. quiet'[c] <= quiet[c] + 1 /\ quiet'[c] \in Nat
    BY <1>2, <1>3 DEF Min2
  <2> QED BY <1>3, <2>2, <2>3, <2>4
<1>8. ttl'[c] = None => count'[c] + Cardinality(Astray(c)) + 1 <= Cardinality(Gateway) + Cardinality(Coming(c))
  <2>1. SUFFICES ASSUME ttl'[c] = None
                 PROVE  count'[c] + Cardinality(Astray(c)) + 1 <= Cardinality(Gateway) + Cardinality(Coming(c))
    OBVIOUS
  <2>2. CASE Ends(c)
    BY <1>2, <1>6, <2>2, SetsCount
  <2>3. CASE ~Ends(c)
    <3>1. ttl[c] = None
      BY <1>2, <1>3, <2>1, <2>3
    <3> QED BY <1>1, <1>2, <2>3, <3>1 DEF BackInv
  <2> QED BY <2>2, <2>3
<1> QED BY <1>2, <1>4, <1>6, <1>7, <1>8 DEF BackInv

LEMMA BackStep ==
  ASSUME RateInv, IsFiniteSet(Gateway), [LimiterNext]_limiterVars, NEW c \in Client, BackInv(c)
  PROVE  BackInv(c)'
<1>1. /\ pipeline \in [Gateway -> {"idle", "incr", "expire"}] /\ asker \in [Gateway -> Client \cup {None}]
      /\ Coming(c) \subseteq Gateway
  BY DEF RateInv, LimiterTypeOK, Coming
<1>2. ASSUME UNCHANGED <<count, ttl, refused, quiet, pipeline, asker, late>> PROVE BackInv(c)'
  <2>1. Astray(c)' = Astray(c) /\ Coming(c)' = Coming(c)
    BY <1>2 DEF Astray, Coming
  <2> QED BY <1>1, <1>2, <2>1, BackStays
<1>3. ASSUME NEW g \in Gateway, NEW d \in Client, Allow(g, d) PROVE BackInv(c)'
  BY <1>2, <1>3 DEF Allow, redis, seen
<1>4. ASSUME NEW g \in Gateway, NEW d \in Client, Send(g, d) PROVE BackInv(c)'
  <2>1. /\ pipeline[g] = "idle" /\ pipeline' = [pipeline EXCEPT ![g] = "incr"] /\ asker' = [asker EXCEPT ![g] = d]
        /\ late' = late \ {g} /\ UNCHANGED <<count, ttl, refused, quiet>>
    BY <1>4 DEF Send, seen
  <2>2. Astray(c)' \subseteq Astray(c) /\ Coming(c)' = Coming(c)
    BY <1>1, <2>1 DEF Astray, Coming
  <2> QED BY <1>1, <2>1, <2>2, BackStays
<1>5. ASSUME NEW g \in Gateway, GiveUp(g) PROVE BackInv(c)'
  <2>1. /\ late' = late \cup {g} /\ refused' = refused \ {asker[g]}
        /\ UNCHANGED <<count, ttl, pipeline, asker, quiet>>
    BY <1>5 DEF GiveUp
  <2>2. c \in refused' => Astray(c)' = Astray(c) /\ Coming(c)' = Coming(c)
    BY <1>1, <2>1 DEF Astray, Coming
  <2> QED BY <1>1, <2>1, <2>2, BackStays
<1>6. ASSUME NEW g \in Gateway, Break(g) PROVE BackInv(c)'
  <2>1. /\ pipeline' = [pipeline EXCEPT ![g] = "idle"] /\ asker' = [asker EXCEPT ![g] = None] /\ late' = late \ {g}
        /\ refused' = (IF g \in late THEN refused ELSE refused \ {asker[g]})
        /\ UNCHANGED <<count, ttl, quiet>>
    BY <1>6 DEF Break, Done
  <2>2. c \in refused' => Astray(c)' \subseteq Astray(c) /\ Coming(c) \subseteq Coming(c)' /\ Coming(c)' \subseteq Gateway
    BY <1>1, <2>1 DEF Astray, Coming
  <2>3. c \in refused' => c \in refused
    BY <2>1
  <2> QED BY <2>1, <2>2, <2>3, BackStays
<1>7. ASSUME UNCHANGED limiterVars PROVE BackInv(c)'
  BY <1>2, <1>7 DEF limiterVars, redis, seen
<1> QED BY <1>3, <1>4, <1>5, <1>6, <1>7, IncrBack, ExpireBack, TickBack DEF LimiterNext, Request

\* A client that was refused and then stays away for a window is let in again,
\* if the requests that can be under way at the same time, one per replica here,
\* are no more than the burst: more of them could, having been let through
\* already, fill a counter that never expires.
THEOREM BackAfterWindow ==
  ASSUME IsFiniteSet(Gateway), Cardinality(Gateway) <= Burst
  PROVE  LimiterSpec => []LetInAgain
<1> DEFINE Inv == RateInv /\ \A c \in Client : BackInv(c)
<1>1. LimiterInit => Inv
  BY RateInit DEF LimiterInit, BackInv
<1>2. Inv /\ [LimiterNext]_limiterVars => Inv'
  BY RateTypeStep, BackStep
<1>3. Inv => LetInAgain
  <2> SUFFICES ASSUME RateInv, NEW c \in refused, c \in Client, BackInv(c), quiet[c] = Window, ~InFlight(c)
               PROVE  count[c] < Burst
    BY DEF LetInAgain, RateInv, LimiterTypeOK
  <2>1. /\ ttl[c] \in {None} \cup 1..Window /\ count[c] \in Nat /\ Burst \in Nat /\ Window \in Nat
    BY WindowIsNat, RateAssumption DEF RateInv, LimiterTypeOK
  <2>2. ttl[c] = None
    BY <2>1 DEF BackInv
  <2>3. Astray(c) = {} /\ Coming(c) = {}
    BY DEF Astray, Coming, InFlight
  <2>4. Cardinality(Astray(c)) = 0 /\ Cardinality(Coming(c)) = 0
    BY <2>3, FS_EmptySet
  <2>5. count[c] + 0 + 1 <= Cardinality(Gateway) + 0
    BY <2>2, <2>4 DEF BackInv
  <2> QED BY <2>1, <2>5, SetsCount
<1> HIDE DEF Inv
<1> QED BY <1>1, <1>2, <1>3, PTL DEF LimiterSpec

-----------------------------------------------------------------------------
(* Buckets and meter.                                                       *)

Bucket == {None} \cup [tokens : 0..Burst, idle : 0..(Hour + 1)]

LEMMA TokensType ==
  ASSUME NEW b \in Bucket
  PROVE  Tokens(b) \in 0..Burst
<1>1. Burst \in Nat
  BY RateAssumption
<1>2. CASE b = None
  BY <1>1, <1>2 DEF Tokens
<1>3. CASE b # None
  <2>1. b.tokens \in 0..Burst /\ b.idle \in Nat
    BY <1>3, RateAssumption DEF Bucket
  <2> QED BY <1>1, <1>3, <2>1 DEF Tokens, Min2
<1> QED BY <1>2, <1>3

\* A bucket that is dropped was full.
LEMMA CleanKeeps ==
  ASSUME NEW own \in [Client -> Bucket], NEW c \in Client
  PROVE  Clean(own)[c] \in Bucket /\ Tokens(Clean(own)[c]) = Tokens(own[c])
<1>1. CASE Clean(own)[c] = own[c]
  BY <1>1
<1>2. CASE Clean(own)[c] # own[c]
  <2>1. own[c] # None /\ own[c].idle > Hour /\ Clean(own)[c] = None
    BY <1>2 DEF Clean
  <2>2. own[c].tokens \in Nat /\ own[c].idle \in Nat /\ Hour \in Nat /\ Burst \in Nat /\ Hour >= Burst
    BY <2>1, RateAssumption DEF Bucket
  <2>3. ~(own[c].tokens + own[c].idle < Burst)
    BY <2>1, <2>2
  <2> QED BY <2>1, <2>3 DEF Tokens, Min2, Bucket
<1> QED BY <1>1, <1>2

\* A tick adds a token, unless the bucket is full.
LEMMA TickAdds ==
  ASSUME NEW b \in Bucket
  PROVE  LET later == IF b = None THEN None ELSE [b EXCEPT !.idle = Min2(@, Hour) + 1]
         IN  Tokens(later) = Min2(Tokens(b) + 1, Burst)
<1>1. Burst \in Nat /\ Hour \in Nat /\ Hour >= Burst
  BY RateAssumption
<1>2. CASE b = None
  BY <1>1, <1>2 DEF Tokens, Min2
<1>3. CASE b # None
  <2> DEFINE t == b.tokens
             i == b.idle
             later == [b EXCEPT !.idle = Min2(@, Hour) + 1]
  <2>1. t \in 0..Burst /\ i \in 0..(Hour + 1)
    BY <1>3 DEF Bucket
  <2>2. later.tokens = t /\ later.idle = Min2(i, Hour) + 1
    BY <1>3 DEF Bucket
  <2>3. later # None
    <3>1. Min2(i, Hour) + 1 \in Nat
      BY <1>1, <2>1 DEF Min2
    <3>2. later \in [tokens : Nat, idle : Nat]
      BY <1>1, <1>3, <2>1, <3>1 DEF Bucket
    <3> QED BY <3>2, RateAssumption
  <2>4. Tokens(b) = Min2(t + i, Burst) /\ Tokens(later) = Min2(t + (Min2(i, Hour) + 1), Burst)
    BY <1>3, <2>2, <2>3 DEF Tokens
  <2> HIDE DEF t, i, later
  <2>5. Min2(t + (Min2(i, Hour) + 1), Burst) = Min2(Min2(t + i, Burst) + 1, Burst)
    BY <1>1, <2>1 DEF Min2
  <2> QED BY <1>3, <2>4, <2>5 DEF later
<1> QED BY <1>2, <1>3

Level(k) == Burst - Tokens(buckets[k[1]][k[2]])

LEMMA MeterCounts ==
  ASSUME NEW b \in Nat, NEW t \in 0..b
  PROVE  /\ Min2(t + 0, b) = t
         /\ b - Min2(t + 1, b) = IF b - t = 0 THEN 0 ELSE (b - t) - 1
  BY DEF Min2

LEMMA MeterStep ==
  ASSUME RateInv, RateInv', [LimiterNext]_limiterVars
  PROVE  [Meter!Next]_<<[k \in Gateway \X Client |-> Level(k)], [k \in Gateway \X Client |-> verdict[k[1]][k[2]]]>>
<1> DEFINE Key == Gateway \X Client
           level == [k \in Key |-> Level(k)]
           told == [k \in Key |-> verdict[k[1]][k[2]]]
<1>1. /\ buckets \in [Gateway -> [Client -> Bucket]]
      /\ verdict \in [Gateway -> [Client -> {"none", "admitted", "refused"}]]
      /\ Burst \in Nat \ {0}
      /\ buckets' \in [Gateway -> [Client -> Bucket]]
  BY RateAssumption DEF RateInv, LimiterTypeOK, Bucket
<1>2. \A k \in Key : Tokens(buckets[k[1]][k[2]]) \in 0..Burst /\ Level(k) \in 0..Burst
  BY <1>1, TokensType DEF Level
<1>3. ASSUME NEW g \in Gateway, NEW c \in Client, Allow(g, c)
      PROVE  Meter!Admit(<<g, c>>) \/ Meter!Refuse(<<g, c>>)
  <2> DEFINE own == Clean(buckets[g])
             left == Tokens(own[c])
             take == IF left > 0 THEN 1 ELSE 0
             new == [tokens |-> left - take, idle |-> 0]
             k0 == <<g, c>>
  <2>1. /\ buckets' = [buckets EXCEPT ![g] = [own EXCEPT ![c] = new]]
        /\ verdict' = [verdict EXCEPT ![g][c] = IF left > 0 THEN "admitted" ELSE "refused"]
    BY <1>3 DEF Allow
  <2>2. own \in [Client -> Bucket]
    BY <1>1 DEF Clean, Bucket
  <2>3. left = Tokens(buckets[g][c]) /\ left \in 0..Burst
    <3>1. buckets[g] \in [Client -> Bucket] /\ buckets[g][c] \in Bucket
      BY <1>1
    <3>2. Tokens(Clean(buckets[g])[c]) = Tokens(buckets[g][c])
      BY <3>1, CleanKeeps
    <3>3. Tokens(buckets[g][c]) \in 0..Burst
      BY <3>1, TokensType
    <3> QED BY <3>2, <3>3
  <2>4. Tokens(new) = left - take
    <3>1. take \in {0, 1} /\ left - take \in 0..Burst
      BY <1>1, <2>3
    <3>2. new \in [tokens : Nat, idle : Nat]
      BY <3>1
    <3>3. new # None
      BY <3>2, RateAssumption
    <3> HIDE DEF left, take
    <3>4. new.tokens = left - take /\ new.idle = 0
      OBVIOUS
    <3> HIDE DEF new
    <3>5. Tokens(new) = Min2((left - take) + 0, Burst)
      BY <3>3, <3>4 DEF Tokens
    <3>6. left \in 0..Burst
      BY <2>3
    <3>7. Burst \in Nat
      BY <1>1
    <3> QED BY <3>1, <3>5, <3>6, <3>7, MeterCounts
  <2> HIDE DEF own, left, take, new
  <2>5. \A k \in Key : Tokens(buckets'[k[1]][k[2]]) = IF k = k0 THEN left - take ELSE Tokens(buckets[k[1]][k[2]])
    <3> SUFFICES ASSUME NEW h \in Gateway, NEW d \in Client
                 PROVE  Tokens(buckets'[h][d]) = IF h = g /\ d = c THEN left - take ELSE Tokens(buckets[h][d])
      OBVIOUS
    <3>1. CASE h # g
      BY <1>1, <2>1, <3>1
    <3>2. CASE h = g /\ d # c
      <4>1. buckets'[h][d] = own[d]
        BY <1>1, <2>1, <2>2, <3>2
      <4> QED BY <1>1, <3>2, <4>1, CleanKeeps DEF own
    <3>3. CASE h = g /\ d = c
      BY <1>1, <2>1, <2>2, <2>4, <3>3
    <3> QED BY <3>1, <3>2, <3>3
  <2>6. told' = [told EXCEPT ![k0] = IF left > 0 THEN "admitted" ELSE "refused"]
    <3> DEFINE said == IF left > 0 THEN "admitted" ELSE "refused"
    <3>1. verdict' = [verdict EXCEPT ![g][c] = said]
      BY <2>1
    <3> HIDE DEF said
    <3>2. ASSUME NEW h \in Gateway, NEW d \in Client
          PROVE  verdict'[h][d] = IF <<h, d>> = k0 THEN said ELSE verdict[h][d]
      <4>1. CASE h # g
        BY <1>1, <3>1, <4>1
      <4>2. CASE h = g
        BY <1>1, <3>1, <4>2
      <4> QED BY <4>1, <4>2
    <3>3. \A k \in Key : verdict'[k[1]][k[2]] = IF k = k0 THEN said ELSE verdict[k[1]][k[2]]
      BY <3>2
    <3>4. told' = [told EXCEPT ![k0] = said]
      BY <3>3
    <3> QED BY <3>4 DEF said
  <2>7. \A k \in Key : Level(k)' = IF k = k0 THEN Burst - (left - take) ELSE Level(k)
    BY <2>5 DEF Level
  <2>8. k0 \in Key /\ level[k0] = Burst - left
    BY <2>3 DEF Level
  <2>9. CASE left > 0
    <3>1. Burst - (left - take) = (Burst - left) + 1 /\ Burst - left < Burst
      BY <1>1, <2>3, <2>9 DEF take
    <3>2. level' = [level EXCEPT ![k0] = @ + 1]
      BY <2>7, <2>8, <3>1
    <3> QED BY <2>6, <2>8, <2>9, <3>1, <3>2 DEF Meter!Admit, Level
  <2>10. CASE ~(left > 0)
    <3>1. Burst - (left - take) = Burst - left /\ Burst - left = Burst
      BY <1>1, <2>3, <2>10 DEF take
    <3>2. level' = level
      BY <2>7, <2>8, <3>1
    <3> QED BY <2>6, <2>8, <2>10, <3>1, <3>2 DEF Meter!Refuse, Level
  <2> QED BY <2>9, <2>10
<1>4. ASSUME Tick PROVE Meter!Tick
  <2>1. \A k \in Key : Tokens(buckets'[k[1]][k[2]]) = Min2(Tokens(buckets[k[1]][k[2]]) + 1, Burst)
    <3> SUFFICES ASSUME NEW g \in Gateway, NEW c \in Client
                 PROVE  Tokens(buckets'[g][c]) = Min2(Tokens(buckets[g][c]) + 1, Burst)
      OBVIOUS
    <3>1. buckets'[g][c] = IF buckets[g][c] = None THEN None ELSE [buckets[g][c] EXCEPT !.idle = Min2(@, Hour) + 1]
      BY <1>4 DEF Tick
    <3>2. buckets[g][c] \in Bucket
      BY <1>1
    <3> QED BY <3>1, <3>2, TickAdds
  <2>2. ASSUME NEW k \in Key PROVE Level(k)' = IF Level(k) = 0 THEN 0 ELSE Level(k) - 1
    <3> DEFINE t == Tokens(buckets[k[1]][k[2]])
    <3>1. Level(k)' = Burst - Min2(t + 1, Burst) /\ Level(k) = Burst - t /\ t \in 0..Burst
      BY <1>2, <2>1 DEF Level
    <3> HIDE DEF t
    <3>2. Burst \in Nat
      BY <1>1
    <3> QED BY <3>1, <3>2, MeterCounts
  <2>3. told' = [k \in Key |-> "none"]
    BY <1>4 DEF Tick
  <2> QED BY <2>2, <2>3 DEF Meter!Tick, Level
<1>5. ASSUME UNCHANGED <<buckets, verdict>>
      PROVE  UNCHANGED <<level, told>>
  BY <1>5 DEF Level
<1>6. ASSUME NEW g \in Gateway, Incr(g) \/ Expire(g) \/ GiveUp(g) \/ Break(g) \/ \E c \in Client : Send(g, c)
      PROVE  UNCHANGED <<buckets, verdict>>
  BY <1>6 DEF Incr, Expire, GiveUp, Break, Send, memory
<1>7. ASSUME UNCHANGED limiterVars PROVE UNCHANGED <<buckets, verdict>>
  BY <1>7 DEF limiterVars, memory
<1> QED BY <1>3, <1>4, <1>5, <1>6, <1>7 DEF LimiterNext, Request, Meter!Next

\* The buckets, filled lazily, made when they are needed and dropped when they
\* are idle, decide every request as an ideal meter does.
THEOREM BucketsAreMeters ==
  LimiterSpec => ImplementsMeter
<1>1. LimiterInit => Meter!Init
  BY RateAssumption DEF LimiterInit, Meter!Init, Tokens
<1>2. RateInv /\ RateInv' /\ [LimiterNext]_limiterVars =>
        [Meter!Next]_<<[k \in Gateway \X Client |-> Level(k)], [k \in Gateway \X Client |-> verdict[k[1]][k[2]]]>>
  BY MeterStep
<1>3. LimiterSpec => []RateInv
  BY LimiterTyped
<1> QED BY <1>1, <1>2, <1>3, PTL DEF LimiterSpec, ImplementsMeter, Meter!Spec, Level
=============================================================================
