---------------------------- MODULE RateLimiter -----------------------------
(***************************************************************************)
(* Admission at the gateway's replicas: token buckets in the memory of each  *)
(* replica, or one counter per client in Redis, counted up and given an      *)
(* expiry by two commands that share a pipeline but no transaction.  A tick  *)
(* is the time in which a bucket gains a token.                             *)
(***************************************************************************)
EXTENDS Integers, FiniteSets

CONSTANTS
  Client,       \* keys of X-User-ID and X-Project-ID
  Gateway,      \* replicas; each handles a request at a time
  None,
  Rps,          \* tokens per second, hence ticks per second (10)
  Burst,        \* (20)
  MaxLimiters,  \* buckets of a replica above which idle ones are dropped (10000)
  Hour,         \* ticks after which a bucket counts as idle
  Counted,      \* bound: clients that Redis is asked about; counters do not meet
  MaxCount      \* bound on a counter in Redis

ASSUME RateAssumption ==
  /\ {Rps, Burst, MaxLimiters, MaxCount} \subseteq Nat \ {0}
  /\ Counted \subseteq Client
  /\ Hour \in Nat /\ Hour >= Burst   \* an idle bucket is full again
  /\ None \notin Nat \cup [tokens : Nat, idle : Nat]

VARIABLES
  backend,    \* of each replica; Redis that is away at its start makes it "memory"
  buckets,    \* per replica and client: its tokens when it was last asked, and
              \* the ticks since then; or None
  verdict,    \* what the last request of this tick was told by a bucket
  count,      \* the counters in Redis; 0 where there is no key
  ttl,        \* ticks a counter has left; None for no expiry
  pipeline,   \* where the pipeline of each replica stands
  asker,      \* the client it is for
  number,     \* what INCR returned
  late,       \* replicas whose request was let through before the answer
  passes,     \* history: counted requests within the burst, by client and age
  apart,      \* history: clients with such a request in the last window whose INCR was
              \* not followed by EXPIRE on the same key
  refused,    \* history: clients whose last request was refused by the counter
  quiet       \* history: for those, ticks since a command for the client was executed

memory == <<buckets, verdict>>
redis  == <<count, ttl, pipeline, asker, number, late>>
seen   == <<passes, apart, refused, quiet>>
limiterVars   == <<backend, memory, redis, seen>>

\* burst * 1s / rps, at least a second; EXPIRE takes whole seconds.
Window == Rps * (IF Burst \div Rps > 1 THEN Burst \div Rps ELSE 1)

Age == 0..(Window - 1)

Min2(a, b) == IF a < b THEN a ELSE b

LimiterInit ==
  /\ backend \in [Gateway -> {"memory", "redis"}]
  /\ buckets = [g \in Gateway |-> [c \in Client |-> None]]
  /\ verdict = [g \in Gateway |-> [c \in Client |-> "none"]]
  /\ count = [c \in Client |-> 0]
  /\ ttl = [c \in Client |-> None]
  /\ pipeline = [g \in Gateway |-> "idle"]
  /\ asker = [g \in Gateway |-> None]
  /\ number = [g \in Gateway |-> 0]
  /\ late = {}
  /\ passes = [c \in Client |-> [a \in Age |-> 0]]
  /\ apart = {} /\ refused = {}
  /\ quiet = [c \in Client |-> 0]

-----------------------------------------------------------------------------
(* Buckets, under the mutex of their replica.                               *)

\* A bucket gains a token a tick up to the burst; it is counted when asked.
Tokens(b) == IF b = None THEN Burst ELSE Min2(b.tokens + b.idle, Burst)

\* Faulty variant: with many buckets, all are dropped.
CleanAll(own) ==
  IF Cardinality({c \in Client : own[c] # None}) > MaxLimiters THEN [c \in Client |-> None] ELSE own

\* With many buckets, those not asked for an hour are dropped.
Clean(own) ==
  IF Cardinality({c \in Client : own[c] # None}) > MaxLimiters
  THEN [c \in Client |-> IF own[c] # None /\ own[c].idle > Hour THEN None ELSE own[c]]
  ELSE own

Allow(g, c) ==
  LET own  == Clean(buckets[g])
      left == Tokens(own[c])
      take == IF left > 0 THEN 1 ELSE 0
  IN
  /\ backend[g] = "memory"
  /\ buckets' = [buckets EXCEPT ![g] =
       [own EXCEPT ![c] = [tokens |-> left - take, idle |-> 0]]]
  /\ verdict' = [verdict EXCEPT ![g][c] = IF left > 0 THEN "admitted" ELSE "refused"]
  /\ UNCHANGED <<backend, redis, seen>>

-----------------------------------------------------------------------------
(* Counters.                                                                *)

Send(g, c) ==
  /\ backend[g] = "redis" /\ pipeline[g] = "idle" /\ c \in Counted
  /\ pipeline' = [pipeline EXCEPT ![g] = "incr"]
  /\ asker' = [asker EXCEPT ![g] = c]
  /\ late' = late \ {g}
  /\ UNCHANGED <<backend, memory, count, ttl, number, seen>>

\* INCR keeps the expiry of a key; a new key has none.
Incr(g) ==
  LET c == asker[g]
  IN
  /\ pipeline[g] = "incr" /\ count[c] < MaxCount
  /\ pipeline' = [pipeline EXCEPT ![g] = "expire"]
  /\ count' = [count EXCEPT ![c] = @ + 1]
  /\ number' = [number EXCEPT ![g] = count[c] + 1]
  /\ passes' = [passes EXCEPT ![c][0] = IF count[c] < Burst THEN @ + 1 ELSE @]
  /\ quiet' = [quiet EXCEPT ![c] = 0]
  /\ UNCHANGED <<backend, memory, ttl, asker, late, apart, refused>>

Done(g) ==
  /\ pipeline' = [pipeline EXCEPT ![g] = "idle"]
  /\ asker' = [asker EXCEPT ![g] = None]
  /\ number' = [number EXCEPT ![g] = 0]
  /\ late' = late \ {g}

\* The answer decides, unless the request was let through meanwhile.
Decide(g, c) ==
  refused' = IF g \in late THEN refused
             ELSE IF number[g] > Burst THEN refused \cup {c} ELSE refused \ {c}

\* Faulty variant: only a new key is given an expiry.
ExpireNew(g) ==
  LET c == asker[g]
  IN
  /\ pipeline[g] = "expire"
  /\ ttl' = [ttl EXCEPT ![c] = IF number[g] = 1 /\ count[c] > 0 THEN Window ELSE @]
  /\ quiet' = [quiet EXCEPT ![c] = 0]
  /\ Done(g) /\ Decide(g, c)
  /\ UNCHANGED <<backend, memory, count, passes, apart>>

\* Faulty variant: refused requests do not renew the expiry.
ExpireAdmitted(g) ==
  LET c == asker[g]
  IN
  /\ pipeline[g] = "expire"
  /\ ttl' = [ttl EXCEPT ![c] = IF number[g] <= Burst /\ count[c] > 0 THEN Window ELSE @]
  /\ quiet' = [quiet EXCEPT ![c] = 0]
  /\ Done(g) /\ Decide(g, c)
  /\ UNCHANGED <<backend, memory, count, passes, apart>>

\* EXPIRE renews the expiry at every request, the refused ones included; on a
\* key that has expired it does nothing.
Expire(g) ==
  LET c == asker[g]
  IN
  /\ pipeline[g] = "expire"
  /\ ttl' = [ttl EXCEPT ![c] = IF count[c] > 0 THEN Window ELSE @]
  /\ quiet' = [quiet EXCEPT ![c] = 0]
  /\ Done(g) /\ Decide(g, c)
  /\ UNCHANGED <<backend, memory, count, passes, apart>>

\* No answer in two seconds: the request is let through, the commands go on.
GiveUp(g) ==
  /\ pipeline[g] # "idle" /\ g \notin late
  /\ late' = late \cup {g}
  /\ refused' = refused \ {asker[g]}
  /\ UNCHANGED <<backend, memory, count, ttl, pipeline, asker, number, passes, apart, quiet>>

\* The connection breaks: commands that were not executed are lost.
Break(g) ==
  /\ pipeline[g] # "idle"
  /\ Done(g)
  /\ refused' = IF g \in late THEN refused ELSE refused \ {asker[g]}
  /\ apart' = IF pipeline[g] = "expire" THEN apart \cup {asker[g]} ELSE apart
  /\ UNCHANGED <<backend, memory, count, ttl, passes, quiet>>

-----------------------------------------------------------------------------
Ends(c) == ttl[c] = 1

\* Ages beyond those that anything depends on are not told apart.
Tick ==
  /\ buckets' = [g \in Gateway |-> [c \in Client |->
       IF buckets[g][c] = None THEN None ELSE [buckets[g][c] EXCEPT !.idle = Min2(@, Hour) + 1]]]
  /\ verdict' = [g \in Gateway |-> [c \in Client |-> "none"]]
  /\ count' = [c \in Client |-> IF Ends(c) THEN 0 ELSE count[c]]
  /\ ttl' = [c \in Client |-> IF ttl[c] = None \/ Ends(c) THEN None ELSE ttl[c] - 1]
  /\ passes' = [c \in Client |-> [a \in Age |-> IF a = 0 THEN 0 ELSE passes[c][a - 1]]]
  /\ apart' = {c \in Client :
       /\ \E a \in Age : passes'[c][a] > 0
       /\ c \in apart \/ (Ends(c) /\ \E g \in Gateway : pipeline[g] = "expire" /\ asker[g] = c)}
  /\ quiet' = [c \in Client |-> IF c \in refused THEN Min2(quiet[c] + 1, Window) ELSE 0]
  /\ UNCHANGED <<backend, pipeline, asker, number, late, refused>>

Request(g) ==
  \/ \E c \in Client : Allow(g, c) \/ Send(g, c)
  \/ Incr(g) \/ Expire(g) \/ GiveUp(g) \/ Break(g)

LimiterNext == Tick \/ \E g \in Gateway : Request(g)

LimiterSpec == LimiterInit /\ [][LimiterNext]_limiterVars

-----------------------------------------------------------------------------
LimiterTypeOK ==
  /\ backend \in [Gateway -> {"memory", "redis"}]
  /\ buckets \in [Gateway -> [Client -> {None} \cup [tokens : 0..Burst, idle : 0..(Hour + 1)]]]
  /\ verdict \in [Gateway -> [Client -> {"none", "admitted", "refused"}]]
  /\ count \in [Client -> 0..MaxCount]
  /\ ttl \in [Client -> {None} \cup 1..Window]
  /\ pipeline \in [Gateway -> {"idle", "incr", "expire"}]
  /\ asker \in [Gateway -> Client \cup {None}]
  /\ number \in [Gateway -> 0..MaxCount]
  /\ late \subseteq Gateway
  /\ passes \in [Client -> [Age -> Nat]]
  /\ apart \subseteq Client /\ refused \subseteq Client
  /\ quiet \in [Client -> 0..Window]

\* "Token bucket por chave": lazy counting, the bucket that is created when it
\* is needed and dropped when it is idle make no difference to any decision.
Meter == INSTANCE RateMeter WITH
  Key     <- Gateway \X Client,
  level   <- [k \in Gateway \X Client |-> Burst - Tokens(buckets[k[1]][k[2]])],
  verdict <- [k \in Gateway \X Client |-> verdict[k[1]][k[2]]]

ImplementsMeter == Meter!Spec

\* The sums of the first values of f.
Total(f) ==
  LET sum[n \in 0..Window] == IF n = 0 THEN 0 ELSE sum[n - 1] + f[n - 1]
  IN  sum

\* Counted requests of the last window that were within the burst.
Passed(c) == Total(passes[c])[Window]

\* "Burst: numero maximo de requisicoes na janela", of all replicas together:
\* no window counts more requests within the burst than the burst, or twice as
\* many when the expiry of a counter got between INCR and EXPIRE or EXPIRE got
\* lost.
WindowKept ==
  \A c \in Client : Passed(c) <= IF c \in apart THEN 2 * Burst ELSE Burst

InFlight(c) == \E g \in Gateway : pipeline[g] # "idle" /\ asker[g] = c

\* A client that was refused and then stays away for a window is let in again,
\* whatever got lost before, if no more of its requests can be under way at one
\* time than the burst: more of them could fill a counter that never expires.
LetInAgain ==
  \A c \in refused : quiet[c] = Window /\ ~InFlight(c) => count[c] < Burst

\* What the comment of NewRedisLimiter promises and the code does not keep: a
\* client is refused only if it made more than Burst requests within a window.
\* As every request renews the expiry, a client with one request per window is
\* refused from some time on, and for as long as it goes on.
RefusedAboveBurst ==
  [][\A g \in Gateway :
       pipeline[g] = "incr" /\ pipeline'[g] = "expire" /\ number'[g] = Burst + 1 =>
         Passed(asker[g]) >= Burst]_limiterVars
=============================================================================
