------------------------- MODULE ChatCache_proofs ----------------------------
(***************************************************************************)
(* For any number of requests, questions and document runs: answers are     *)
(* fresh with respect to the version a request read.                        *)
(***************************************************************************)
EXTENDS ChatCache, TLAPS

LEMMA InitIInv == Init => IInv
BY DEF Init, IInv, TypeOK, NumbersAgree, EntriesHonest, RequestsAgree, FreshAnswer

\* What a version promises is settled once it is in use: a later increment gets
\* a number of its own, and a commit changes nothing.
LEMMA DueStable ==
  ASSUME TypeOK, NumbersAgree, NEW u \in Update, Run(u),
         NEW v \in Nat, v <= version
  PROVE  DueAt(v)' = DueAt(v)
<1>1. CASE Commit(u)
  BY <1>1 DEF Commit, DueAt
<1>2. CASE Increment(u)
  BY <1>2 DEF Increment, DueAt, TypeOK, NumbersAgree
<1>3. CASE IncrementFails(u)
  BY <1>3 DEF IncrementFails, DueAt, TypeOK
<1> QED BY <1>1, <1>2, <1>3 DEF Run

\* A step of a document run.
LEMMA RunStep ==
  ASSUME IInv, NEW u \in Update, Run(u)
  PROVE  IInv'
<1>1. UNCHANGED <<cache, chatVars, writes>>
  BY DEF Run, Commit, Increment, IncrementFails
<1>2. TypeOK' /\ version <= version' /\ committed \subseteq committed' /\ version' \in Nat /\ version \in Nat
  BY DEF IInv, TypeOK, Run, Commit, Increment, IncrementFails, chatVars
<1>3. NumbersAgree'
  <2>1. CASE Commit(u)
    BY <2>1 DEF IInv, Commit, NumbersAgree
  <2>2. CASE Increment(u)
    <3> SUFFICES ASSUME NEW w \in Update
                 PROVE  /\ number'[w] <= version'
                        /\ announced'[w] = "done" => w \in committed' /\ number'[w] > 0
      BY DEF NumbersAgree
    <3>1. CASE w = u
      BY <2>2, <3>1 DEF IInv, TypeOK, Increment
    <3>2. CASE w # u
      BY <2>2, <3>2 DEF IInv, TypeOK, Increment, NumbersAgree
    <3> QED BY <3>1, <3>2
  <2>3. CASE IncrementFails(u)
    BY <2>3 DEF IInv, TypeOK, IncrementFails, NumbersAgree
  <2> QED BY <2>1, <2>2, <2>3 DEF Run
<1>4. EntriesHonest'
  <2> SUFFICES ASSUME NEW e \in cache \cup writes PROVE Honest(e)'
    BY <1>1 DEF EntriesHonest
  <2>1. e.version \in Nat /\ Honest(e)
    BY DEF IInv, TypeOK, EntriesHonest, Entry
  <2>2. DueAt(e.version)' = DueAt(e.version)
    BY <2>1, DueStable DEF IInv, Honest
  <2> QED BY <1>2, <2>1, <2>2 DEF Honest
<1>5. RequestsAgree'
  <2> SUFFICES ASSUME NEW r \in Request
               PROVE  /\ pc[r] = "new" => ~readOk[r]
                      /\ ver[r] <= version'
                      /\ readOk[r] => due[r] \subseteq DueAt(ver[r])'
                      /\ due[r] \subseteq committed'
                      /\ pc[r] = "searched" => DueAt(ver[r])' \subseteq answer[r]
    BY <1>1 DEF RequestsAgree, chatVars
  <2>1. ver[r] \in Nat /\ ver[r] <= version
    BY DEF IInv, TypeOK, RequestsAgree
  <2>2. DueAt(ver[r])' = DueAt(ver[r])
    <3> DEFINE v == ver[r]
    <3>1. v' = v
      BY <1>1 DEF chatVars
    <3>2. \A x \in Nat : x <= version => DueAt(x)' = DueAt(x)
      BY DueStable DEF IInv
    <3> QED BY <2>1, <3>1, <3>2
  <2> QED BY <1>2, <2>1, <2>2 DEF IInv, RequestsAgree
<1> QED BY <1>1, <1>2, <1>3, <1>4, <1>5 DEF IInv, FreshAnswer, chatVars

\* A step of a chat request changes neither the updates nor what is stored.
LEMMA ChatStep ==
  ASSUME IInv, NEW r \in Request, Chat(r)
  PROVE  IInv'
<1> USE CacheAssumption
<1>1. UNCHANGED updateVars /\ UNCHANGED cache
  BY DEF Chat, ReadVersion, LookupHits, LookupMisses, Search, Respond, AskFails
<1>2. NumbersAgree' /\ \A v : DueAt(v)' = DueAt(v)
  BY <1>1 DEF IInv, NumbersAgree, DueAt, updateVars
<1>3. \A v : DueAt(v) \subseteq committed /\ DueAt(v) \subseteq Update
  BY DEF IInv, NumbersAgree, DueAt
<1>4. DueAt(0) = {} /\ Settled = DueAt(version) /\ version \in Nat
  BY DEF IInv, TypeOK, NumbersAgree, DueAt, Settled
<1>5. TypeOK'
  <2>1. CASE ReadVersion(r)
    BY <1>1, <2>1 DEF ReadVersion, IInv, TypeOK, updateVars, Settled
  <2>2. CASE LookupHits(r)
    BY <1>1, <2>2 DEF LookupHits, IInv, TypeOK, updateVars, Entry
  <2>3. CASE LookupMisses(r) \/ Search(r) \/ AskFails(r)
    BY <1>1, <2>3 DEF LookupMisses, Search, AskFails, IInv, TypeOK, updateVars
  <2>4. CASE Respond(r)
    <3>1. [question |-> QuestionOf[r], version |-> ver[r], data |-> answer[r]] \in Entry
      BY DEF IInv, TypeOK, Entry
    <3> QED BY <1>1, <2>4, <3>1 DEF Respond, IInv, TypeOK, updateVars
  <2> QED BY <2>1, <2>2, <2>3, <2>4 DEF Chat
<1>6. EntriesHonest'
  <2>1. CASE Respond(r)
    <3> DEFINE new == [question |-> QuestionOf[r], version |-> ver[r], data |-> answer[r]]
    <3>1. writes' = writes \cup {new}
      BY <2>1 DEF Respond
    <3>2. new.version <= version /\ DueAt(new.version) \subseteq new.data
      BY <2>1 DEF Respond, IInv, RequestsAgree
    <3>3. \A e : Honest(e)' = Honest(e)
      BY <1>1, <1>2 DEF Honest, updateVars
    <3> HIDE DEF new
    <3> QED BY <1>1, <3>1, <3>2, <3>3 DEF EntriesHonest, Honest, IInv
  <2>2. CASE ~Respond(r)
    <3>1. UNCHANGED writes
      BY <2>2 DEF Chat, ReadVersion, LookupHits, LookupMisses, Search, AskFails
    <3> QED BY <1>1, <1>2, <3>1 DEF IInv, EntriesHonest, Honest, updateVars
  <2> QED BY <2>1, <2>2
<1>7. RequestsAgree' /\ FreshAnswer'
  <2> SUFFICES ASSUME NEW s \in Request
               PROVE  /\ pc'[s] = "new" => ~readOk'[s]
                      /\ ver'[s] <= version
                      /\ readOk'[s] => due'[s] \subseteq DueAt(ver'[s])
                      /\ due'[s] \subseteq committed
                      /\ pc'[s] = "searched" => DueAt(ver'[s]) \subseteq answer'[s]
                      /\ pc'[s] \in {"hit", "searched", "answered"} /\ readOk'[s] => due'[s] \subseteq answer'[s]
    BY <1>1, <1>2 DEF RequestsAgree, FreshAnswer, updateVars, DueAt
  <2> DEFINE Old == /\ pc[s] = "new" => ~readOk[s]
                    /\ ver[s] <= version
                    /\ readOk[s] => due[s] \subseteq DueAt(ver[s])
                    /\ due[s] \subseteq committed
                    /\ pc[s] = "searched" => DueAt(ver[s]) \subseteq answer[s]
                    /\ pc[s] \in {"hit", "searched", "answered"} /\ readOk[s] => due[s] \subseteq answer[s]
  <2>1. Old
    BY DEF IInv, RequestsAgree, FreshAnswer
  <2>2. CASE s # r
    <3>1. ver'[s] = ver[s] /\ readOk'[s] = readOk[s] /\ due'[s] = due[s] /\ pc'[s] = pc[s] /\ answer'[s] = answer[s]
      BY <2>2 DEF IInv, TypeOK, Chat, ReadVersion, LookupHits, LookupMisses, Search, Respond, AskFails
    <3> QED BY <2>1, <3>1
  <2>3. CASE s = r
    <3>1. CASE ReadVersion(r)
      <4>1. /\ pc'[r] = "lookup" /\ due'[r] = Settled
            /\ \/ ver'[r] = version
               \/ ver'[r] = ver[r] /\ readOk'[r] = readOk[r]
        BY <3>1 DEF IInv, TypeOK, ReadVersion
      <4>2. CASE ver'[r] = version
        BY <1>3, <1>4, <2>3, <4>1, <4>2
      <4>3. CASE ver'[r] = ver[r] /\ readOk'[r] = readOk[r]
        <5>1. ~readOk[r]
          BY <3>1 DEF ReadVersion, IInv, RequestsAgree
        <5> QED BY <1>3, <1>4, <2>1, <2>3, <4>1, <4>3, <5>1
      <4> QED BY <4>1, <4>2, <4>3
    <3>2. CASE LookupHits(r)
      <4>1. PICK e \in cache : Key(r, e) /\ answer' = [answer EXCEPT ![r] = e.data]
        BY <3>2 DEF LookupHits
      <4>2. DueAt(ver[r]) \subseteq e.data
        BY <4>1 DEF IInv, EntriesHonest, Honest, Key
      <4>3. answer'[r] = e.data /\ pc'[r] = "hit" /\ UNCHANGED <<ver, readOk, due>>
        BY <3>2, <4>1 DEF LookupHits, IInv, TypeOK
      <4> QED BY <2>1, <2>3, <4>2, <4>3
    <3>3. CASE LookupMisses(r) \/ AskFails(r)
      <4>1. pc'[r] \in {"asking", "failed"} /\ UNCHANGED <<ver, readOk, due, answer>>
        BY <3>3 DEF LookupMisses, AskFails, IInv, TypeOK
      <4> QED BY <2>1, <2>3, <4>1
    <3>4. CASE Search(r)
      <4>1. pc'[r] = "searched" /\ answer'[r] = committed /\ UNCHANGED <<ver, readOk, due>>
        BY <3>4 DEF Search, IInv, TypeOK
      <4> QED BY <1>3, <2>1, <2>3, <4>1
    <3>5. CASE Respond(r)
      <4>1. pc[r] = "searched" /\ pc'[r] = "answered" /\ UNCHANGED <<ver, readOk, due, answer>>
        BY <3>5 DEF Respond, IInv, TypeOK
      <4> QED BY <2>1, <2>3, <4>1
    <3> QED BY <3>1, <3>2, <3>3, <3>4, <3>5 DEF Chat
  <2> QED BY <2>2, <2>3
<1> QED BY <1>2, <1>5, <1>6, <1>7 DEF IInv

\* A step of Redis moves entries about and adds none.
LEMMA RedisStep ==
  ASSUME IInv,
         \/ \E e \in writes : Stored(e) \/ Dropped(e)
         \/ \E e \in cache : Expire(e)
  PROVE  IInv'
<1>1. UNCHANGED <<updateVars, chatVars>> /\ cache' \cup writes' \subseteq cache \cup writes
  BY DEF Stored, Dropped, Expire
<1>2. TypeOK'
  BY <1>1 DEF IInv, TypeOK, updateVars, chatVars
<1>3. NumbersAgree' /\ RequestsAgree' /\ FreshAnswer' /\ \A e : Honest(e)' = Honest(e)
  BY <1>1 DEF IInv, NumbersAgree, RequestsAgree, FreshAnswer, Honest, DueAt, updateVars, chatVars
<1>4. EntriesHonest'
  BY <1>1, <1>3 DEF IInv, EntriesHonest
<1> QED BY <1>2, <1>3, <1>4 DEF IInv

LEMMA StepIInv == IInv /\ [Next]_vars => IInv'
<1> SUFFICES ASSUME IInv, [Next]_vars PROVE IInv'
  OBVIOUS
<1>1. CASE UNCHANGED vars
  BY <1>1 DEF vars, IInv, TypeOK, NumbersAgree, EntriesHonest, Honest, RequestsAgree, FreshAnswer, DueAt
<1>2. CASE \E u \in Update : Run(u)
  BY <1>2, RunStep
<1>3. CASE \E r \in Request : Chat(r)
  BY <1>3, ChatStep
<1>4. CASE \/ \E e \in writes : Stored(e) \/ Dropped(e)
           \/ \E e \in cache : Expire(e)
  BY <1>4, RedisStep
<1> QED BY <1>1, <1>2, <1>3, <1>4 DEF Next

\* The invariant holds for any number of requests, runs and questions.
THEOREM InductiveInvariant == Spec => []IInv
BY InitIInv, StepIInv, PTL DEF Spec

\* The state of the cache and of its clients is always well typed.
THEOREM TypeCorrect == Spec => []TypeOK
<1>1. IInv => TypeOK
  BY DEF IInv
<1> QED BY <1>1, InductiveInvariant, PTL

\* No request that read the version is answered from data older than the
\* updates announced before it began.
THEOREM Freshness == Spec => []FreshAnswer
<1>1. IInv => FreshAnswer
  BY DEF IInv
<1> QED BY <1>1, InductiveInvariant, PTL
=============================================================================
