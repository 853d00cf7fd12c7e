------------------------- MODULE CatalogSync_proofs -------------------------
(***************************************************************************)
(* As long as synchronisations do not meet, a key has one document: whoever *)
(* is about to insert is alone, so what it looked up and did not find is    *)
(* still not there; where they do, it has as many as there are callers at   *)
(* most, since nobody comes to insert a key that has one.  Whether or not   *)
(* they meet, each source asked for is reported, since what is not is in    *)
(* the queue; and nothing is skipped: as long as nothing went wrong, what   *)
(* is expected is in the catalogue, on the page at hand or on one that will *)
(* be asked for.                                                            *)
(***************************************************************************)
EXTENDS CatalogSync, FiniteSetTheorems, Induction, TLAPS

\* One synchronisation at most is under way.
Alone == \A q, r \in Caller : pc[q] # "idle" /\ pc[r] # "idle" => q = r

\* What is about to be inserted is not there.
StillMissing == \A r \in Caller : pc[r] = "insert" => Matches(Current(r)) = {}

OneKey == \A c, d \in catalog : c.key = d.key => c = d

KeyInv ==
  /\ pc \in [Caller -> {"idle", "search", "book", "insert"}]
  /\ ~met => Alone /\ StillMissing /\ OneKey

LEMMA RunMoves ==
  ASSUME NEW r, NEW queue, Run(r, queue)
  PROVE  \E v \in {"idle", "search"} : pc' = [pc EXCEPT ![r] = v]
  BY DEF Run

LEMMA EndMoves ==
  ASSUME NEW r, EndSource(r)
  PROVE  \E v \in {"idle", "search"} : pc' = [pc EXCEPT ![r] = v]
  BY RunMoves DEF EndSource

LEMMA AnswerMoves ==
  ASSUME NEW r, NEW docs, NEW next, Answer(r, docs, next)
  PROVE  \E v \in {"idle", "search", "book"} : pc' = [pc EXCEPT ![r] = v]
  BY EndMoves DEF Answer

LEMMA CountedMoves ==
  ASSUME NEW r, NEW failed, Counted(r, failed)
  PROVE  pc' = [pc EXCEPT ![r] = "book"] /\ met' = met
  BY DEF Counted

\* Every step of a synchronisation under way is a lookup that finds nothing, or
\* leaves it elsewhere than before an insertion; met changes with none.
LEMMA StepMoves ==
  ASSUME NEW r \in Caller, KeyInv, Step(r) \/ Crash(r)
  PROVE  /\ pc[r] # "idle" /\ met' = met
         /\ Miss(r) \/ \E v \in {"idle", "search", "book"} : pc' = [pc EXCEPT ![r] = v]
<1>1. CASE Search(r)
  <2>1. pc[r] # "idle" /\ met' = met
    BY <1>1 DEF Search, SyncOpenLibrary, SyncGutenberg, SyncOpenAlex, SyncArxiv, SyncCrossref, Searching
  <2>2. \E docs, next : Answer(r, docs, next)
    BY <1>1, Zenon DEF Search, SyncOpenLibrary, SyncGutenberg, SyncOpenAlex, SyncArxiv, SyncCrossref
  <2> QED BY <2>1, <2>2, AnswerMoves
<1>2. CASE SearchFails(r) BY <1>2, EndMoves DEF SearchFails
<1>3. CASE BookFails(r) BY <1>3, CountedMoves DEF BookFails, Handles
<1>4. CASE Update(r)
  <2>1. pc[r] = "book" /\ \E b : Counted(r, b)
    BY <1>4 DEF Update, Handles
  <2> QED BY <2>1, CountedMoves
<1>5. CASE Miss(r) BY <1>5 DEF Miss, Handles
<1>6. CASE Insert(r)
  <2>1. pc[r] = "insert" /\ \E b : Counted(r, b) BY <1>6 DEF Insert
  <2> QED BY <2>1, CountedMoves
<1>7. CASE NextPage(r)
  <2>1. pc[r] = "book" /\ met' = met BY <1>7 DEF NextPage
  <2>2. \/ pc' = [pc EXCEPT ![r] = "search"]
        \/ EndSource(r)
    BY <1>7 DEF NextPage
  <2> QED BY <2>1, <2>2, EndMoves
<1>8. CASE Crash(r) BY <1>8, RunMoves DEF Crash
<1> QED BY <1>1, <1>2, <1>3, <1>4, <1>5, <1>6, <1>7, <1>8 DEF Step

\* The documents of one key are kept one by an update and by the insertion of
\* what is missing.
LEMMA UpdateKeepsKeys ==
  ASSUME NEW r \in Caller, Update(r), OneKey
  PROVE  OneKey'
<1>1. PICK d \in Matches(Current(r)) :
        \/ catalog' = catalog
        \/ catalog' = (catalog \ {d}) \cup {Document(Current(r), d.copy)}
  BY DEF Update
<1>2. d.key = Document(Current(r), d.copy).key
  BY DEF Matches, Document
<1> QED BY <1>1, <1>2 DEF OneKey, Matches

LEMMA InsertKeepsKeys ==
  ASSUME NEW r \in Caller, Insert(r), Matches(Current(r)) = {}, OneKey
  PROVE  OneKey'
<1> DEFINE new == Document(Current(r), Cardinality(Matches(Current(r))) + 1)
<1>1. catalog' = catalog \/ catalog' = catalog \cup {new} BY DEF Insert
<1>2. \A d \in catalog : d.key # new.key BY DEF Matches, Document
<1> HIDE DEF new
<1> QED BY <1>1, <1>2 DEF OneKey

LEMMA StepKeepsKeys ==
  ASSUME NEW r \in Caller, KeyInv, ~met, Step(r) \/ Crash(r)
  PROVE  OneKey'
<1>1. CASE Update(r) BY <1>1, UpdateKeepsKeys DEF KeyInv
<1>2. CASE Insert(r)
  <2>1. Matches(Current(r)) = {} BY <1>2 DEF Insert, KeyInv, StillMissing
  <2> QED BY <1>2, <2>1, InsertKeepsKeys DEF KeyInv
<1>3. CASE catalog' = catalog BY <1>3 DEF KeyInv, OneKey
<1>4. ~Update(r) /\ ~Insert(r) => catalog' = catalog
  BY DEF Step, Search, SearchFails, BookFails, Miss, NextPage, Crash
<1> QED BY <1>1, <1>2, <1>3, <1>4

LEMMA MissLeavesMissing ==
  ASSUME NEW r \in Caller, Miss(r)
  PROVE  Matches(Current(r))' = {}
<1>1. Matches(Current(r)) = {} BY DEF Miss, Catalogued
<1>2. /\ catalog' = catalog /\ todo' = todo /\ page' = page BY DEF Miss, source
<1> QED BY <1>1, <1>2 DEF Matches, Current

LEMMA StepInductive ==
  ASSUME NEW r \in Caller, KeyInv, Step(r) \/ Crash(r)
  PROVE  KeyInv'
<1>1. /\ pc[r] # "idle" /\ met' = met
      /\ Miss(r) \/ \E v \in {"idle", "search", "book"} : pc' = [pc EXCEPT ![r] = v]
  BY StepMoves
<1>2. \E v \in {"idle", "search", "book", "insert"} : pc' = [pc EXCEPT ![r] = v] /\ (v = "insert" => Miss(r))
  BY <1>1 DEF Miss
<1>3. PICK v \in {"idle", "search", "book", "insert"} : pc' = [pc EXCEPT ![r] = v] /\ (v = "insert" => Miss(r))
  BY <1>2
<1>4. (pc \in [Caller -> {"idle", "search", "book", "insert"}])' BY <1>3 DEF KeyInv
<1>5. ASSUME ~met' PROVE (Alone /\ StillMissing /\ OneKey)'
  <2>1. ~met /\ Alone BY <1>1, <1>5 DEF KeyInv
  <2>2. \A q \in Caller : q # r => pc'[q] = "idle" BY <1>1, <1>3, <2>1 DEF Alone, KeyInv
  <2>3. Alone' BY <2>2 DEF Alone
  <2>4. ASSUME NEW q \in Caller, pc'[q] = "insert" PROVE Matches(Current(q))' = {}
    <3>1. q = r BY <2>2, <2>4
    <3>2. v = "insert" BY <1>3, <2>4, <3>1 DEF KeyInv
    <3> QED BY <1>3, <3>1, <3>2, MissLeavesMissing
  <2>5. StillMissing' BY <2>4 DEF StillMissing
  <2> QED BY <2>1, <2>3, <2>5, StepKeepsKeys
<1> QED BY <1>4, <1>5 DEF KeyInv

LEMMA BeginInductive ==
  ASSUME NEW r \in Caller, NEW f, KeyInv, Begin(r, f)
  PROVE  KeyInv'
<1>1. \E v \in {"idle", "search"} : pc' = [pc EXCEPT ![r] = v] BY RunMoves DEF Begin
<1>2. PICK v \in {"idle", "search"} : pc' = [pc EXCEPT ![r] = v] BY <1>1
<1>3. catalog' = catalog /\ (~met' => ~met /\ \A q \in Caller : pc[q] = "idle") BY DEF Begin
<1>4. (pc \in [Caller -> {"idle", "search", "book", "insert"}])' BY <1>2 DEF KeyInv
<1>5. ASSUME ~met' PROVE (Alone /\ StillMissing)'
  <2>1. \A q \in Caller : pc'[q] # "insert" /\ (q # r => pc'[q] = "idle") BY <1>2, <1>3, <1>5 DEF KeyInv
  <2> QED BY <2>1 DEF Alone, StillMissing
<1>6. ~met' => OneKey' BY <1>3 DEF KeyInv, OneKey
<1> QED BY <1>4, <1>5, <1>6 DEF KeyInv

LEMMA OthersInductive ==
  ASSUME KeyInv, \/ \E s \in Source : \E e \in News[s] : Publish(s, e)
                 \/ UNCHANGED vars
  PROVE  KeyInv'
<1>1. /\ pc' = pc /\ met' = met /\ catalog' = catalog /\ todo' = todo /\ page' = page
  BY DEF Publish, vars, source, external
<1> QED BY <1>1 DEF KeyInv, Alone, StillMissing, OneKey, Matches, Current

LEMMA KeyInit == Init => KeyInv
  BY DEF Init, KeyInv, Alone, StillMissing, OneKey

LEMMA KeyStep == KeyInv /\ [Next]_vars => KeyInv'
  BY StepInductive, BeginInductive, OthersInductive DEF Next

-----------------------------------------------------------------------------
(* Every source that was asked for is reported.                             *)

\* A step of caller r leaves the locals of the others alone.
SameBut(r) ==
  \A q \in Caller \ {r} :
    /\ pc'[q] = pc[q] /\ wanted'[q] = wanted[q] /\ todo'[q] = todo[q] /\ reports'[q] = reports[q]
    /\ at'[q] = at[q] /\ page'[q] = page[q] /\ more'[q] = more[q]
    /\ errors'[q] = errors[q] /\ expected'[q] = expected[q] /\ clean'[q] = clean[q]

\* What it has still to report is in its queue, which is empty when it is idle.
Pending(r) ==
  /\ pc[r] = "idle" <=> todo[r] = <<>>
  /\ pc[r] = "insert" => page[r] # <<>>
  /\ \A s \in wanted[r] : s \in reports[r] \/ \E i \in 1..Len(todo[r]) : todo[r][i] = s

SyncInv == TypeOK /\ \A r \in Caller : Pending(r)

LEMMA SourcesTyped == Sources \in Seq(Source) /\ \A s \in Source : \E i \in 1..Len(Sources) : Sources[i] = s
<1>1. Len(Sources) = 5 /\ \A i \in 1..5 : Sources[i] \in Source
  BY DEF Sources, Source
<1>2. Sources = [i \in 1..5 |-> Sources[i]]
  BY DEF Sources
<1> QED BY <1>1, <1>2 DEF Source

LEMMA ExpectedTyped ==
  ASSUME TypeOK, NEW s \in Source
  PROVE  Expected(s) \in SUBSET Entry
BY DEF Expected, TypeOK

\* Sources run from the head of a queue.
LEMMA RunTyped ==
  ASSUME TypeOK, NEW r \in Caller, NEW queue \in Seq(Source), Run(r, queue)
  PROVE  /\ pc' \in [Caller -> {"idle", "search", "book", "insert"}]
         /\ todo' \in [Caller -> Seq(Source)] /\ at' \in [Caller -> Nat] /\ page' \in [Caller -> Seq(Entry)]
         /\ more' \in [Caller -> BOOLEAN] /\ clean' \in [Caller -> BOOLEAN] /\ errors' \in [Caller -> BOOLEAN]
         /\ expected' \in [Caller -> SUBSET Entry]
         /\ todo'[r] = queue /\ pc'[r] = IF queue = <<>> THEN "idle" ELSE "search"
         /\ at'[r] = 0 /\ expected'[r] = IF queue = <<>> THEN {} ELSE Expected(Head(queue))
         /\ \A q \in Caller \ {r} :
              /\ pc'[q] = pc[q] /\ todo'[q] = todo[q]
              /\ at'[q] = at[q] /\ page'[q] = page[q] /\ more'[q] = more[q]
              /\ errors'[q] = errors[q] /\ expected'[q] = expected[q] /\ clean'[q] = clean[q]
<1> DEFINE turn == IF queue = <<>> THEN {} ELSE Expected(Head(queue))
<1>1. turn \in SUBSET Entry
  <2>1. queue # <<>> => Head(queue) \in Source
    OBVIOUS
  <2> QED BY <2>1, ExpectedTyped
<1>2. /\ todo' = [todo EXCEPT ![r] = queue]
      /\ pc' = [pc EXCEPT ![r] = IF queue = <<>> THEN "idle" ELSE "search"]
      /\ at' = [at EXCEPT ![r] = 0] /\ page' = [page EXCEPT ![r] = <<>>]
      /\ more' = [more EXCEPT ![r] = FALSE] /\ errors' = [errors EXCEPT ![r] = FALSE]
      /\ clean' = [clean EXCEPT ![r] = TRUE] /\ expected' = [expected EXCEPT ![r] = turn]
  BY DEF Run, Locals
<1>3. <<>> \in Seq(Entry)
  OBVIOUS
<1> HIDE DEF turn
<1>4. expected' \in [Caller -> SUBSET Entry] /\ expected'[r] = turn
      /\ \A q \in Caller \ {r} : expected'[q] = expected[q]
  BY <1>1, <1>2 DEF TypeOK
<1>5. /\ pc' \in [Caller -> {"idle", "search", "book", "insert"}]
      /\ todo' \in [Caller -> Seq(Source)] /\ at' \in [Caller -> Nat] /\ page' \in [Caller -> Seq(Entry)]
  BY <1>2, <1>3 DEF TypeOK
<1>6. /\ more' \in [Caller -> BOOLEAN] /\ clean' \in [Caller -> BOOLEAN] /\ errors' \in [Caller -> BOOLEAN]
  BY <1>2 DEF TypeOK
<1>7. /\ todo'[r] = queue /\ pc'[r] = (IF queue = <<>> THEN "idle" ELSE "search") /\ at'[r] = 0
  BY <1>2 DEF TypeOK
<1>8. \A q \in Caller \ {r} :
        /\ pc'[q] = pc[q] /\ todo'[q] = todo[q]
        /\ at'[q] = at[q] /\ page'[q] = page[q] /\ more'[q] = more[q]
        /\ errors'[q] = errors[q] /\ clean'[q] = clean[q]
  BY <1>2 DEF TypeOK
<1> QED BY <1>4, <1>5, <1>6, <1>7, <1>8 DEF turn

\* What a caller has still to report when its queue changes.
LEMMA QueueMoves ==
  ASSUME SyncInv, NEW r \in Caller, NEW queue \in Seq(Source), Run(r, queue),
         listing' = listing, published' = published, configured' = configured, met' \in BOOLEAN,
         wanted' \in [Caller -> SUBSET Source], reports' \in [Caller -> SUBSET Source],
         \A q \in Caller \ {r} : wanted'[q] = wanted[q] /\ reports'[q] = reports[q],
         \A s \in wanted'[r] : s \in reports'[r] \/ \E i \in 1..Len(queue) : queue[i] = s
  PROVE  SyncInv' /\ SameBut(r)
<1>0. TypeOK
  BY DEF SyncInv
<1>a. TypeOK'
  <2>1. /\ pc' \in [Caller -> {"idle", "search", "book", "insert"}]
        /\ todo' \in [Caller -> Seq(Source)] /\ at' \in [Caller -> Nat] /\ page' \in [Caller -> Seq(Entry)]
        /\ more' \in [Caller -> BOOLEAN] /\ clean' \in [Caller -> BOOLEAN] /\ errors' \in [Caller -> BOOLEAN]
        /\ expected' \in [Caller -> SUBSET Entry]
    BY <1>0, RunTyped
  <2>2. listing' \in [Source -> Seq(Entry)] /\ published' \in 0..MaxPublished /\ configured' \in SUBSET Source
    BY <1>0 DEF TypeOK
  <2> QED BY <2>1, <2>2 DEF TypeOK
<1>b. SameBut(r)
  BY <1>0, RunTyped DEF SameBut
<1>1. TypeOK' /\ SameBut(r)
  BY <1>a, <1>b
<1>2. Pending(r)'
  <2>1. todo'[r] = queue /\ pc'[r] = IF queue = <<>> THEN "idle" ELSE "search"
    BY <1>0, RunTyped
  <2> QED BY <2>1 DEF Pending
<1>3. ASSUME NEW q \in Caller \ {r} PROVE Pending(q)'
  BY <1>1 DEF SyncInv, Pending, SameBut
<1> QED BY <1>1, <1>2, <1>3 DEF SyncInv

LEMMA EndMovesOn ==
  ASSUME SyncInv, NEW r \in Caller, pc[r] # "idle", EndSource(r), UNCHANGED <<external, wanted, met>>
  PROVE  SyncInv' /\ SameBut(r)
<1>1. todo[r] \in Seq(Source) /\ todo[r] # <<>>
  BY DEF SyncInv, TypeOK, Pending
<1>2. /\ Head(todo[r]) \in Source /\ Tail(todo[r]) \in Seq(Source)
      /\ \A i \in 1..Len(todo[r]) :
           todo[r][i] = Head(todo[r]) \/ \E j \in 1..Len(Tail(todo[r])) : Tail(todo[r])[j] = todo[r][i]
  <2>1. Head(todo[r]) \in Source /\ Tail(todo[r]) \in Seq(Source)
    BY <1>1
  <2>2. ASSUME NEW i \in 1..Len(todo[r]), i # 1 PROVE i - 1 \in 1..Len(Tail(todo[r])) /\ Tail(todo[r])[i - 1] = todo[r][i]
    BY <1>1, <2>2
  <2> QED BY <1>1, <2>1, <2>2
<1>3. reports' = [reports EXCEPT ![r] = @ \cup {Head(todo[r])}] /\ Run(r, Tail(todo[r]))
  BY DEF EndSource
<1>4. /\ reports' \in [Caller -> SUBSET Source]
      /\ reports'[r] = reports[r] \cup {Head(todo[r])}
      /\ \A q \in Caller \ {r} : reports'[q] = reports[q]
  BY <1>2, <1>3 DEF SyncInv, TypeOK
<1>5. /\ listing' = listing /\ published' = published /\ configured' = configured /\ met' \in BOOLEAN
      /\ wanted' = wanted /\ wanted' \in [Caller -> SUBSET Source]
  BY DEF external, SyncInv, TypeOK
<1>6. \A s \in wanted'[r] : s \in reports'[r] \/ \E i \in 1..Len(Tail(todo[r])) : Tail(todo[r])[i] = s
  <2>1. ASSUME NEW s \in wanted[r], s \notin reports[r], s # Head(todo[r])
        PROVE  \E i \in 1..Len(Tail(todo[r])) : Tail(todo[r])[i] = s
    <3>1. PICK i \in 1..Len(todo[r]) : todo[r][i] = s
      BY <2>1 DEF SyncInv, Pending
    <3> QED BY <1>2, <2>1, <3>1
  <2> QED BY <1>4, <1>5, <2>1
<1> HIDE DEF SyncInv
<1> QED BY <1>2, <1>3, <1>4, <1>5, <1>6, QueueMoves

LEMMA BeginAsks ==
  ASSUME SyncInv, NEW r \in Caller, NEW f, Begin(r, f)
  PROVE  SyncInv' /\ SameBut(r)
<1> DEFINE chosen == {s \in Source : f \in {None, s}}
           queue == Select(Sources, chosen \cap configured)
<1>1. /\ wanted' = [wanted EXCEPT ![r] = chosen] /\ reports' = [reports EXCEPT ![r] = chosen \ configured]
      /\ Run(r, queue)
      /\ met' = (met \/ \E q \in Caller : pc[q] # "idle")
      /\ UNCHANGED external
  BY DEF Begin
<1>2. queue \in Seq(Source)
  BY SourcesTyped, SelectType
<1>3. \A s \in chosen \cap configured : \E i \in 1..Len(queue) : queue[i] = s
  <2>1. PICK pos : Places(pos, queue, Sources, Len(Sources), chosen \cap configured)
    BY SourcesTyped, SelectPlaces
  <2>2. ASSUME NEW s \in chosen \cap configured PROVE \E i \in 1..Len(queue) : queue[i] = s
    <3>1. PICK k \in 1..Len(Sources) : Sources[k] = s
      BY SourcesTyped
    <3> HIDE DEF chosen, queue
    <3>2. PICK i \in 1..Len(queue) : pos[i] = k
      BY <2>1, <3>1 DEF Places
    <3> QED BY <2>1, <3>1, <3>2 DEF Places
  <2> QED BY <2>2
<1>4. chosen \in SUBSET Source
  OBVIOUS
<1>5. met' \in BOOLEAN /\ listing' = listing /\ published' = published /\ configured' = configured
  BY <1>1 DEF external
<1> HIDE DEF chosen, queue
<1>6. /\ wanted' \in [Caller -> SUBSET Source] /\ reports' \in [Caller -> SUBSET Source]
      /\ wanted'[r] = chosen /\ reports'[r] = chosen \ configured
      /\ \A q \in Caller \ {r} : wanted'[q] = wanted[q] /\ reports'[q] = reports[q]
  BY <1>1, <1>4 DEF SyncInv, TypeOK
<1>7. \A s \in wanted'[r] : s \in reports'[r] \/ \E i \in 1..Len(queue) : queue[i] = s
  BY <1>3, <1>6
<1> HIDE DEF SyncInv
<1> QED BY <1>1, <1>2, <1>5, <1>6, <1>7, QueueMoves

LEMMA CrashForgets ==
  ASSUME SyncInv, NEW r \in Caller, Crash(r)
  PROVE  SyncInv' /\ SameBut(r)
<1> DEFINE queue == <<>>
<1>1. queue \in Seq(Source)
  OBVIOUS
<1>2. /\ wanted' = [wanted EXCEPT ![r] = {}] /\ reports' = [reports EXCEPT ![r] = {}]
      /\ Run(r, queue) /\ met' = met /\ UNCHANGED external
  BY DEF Crash
<1>3. /\ wanted' \in [Caller -> SUBSET Source] /\ reports' \in [Caller -> SUBSET Source]
      /\ wanted'[r] = {}
      /\ \A q \in Caller \ {r} : wanted'[q] = wanted[q] /\ reports'[q] = reports[q]
  BY <1>2 DEF SyncInv, TypeOK
<1>4. met' \in BOOLEAN /\ listing' = listing /\ published' = published /\ configured' = configured
  BY <1>2 DEF external, SyncInv, TypeOK
<1> HIDE DEF SyncInv, queue
<1> QED BY <1>1, <1>2, <1>3, <1>4, QueueMoves

-----------------------------------------------------------------------------
\* The steps that keep the queue.
LEMMA KeepsQueue ==
  ASSUME SyncInv, NEW r \in Caller, pc[r] # "idle",
         NEW p \in {"search", "book", "insert"}, p = "insert" => page[r] # <<>> /\ page' = page, pc' = [pc EXCEPT ![r] = p],
         UNCHANGED <<external, wanted, todo, reports, met>>,
         NEW a \in Nat, at' = [at EXCEPT ![r] = a], NEW g \in Seq(Entry), page' = [page EXCEPT ![r] = g],
         NEW m \in BOOLEAN, more' = [more EXCEPT ![r] = m],
         NEW c \in BOOLEAN, clean' = [clean EXCEPT ![r] = c],
         NEW x \in BOOLEAN, errors' = [errors EXCEPT ![r] = x], expected' = expected
  PROVE  SyncInv' /\ SameBut(r)
<1>1. TypeOK'
  <2>1. /\ pc' \in [Caller -> {"idle", "search", "book", "insert"}]
        /\ at' \in [Caller -> Nat] /\ page' \in [Caller -> Seq(Entry)]
    BY DEF SyncInv, TypeOK
  <2>2. /\ more' \in [Caller -> BOOLEAN] /\ clean' \in [Caller -> BOOLEAN] /\ errors' \in [Caller -> BOOLEAN]
    BY DEF SyncInv, TypeOK
  <2> QED BY <2>1, <2>2 DEF SyncInv, TypeOK, external
<1>2. SameBut(r)
  BY DEF SyncInv, TypeOK, SameBut
<1>3. pc'[r] = p /\ todo'[r] = todo[r]
  BY DEF SyncInv, TypeOK
<1>4. Pending(r)'
  BY <1>3 DEF SyncInv, Pending
<1>5. ASSUME NEW q \in Caller \ {r} PROVE Pending(q)'
  BY <1>2 DEF SyncInv, Pending, SameBut
<1> QED BY <1>1, <1>2, <1>4, <1>5 DEF SyncInv

\* The page that a search reads, and what the client makes of it.
LEMMA RawIs ==
  ASSUME SyncInv, NEW r \in Caller, pc[r] # "idle"
  PROVE  /\ Head(todo[r]) \in Source
         /\ Raw(r) \in Seq(Entry) /\ Titled(Raw(r)) \in Seq(Entry)
         /\ \A j \in 1..Len(listing[Head(todo[r])]) :
              j > at[r] => \/ \E i \in 1..Len(Raw(r)) : Raw(r)[i] = listing[Head(todo[r])][j]
                           \/ Len(Raw(r)) = BatchSize /\ j > at[r] + BatchSize
<1> DEFINE s == Head(todo[r])
           l == listing[s]
           top == IF at[r] + BatchSize < Len(l) THEN at[r] + BatchSize ELSE Len(l)
<1>1. s \in Source
  BY DEF SyncInv, TypeOK, Pending
<1>2. l \in Seq(Entry) /\ at[r] \in Nat /\ BatchSize \in Nat \ {0}
  BY <1>1, SyncAssumption DEF SyncInv, TypeOK
<1>3. Raw(r) = SubSeq(l, at[r] + 1, top)
  BY DEF Raw
<1> HIDE DEF s, l
<1>4. top \in Nat /\ top <= Len(l)
  BY <1>2
<1>5. /\ Raw(r) \in Seq(Entry)
      /\ Len(Raw(r)) = IF at[r] < top THEN top - at[r] ELSE 0
      /\ \A i \in 1..(top - at[r]) : Raw(r)[i] = l[at[r] + i]
  <2> HIDE DEF top
  <2> QED BY <1>2, <1>3, <1>4, SubSeqIs
<1>6. ASSUME NEW j \in 1..Len(l), j > at[r], j <= top
      PROVE  j - at[r] \in 1..Len(Raw(r)) /\ Raw(r)[j - at[r]] = l[j]
  <2> HIDE DEF top
  <2>1. /\ j - at[r] \in 1..(top - at[r]) /\ at[r] + (j - at[r]) = j /\ at[r] < top
        /\ top - at[r] \in Nat
    BY <1>2, <1>4, <1>6
  <2> QED BY <1>5, <2>1
<1>7. ASSUME NEW j \in 1..Len(l), j > top
      PROVE  Len(Raw(r)) = BatchSize /\ j > at[r] + BatchSize
  <2>1. top = at[r] + BatchSize /\ at[r] < top /\ top - at[r] = BatchSize
    BY <1>2, <1>7
  <2> QED BY <1>5, <1>7, <2>1
<1>8. \A j \in 1..Len(l) :
        j > at[r] => \/ \E i \in 1..Len(Raw(r)) : Raw(r)[i] = l[j]
                     \/ Len(Raw(r)) = BatchSize /\ j > at[r] + BatchSize
  <2>1. \A j \in 1..Len(l) : j <= top \/ j > top
    BY <1>4
  <2> QED BY <1>6, <1>7, <2>1
<1>9. Titled(Raw(r)) \in Seq(Entry)
  BY <1>5, SelectType DEF Titled
<1> QED BY <1>1, <1>5, <1>8, <1>9 DEF s, l

LEMMA AnswerMovesOn ==
  ASSUME SyncInv, NEW r \in Caller, pc[r] = "search", NEW docs \in Seq(Entry), NEW next \in BOOLEAN,
         Answer(r, docs, next), UNCHANGED <<external, wanted, met>>
  PROVE  SyncInv' /\ SameBut(r)
<1>1. CASE docs = <<>>
  BY <1>1, EndMovesOn DEF Answer
<1>2. CASE docs # <<>>
  <2> DEFINE c == clean[r] /\ Len(docs) = Len(Raw(r))
  <2>1. /\ pc' = [pc EXCEPT ![r] = "book"] /\ page' = [page EXCEPT ![r] = docs]
        /\ more' = [more EXCEPT ![r] = next] /\ clean' = [clean EXCEPT ![r] = c]
        /\ UNCHANGED <<todo, at, errors, expected, reports>>
    BY <1>2 DEF Answer
  <2>2. c \in BOOLEAN
    OBVIOUS
  <2>3. /\ at[r] \in Nat /\ at' = [at EXCEPT ![r] = at[r]]
        /\ errors[r] \in BOOLEAN /\ errors' = [errors EXCEPT ![r] = errors[r]]
    BY <2>1 DEF SyncInv, TypeOK
  <2> HIDE DEF c, SyncInv
  <2> QED BY <2>1, <2>2, <2>3, KeepsQueue
<1> QED BY <1>1, <1>2

LEMMA CountedMovesOn ==
  ASSUME SyncInv, NEW r \in Caller, pc[r] \in {"book", "insert"}, NEW failed \in BOOLEAN, Counted(r, failed),
         page[r] # <<>>
  PROVE  SyncInv' /\ SameBut(r)
<1>1. /\ pc' = [pc EXCEPT ![r] = "book"] /\ page' = [page EXCEPT ![r] = Tail(page[r])]
      /\ errors' = [errors EXCEPT ![r] = errors[r] \/ failed]
      /\ UNCHANGED <<external, wanted, todo, at, more, expected, clean, reports, met>>
  BY DEF Counted
<1>2. /\ Tail(page[r]) \in Seq(Entry) /\ (errors[r] \/ failed) \in BOOLEAN
      /\ at[r] \in Nat /\ at' = [at EXCEPT ![r] = at[r]]
      /\ more[r] \in BOOLEAN /\ more' = [more EXCEPT ![r] = more[r]]
      /\ clean[r] \in BOOLEAN /\ clean' = [clean EXCEPT ![r] = clean[r]]
  BY <1>1 DEF SyncInv, TypeOK
<1> HIDE DEF SyncInv
<1> QED BY <1>1, <1>2, KeepsQueue

\* Whichever source is searched, what its client makes of the page is handled.
LEMMA SearchAnswers ==
  ASSUME SyncInv, NEW r \in Caller, Search(r)
  PROVE  /\ pc[r] = "search" /\ UNCHANGED <<external, catalog, wanted, met>>
         /\ \E docs \in {Titled(Raw(r)), Raw(r), <<>>}, next \in BOOLEAN :
              docs \in Seq(Entry) /\ Answer(r, docs, next)
<1>1. /\ UNCHANGED <<external, catalog, wanted, met>>
      /\ SyncOpenLibrary(r) \/ SyncGutenberg(r) \/ SyncOpenAlex(r) \/ SyncArxiv(r) \/ SyncCrossref(r)
  BY DEF Search
<1>2. pc[r] = "search"
  BY <1>1 DEF SyncOpenLibrary, SyncGutenberg, SyncOpenAlex, SyncArxiv, SyncCrossref, Searching
<1>3. Raw(r) \in Seq(Entry) /\ Titled(Raw(r)) \in Seq(Entry) /\ <<>> \in Seq(Entry)
  BY <1>2, RawIs
<1>4. \E docs \in {Titled(Raw(r)), Raw(r), <<>>}, next \in BOOLEAN : Answer(r, docs, next)
  <2>1. CASE SyncOpenLibrary(r)
    BY <2>1 DEF SyncOpenLibrary, OpenLibraryDocs
  <2>2. CASE SyncGutenberg(r)
    BY <2>2 DEF SyncGutenberg, GutenbergDocs
  <2>3. CASE SyncOpenAlex(r)
    <3>1. PICK docs \in OpenAlexDocs(r), cursor \in {TRUE, at[r] + BatchSize < Len(listing["openalex"])} :
            Answer(r, docs, Len(docs) = BatchSize /\ cursor)
      BY <2>3 DEF SyncOpenAlex
    <3>2. (Len(docs) = BatchSize /\ cursor) \in BOOLEAN /\ docs \in {Titled(Raw(r)), Raw(r), <<>>}
      BY DEF OpenAlexDocs
    <3> QED BY <3>1, <3>2
  <2>4. CASE SyncArxiv(r)
    BY <2>4 DEF SyncArxiv, ArxivDocs
  <2>5. CASE SyncCrossref(r)
    BY <2>5 DEF SyncCrossref, CrossrefDocs
  <2> QED BY <1>1, <2>1, <2>2, <2>3, <2>4, <2>5
<1> QED BY <1>1, <1>2, <1>3, <1>4

\* The keys of the catalogue only grow.
KeysGrow == \A d \in catalog : \E c \in catalog' : c.key = d.key

LEMMA StepMovesOn ==
  ASSUME SyncInv, NEW r \in Caller, Step(r)
  PROVE  SyncInv' /\ SameBut(r) /\ KeysGrow /\ listing' = listing /\ pc[r] # "idle"
<1>1. CASE Search(r)
  <2>1. /\ pc[r] = "search" /\ UNCHANGED <<external, catalog, wanted, met>>
        /\ \E docs \in Seq(Entry), next \in BOOLEAN : Answer(r, docs, next)
    BY <1>1, SearchAnswers
  <2>2. listing' = listing /\ KeysGrow
    BY <2>1 DEF external, KeysGrow
  <2> QED BY <2>1, <2>2, AnswerMovesOn
<1>2. CASE SearchFails(r)
  <2>1. pc[r] # "idle" /\ EndSource(r) /\ UNCHANGED <<external, catalog, wanted, met>>
    BY <1>2 DEF SearchFails
  <2>2. listing' = listing /\ KeysGrow
    BY <2>1 DEF external, KeysGrow
  <2> QED BY <2>1, <2>2, EndMovesOn
<1>3. CASE BookFails(r)
  <2>1. pc[r] = "book" /\ page[r] # <<>> /\ Counted(r, TRUE) /\ catalog' = catalog
    BY <1>3 DEF BookFails, Handles
  <2>2. listing' = listing /\ KeysGrow
    BY <2>1 DEF Counted, external, KeysGrow
  <2> QED BY <2>1, <2>2, CountedMovesOn
<1>4. CASE Update(r)
  <2>1. PICK d \in Matches(Current(r)) :
          /\ pc[r] = "book" /\ page[r] # <<>> /\ Counted(r, Refused(Current(r), catalog \ {d}))
          /\ \/ catalog' = catalog
             \/ catalog' = (catalog \ {d}) \cup {Document(Current(r), d.copy)}
    BY <1>4 DEF Update, Handles
  <2>2. KeysGrow
    <3>1. d.key = Document(Current(r), d.copy).key
      BY DEF Matches, Document
    <3> QED BY <2>1, <3>1 DEF KeysGrow
  <2>3. Refused(Current(r), catalog \ {d}) \in BOOLEAN
    BY DEF Refused
  <2>4. listing' = listing
    BY <2>1 DEF Counted, external
  <2> QED BY <2>1, <2>2, <2>3, <2>4, CountedMovesOn
<1>5. CASE Miss(r)
  <2>1. /\ pc[r] = "book" /\ page[r] # <<>> /\ pc' = [pc EXCEPT ![r] = "insert"]
        /\ UNCHANGED <<external, catalog, wanted, todo, at, page, more, errors, expected, clean, reports, met>>
    BY <1>5 DEF Miss, Handles, source
  <2>2. /\ page[r] \in Seq(Entry) /\ page' = [page EXCEPT ![r] = page[r]] /\ page' = page
        /\ errors[r] \in BOOLEAN /\ errors' = [errors EXCEPT ![r] = errors[r]]
        /\ at[r] \in Nat /\ at' = [at EXCEPT ![r] = at[r]]
        /\ more[r] \in BOOLEAN /\ more' = [more EXCEPT ![r] = more[r]]
        /\ clean[r] \in BOOLEAN /\ clean' = [clean EXCEPT ![r] = clean[r]]
    BY <2>1 DEF SyncInv, TypeOK
  <2>3. listing' = listing /\ KeysGrow
    BY <2>1 DEF external, KeysGrow
  <2> HIDE DEF SyncInv
  <2>4. SyncInv' /\ SameBut(r)
    BY <2>1, <2>2, KeepsQueue
  <2> QED BY <2>1, <2>3, <2>4
<1>6. CASE Insert(r)
  <2> DEFINE new == Document(Current(r), Cardinality(Matches(Current(r))) + 1)
             failed == Refused(Current(r), catalog)
  <2>1. /\ pc[r] = "insert" /\ Counted(r, failed)
        /\ catalog' = catalog \/ catalog' = catalog \cup {new}
    BY <1>6 DEF Insert
  <2>2. failed \in BOOLEAN
    BY DEF Refused
  <2>3. page[r] # <<>>
    BY <2>1 DEF SyncInv, Pending
  <2> HIDE DEF new, failed
  <2>4. listing' = listing /\ KeysGrow
    BY <2>1 DEF Counted, external, KeysGrow
  <2> QED BY <2>1, <2>2, <2>3, <2>4, CountedMovesOn
<1>7. CASE NextPage(r)
  <2>1. pc[r] = "book" /\ UNCHANGED <<external, catalog, wanted, met>>
    BY <1>7 DEF NextPage
  <2>2. listing' = listing /\ KeysGrow
    BY <2>1 DEF external, KeysGrow
  <2>3. CASE more[r]
    <3>1. /\ pc' = [pc EXCEPT ![r] = "search"] /\ at' = [at EXCEPT ![r] = at[r] + BatchSize]
          /\ UNCHANGED <<todo, page, more, errors, expected, clean, reports>>
      BY <1>7, <2>3 DEF NextPage
    <3>2. /\ page[r] \in Seq(Entry) /\ page' = [page EXCEPT ![r] = page[r]]
          /\ errors[r] \in BOOLEAN /\ errors' = [errors EXCEPT ![r] = errors[r]]
          /\ more[r] \in BOOLEAN /\ more' = [more EXCEPT ![r] = more[r]]
          /\ clean[r] \in BOOLEAN /\ clean' = [clean EXCEPT ![r] = clean[r]]
      BY <3>1 DEF SyncInv, TypeOK
    <3>3. at[r] + BatchSize \in Nat
      BY SyncAssumption DEF SyncInv, TypeOK
    <3> HIDE DEF SyncInv
    <3>4. SyncInv' /\ SameBut(r)
      BY <2>1, <3>1, <3>2, <3>3, KeepsQueue
    <3> QED BY <2>1, <2>2, <3>4
  <2>4. CASE ~more[r]
    <3>1. EndSource(r)
      BY <1>7, <2>4 DEF NextPage
    <3> QED BY <2>1, <2>2, <3>1, EndMovesOn
  <2> QED BY <2>3, <2>4
<1> QED BY <1>1, <1>2, <1>3, <1>4, <1>5, <1>6, <1>7 DEF Step

LEMMA OutsideMovesOn ==
  ASSUME SyncInv, \/ \E s \in Source : \E e \in News[s] : Publish(s, e)
                  \/ UNCHANGED vars
  PROVE  SyncInv' /\ \A r \in Caller : SameBut(r)
<1>1. CASE UNCHANGED vars
  BY <1>1 DEF vars, external, source, SyncInv, TypeOK, Pending, SameBut
<1>2. ASSUME NEW s \in Source, NEW e \in News[s], Publish(s, e)
      PROVE  SyncInv' /\ \A r \in Caller : SameBut(r)
  <2>1. /\ published' \in 0..MaxPublished
        /\ UNCHANGED <<configured, catalog, pc, wanted, todo, at, page, more, errors, expected, clean, reports, met>>
    BY <1>2, SyncAssumption DEF Publish, source, SyncInv, TypeOK
  <2>2. listing' \in [Source -> Seq(Entry)]
    <3>1. e \in Entry
      BY SyncAssumption
    <3>2. listing[s] \in Seq(Entry)
      BY DEF SyncInv, TypeOK
    <3>3. Append(listing[s], e) \in Seq(Entry) /\ <<e>> \o listing[s] \in Seq(Entry)
      BY <3>1, <3>2
    <3> QED BY <1>2, <3>3 DEF Publish, SyncInv, TypeOK
  <2>3. TypeOK'
    BY <2>1, <2>2 DEF SyncInv, TypeOK
  <2> QED BY <2>1, <2>3 DEF SyncInv, Pending, SameBut
<1> QED BY <1>1, <1>2

LEMMA SyncStep == SyncInv /\ [Next]_vars => SyncInv'
<1> SUFFICES ASSUME SyncInv, [Next]_vars PROVE SyncInv'
  OBVIOUS
<1>1. ASSUME NEW r \in Caller, Step(r) \/ Crash(r) \/ \E f \in Asks[r] : Begin(r, f) PROVE SyncInv'
  BY <1>1, StepMovesOn, CrashForgets, BeginAsks
<1> QED BY <1>1, OutsideMovesOn DEF Next

LEMMA SyncInit == Init => SyncInv
<1> SUFFICES ASSUME Init PROVE SyncInv
  OBVIOUS
<1>1. <<>> \in Seq(Source) /\ <<>> \in Seq(Entry) /\ 0 \in 0..MaxPublished
  BY SyncAssumption
<1>2. /\ pc \in [Caller -> {"idle", "search", "book", "insert"}]
      /\ todo \in [Caller -> Seq(Source)] /\ page \in [Caller -> Seq(Entry)] /\ at \in [Caller -> Nat]
  BY <1>1 DEF Init
<1>3. /\ wanted \in [Caller -> SUBSET Source] /\ reports \in [Caller -> SUBSET Source]
      /\ expected \in [Caller -> SUBSET Entry]
  <2>1. {} \in SUBSET Source /\ {} \in SUBSET Entry
    OBVIOUS
  <2> QED BY <2>1 DEF Init
<1>4. /\ more \in [Caller -> BOOLEAN] /\ clean \in [Caller -> BOOLEAN] /\ errors \in [Caller -> BOOLEAN]
      /\ met \in BOOLEAN
  BY DEF Init
<1>5. /\ listing \in [Source -> Seq(Entry)] /\ published \in 0..MaxPublished /\ configured \in SUBSET Source
  BY <1>1, SyncAssumption DEF Init
<1>6. TypeOK
  BY <1>2, <1>3, <1>4, <1>5 DEF TypeOK
<1>7. \A r \in Caller : Pending(r)
  BY DEF Init, Pending
<1> QED BY <1>6, <1>7 DEF SyncInv

\* Every variable keeps its type, and what a synchronisation has not reported is
\* still in its queue.
THEOREM SyncTyped == Spec => [](TypeOK /\ \A r \in Caller : Pending(r))
BY SyncInit, SyncStep, PTL DEF Spec, SyncInv

\* A synchronisation that has ended has a report for every source that was asked
\* for, whichever of them failed and whatever runs beside it.
THEOREM AllReported == Spec => []EverySourceReported
<1>1. SyncInv => EverySourceReported
  <2> SUFFICES ASSUME SyncInv, NEW r \in Caller, pc[r] = "idle", NEW s \in wanted[r] PROVE s \in reports[r]
    BY DEF EverySourceReported
  <2>1. todo[r] = <<>>
    BY DEF SyncInv, Pending
  <2>2. 1..Len(todo[r]) = {}
    BY <2>1
  <2> QED BY <2>2 DEF SyncInv, Pending
<1> QED BY <1>1, SyncInit, SyncStep, PTL DEF Spec

-----------------------------------------------------------------------------
(* One document for each caller.                                            *)

OfKey(k) == {d \in catalog : d.key = k}

Inserting(k) == {r \in Caller : pc[r] = "insert" /\ StableKey(Current(r)) = k}

Numbered ==
  /\ \A d \in catalog : d.key = StableKey(d.book) /\ d.copy \in 1..Cardinality(OfKey(d.key))
  /\ \A c, d \in catalog : c.key = d.key /\ c.copy = d.copy => c = d

\* Whoever is about to insert a key found none, so once it has a document, nobody
\* else comes to insert one.
OneEach == \A k : OfKey(k) # {} => Cardinality(OfKey(k)) + Cardinality(Inserting(k)) <= Cardinality(Caller)

CopyInv == IsFiniteSet(catalog) /\ Numbered /\ OneEach

LEMMA InsertingFinite ==
  ASSUME NEW k, NEW T, T \subseteq Inserting(k)
  PROVE  /\ IsFiniteSet(T) /\ Cardinality(T) \in Nat /\ Cardinality(T) <= Cardinality(Inserting(k))
         /\ Cardinality(Inserting(k)) \in Nat /\ Cardinality(Inserting(k)) <= Cardinality(Caller)
         /\ IsFiniteSet(Inserting(k)) /\ Cardinality(Caller) \in Nat
<1>1. IsFiniteSet(Caller) /\ Inserting(k) \subseteq Caller
  BY SyncAssumption DEF Inserting
<1>2. IsFiniteSet(Inserting(k)) /\ Cardinality(Inserting(k)) <= Cardinality(Caller)
  BY <1>1, FS_Subset
<1>3. IsFiniteSet(T) /\ Cardinality(T) <= Cardinality(Inserting(k))
  BY <1>2, FS_Subset
<1> QED BY <1>1, <1>2, <1>3, FS_CardinalityType

LEMMA OfKeyFinite ==
  ASSUME IsFiniteSet(catalog), NEW k
  PROVE  IsFiniteSet(OfKey(k)) /\ Cardinality(OfKey(k)) \in Nat
<1>1. OfKey(k) \subseteq catalog
  BY DEF OfKey
<1> QED BY <1>1, FS_Subset, FS_CardinalityType

\* A step that leaves the catalogue alone, and lets nobody insert a key that has
\* a document.
LEMMA QuietKeepsCopies ==
  ASSUME CopyInv, catalog' = catalog,
         \A k : OfKey(k) # {} => Inserting(k)' \subseteq Inserting(k)
  PROVE  CopyInv'
<1>1. \A k : OfKey(k)' = OfKey(k)
  BY DEF OfKey
<1>2. Numbered'
  BY <1>1 DEF CopyInv, Numbered, OfKey
<1>3. ASSUME NEW k, OfKey(k) # {}
      PROVE  Cardinality(OfKey(k)) + Cardinality(Inserting(k)') <= Cardinality(Caller)
  <2>1. Cardinality(OfKey(k)) + Cardinality(Inserting(k)) <= Cardinality(Caller)
    BY <1>3 DEF CopyInv, OneEach
  <2>2. Cardinality(OfKey(k)) \in Nat
    BY OfKeyFinite DEF CopyInv
  <2>3. /\ Cardinality(Inserting(k)') \in Nat /\ Cardinality(Inserting(k)) \in Nat
        /\ Cardinality(Inserting(k)') <= Cardinality(Inserting(k)) /\ Cardinality(Caller) \in Nat
    BY <1>3, InsertingFinite
  <2> QED BY <2>1, <2>2, <2>3
<1>4. OneEach'
  BY <1>1, <1>3 DEF OneEach
<1> QED BY <1>2, <1>4 DEF CopyInv

LEMMA OthersInsert ==
  ASSUME NEW r \in Caller, SameBut(r), pc'[r] # "insert", NEW k
  PROVE  Inserting(k)' \subseteq Inserting(k) \ {r}
BY DEF Inserting, SameBut, Current

LEMMA MissKeepsCopies ==
  ASSUME CopyInv, NEW r \in Caller, Miss(r), SameBut(r)
  PROVE  CopyInv'
<1>1. catalog' = catalog /\ todo' = todo /\ page' = page /\ Matches(Current(r)) = {}
  BY DEF Miss, source, Catalogued
<1>2. ASSUME NEW k, OfKey(k) # {} PROVE Inserting(k)' \subseteq Inserting(k)
  <2>1. StableKey(Current(r)) # k /\ \A q \in Caller : Current(q)' = Current(q)
    BY <1>1, <1>2 DEF OfKey, Matches, Current
  <2> QED BY <2>1 DEF Inserting, SameBut
<1> QED BY <1>1, <1>2, QuietKeepsCopies

LEMMA InsertKeepsCopies ==
  ASSUME CopyInv, NEW r \in Caller, Insert(r), SameBut(r), pc'[r] = "book"
  PROVE  CopyInv'
<1>0. PICK k, n, new : /\ k = StableKey(Current(r)) /\ n = Cardinality(OfKey(k))
                       /\ new = Document(Current(r), n + 1)
  OBVIOUS
<1>1. pc[r] = "insert" /\ (catalog' = catalog \/ catalog' = catalog \cup {new})
  BY <1>0 DEF Insert, OfKey, Matches
<1>2. CASE catalog' = catalog
  BY <1>2, OthersInsert, QuietKeepsCopies
<1>3. CASE catalog' = catalog \cup {new}
  <2>1. new.key = k /\ new.copy = n + 1 /\ new.key = StableKey(new.book)
    BY <1>0 DEF Document
  <2>2. n \in Nat /\ IsFiniteSet(OfKey(k)) /\ n = Cardinality(OfKey(k))
    BY <1>0, OfKeyFinite DEF CopyInv
  <2>3. r \in Inserting(k)
    BY <1>0, <1>1 DEF Inserting
  <2>4. /\ Inserting(k)' \subseteq Inserting(k) \ {r}
        /\ \A j : Inserting(j)' \subseteq Inserting(j)
    BY OthersInsert
  <2>5. ASSUME NEW d \in OfKey(k) PROVE d.copy \in 1..n
    <3>1. d \in catalog /\ d.key = k
      BY DEF OfKey
    <3> QED BY <2>2, <3>1 DEF CopyInv, Numbered
  <2>6. new \notin OfKey(k)
    BY <2>1, <2>2, <2>5
  <2>7. OfKey(k)' = OfKey(k) \cup {new} /\ \A j : j # k => OfKey(j)' = OfKey(j)
    BY <1>3, <2>1 DEF OfKey
  <2>8. Cardinality(OfKey(k)') = n + 1
    BY <2>2, <2>6, <2>7, FS_AddElement
  <2>9. IsFiniteSet(catalog')
    BY <1>3, FS_AddElement DEF CopyInv
  <2>10. Numbered'
    <3>1. ASSUME NEW d \in catalog'
          PROVE  d.key = StableKey(d.book) /\ d.copy \in 1..Cardinality(OfKey(d.key)')
      <4>1. CASE d = new
        BY <2>1, <2>2, <2>8, <4>1
      <4>2. CASE d \in catalog /\ d.key = k
        <5>1. d \in OfKey(k)
          BY <4>2 DEF OfKey
        <5>2. d.copy \in 1..(n + 1)
          BY <2>2, <2>5, <5>1
        <5> QED BY <2>8, <4>2, <5>2 DEF CopyInv, Numbered
      <4>3. CASE d \in catalog /\ d.key # k
        BY <2>7, <4>3 DEF CopyInv, Numbered
      <4> QED BY <1>3, <4>1, <4>2, <4>3
    <3>2. ASSUME NEW c \in catalog', NEW d \in catalog', c.key = d.key, c.copy = d.copy PROVE c = d
      <4>1. \A e \in catalog : e.key = k => e.copy # n + 1
        BY <2>2, <2>5 DEF OfKey
      <4> QED BY <1>3, <2>1, <3>2, <4>1 DEF CopyInv, Numbered
    <3> QED BY <3>1, <3>2 DEF Numbered
  <2>11. ASSUME NEW j, OfKey(j)' # {}
         PROVE  Cardinality(OfKey(j)') + Cardinality(Inserting(j)') <= Cardinality(Caller)
    <3>1. CASE j = k
      <4> DEFINE m == Cardinality(Inserting(k))
      <4>1. m \in Nat /\ m <= Cardinality(Caller) /\ IsFiniteSet(Inserting(k)) /\ Cardinality(Caller) \in Nat
        BY InsertingFinite
      <4>2. Cardinality(Inserting(k) \ {r}) = m - 1 /\ IsFiniteSet(Inserting(k) \ {r})
        BY <2>3, <4>1, FS_RemoveElement
      <4>3. Cardinality(Inserting(k)') <= m - 1 /\ Cardinality(Inserting(k)') \in Nat
        BY <2>4, <4>2, FS_Subset, FS_CardinalityType
      <4>4. n = 0 \/ n + m <= Cardinality(Caller)
        BY <2>2, FS_EmptySet DEF CopyInv, OneEach
      <4> HIDE DEF m
      <4> QED BY <2>2, <2>8, <3>1, <4>1, <4>3, <4>4
    <3>2. CASE j # k
      <4>1. OfKey(j)' = OfKey(j) /\ OfKey(j) # {}
        BY <2>7, <2>11, <3>2
      <4>2. Cardinality(OfKey(j)) + Cardinality(Inserting(j)) <= Cardinality(Caller) /\ Cardinality(OfKey(j)) \in Nat
        BY <4>1, OfKeyFinite DEF CopyInv, OneEach
      <4>3. /\ Cardinality(Inserting(j)') <= Cardinality(Inserting(j)) /\ Cardinality(Inserting(j)') \in Nat
            /\ Cardinality(Inserting(j)) \in Nat /\ Cardinality(Caller) \in Nat
        BY <2>4, InsertingFinite
      <4> QED BY <4>1, <4>2, <4>3
    <3> QED BY <3>1, <3>2
  <2>12. OneEach'
    BY <2>11 DEF OneEach
  <2> QED BY <2>9, <2>10, <2>12 DEF CopyInv
<1> QED BY <1>1, <1>2, <1>3

LEMMA UpdateKeepsCopies ==
  ASSUME CopyInv, NEW r \in Caller, Update(r), SameBut(r), pc'[r] = "book"
  PROVE  CopyInv'
<1>1. PICK old \in Matches(Current(r)) :
        catalog' = catalog \/ catalog' = (catalog \ {old}) \cup {Document(Current(r), old.copy)}
  BY DEF Update
<1>0. PICK k, new : k = StableKey(Current(r)) /\ new = Document(Current(r), old.copy)
  OBVIOUS
<1>2. /\ new.key = k /\ new.copy = old.copy /\ new.key = StableKey(new.book)
      /\ old \in OfKey(k) /\ old.key = k /\ old \in catalog
  BY <1>0 DEF Document, Matches, OfKey
<1>3. CASE catalog' = catalog
  BY <1>3, OthersInsert, QuietKeepsCopies
<1>4. CASE catalog' = (catalog \ {old}) \cup {new}
  <2>1. \A j : Inserting(j)' \subseteq Inserting(j)
    BY OthersInsert
  <2>2. OfKey(k)' = (OfKey(k) \ {old}) \cup {new} /\ \A j : j # k => OfKey(j)' = OfKey(j)
    BY <1>2, <1>4 DEF OfKey
  <2>3. new \notin OfKey(k) \ {old}
    BY <1>2 DEF OfKey, CopyInv, Numbered
  <2>4. IsFiniteSet(OfKey(k)) /\ Cardinality(OfKey(k)) \in Nat
    BY OfKeyFinite DEF CopyInv
  <2>5. Cardinality(OfKey(k) \ {old}) = Cardinality(OfKey(k)) - 1 /\ IsFiniteSet(OfKey(k) \ {old})
    BY <1>2, <2>4, FS_RemoveElement
  <2>6. Cardinality(OfKey(k)') = Cardinality(OfKey(k)) - 1 + 1
    BY <2>2, <2>3, <2>5, FS_AddElement
  <2>7. \A j : Cardinality(OfKey(j)') = Cardinality(OfKey(j)) /\ (OfKey(j)' # {} => OfKey(j) # {})
    BY <1>2, <2>2, <2>4, <2>6
  <2>8. IsFiniteSet(catalog')
    BY <1>4, FS_AddElement, FS_RemoveElement DEF CopyInv
  <2>9. Numbered'
    <3>1. ASSUME NEW d \in catalog'
          PROVE  d.key = StableKey(d.book) /\ d.copy \in 1..Cardinality(OfKey(d.key)')
      <4>1. d.key = StableKey(d.book) /\ d.copy \in 1..Cardinality(OfKey(d.key))
        BY <1>2, <1>4 DEF CopyInv, Numbered
      <4> QED BY <2>7, <4>1
    <3>2. ASSUME NEW c \in catalog', NEW d \in catalog', c.key = d.key, c.copy = d.copy PROVE c = d
      BY <1>2, <1>4, <3>2 DEF CopyInv, Numbered
    <3> QED BY <3>1, <3>2 DEF Numbered
  <2>10. ASSUME NEW j, OfKey(j)' # {}
         PROVE  Cardinality(OfKey(j)') + Cardinality(Inserting(j)') <= Cardinality(Caller)
    <3>1. Cardinality(OfKey(j)') = Cardinality(OfKey(j)) /\ OfKey(j) # {}
      BY <2>7, <2>10
    <3>2. Cardinality(OfKey(j)) + Cardinality(Inserting(j)) <= Cardinality(Caller) /\ Cardinality(OfKey(j)) \in Nat
      BY <3>1, OfKeyFinite DEF CopyInv, OneEach
    <3>3. /\ Cardinality(Inserting(j)') <= Cardinality(Inserting(j)) /\ Cardinality(Inserting(j)') \in Nat
          /\ Cardinality(Inserting(j)) \in Nat /\ Cardinality(Caller) \in Nat
      BY <2>1, InsertingFinite
    <3> QED BY <3>1, <3>2, <3>3
  <2>11. OneEach'
    BY <2>10 DEF OneEach
  <2> QED BY <2>8, <2>9, <2>11 DEF CopyInv
<1> QED BY <1>0, <1>1, <1>3, <1>4

LEMMA CopyStep ==
  ASSUME KeyInv, SyncInv, CopyInv, [Next]_vars
  PROVE  CopyInv'
<1>1. ASSUME NEW r \in Caller, Step(r) \/ Crash(r) \/ \E f \in Asks[r] : Begin(r, f)
      PROVE  CopyInv'
  <2>1. SameBut(r)
    BY <1>1, StepMovesOn, CrashForgets, BeginAsks
  <2>2. CASE Miss(r)
    BY <2>1, <2>2, MissKeepsCopies
  <2>3. CASE Insert(r)
    <3>1. pc'[r] = "book"
      BY <2>3 DEF Insert, Counted, KeyInv
    <3> QED BY <2>1, <2>3, <3>1, InsertKeepsCopies
  <2>4. CASE Update(r)
    <3>1. pc'[r] = "book"
      BY <2>4 DEF Update, Counted, KeyInv
    <3> QED BY <2>1, <2>4, <3>1, UpdateKeepsCopies
  <2>5. CASE ~Miss(r) /\ ~Insert(r) /\ ~Update(r)
    <3>1. catalog' = catalog
      BY <1>1, <2>5 DEF Step, Search, SearchFails, BookFails, NextPage, Crash, Begin
    <3>2. pc'[r] # "insert"
      <4>1. ASSUME Step(r) \/ Crash(r) PROVE pc'[r] # "insert"
        BY <2>5, <4>1, StepMoves DEF KeyInv
      <4>2. ASSUME NEW f \in Asks[r], Begin(r, f) PROVE pc'[r] # "insert"
        BY <4>2, RunMoves DEF Begin, KeyInv
      <4> QED BY <1>1, <4>1, <4>2
    <3> QED BY <2>1, <3>1, <3>2, OthersInsert, QuietKeepsCopies
  <2> QED BY <2>2, <2>3, <2>4, <2>5
<1>2. ASSUME \/ \E s \in Source : \E e \in News[s] : Publish(s, e)
             \/ UNCHANGED vars
      PROVE  CopyInv'
  <2>1. /\ catalog' = catalog /\ pc' = pc /\ todo' = todo /\ page' = page
    BY <1>2 DEF Publish, vars, source, external
  <2>2. \A k : Inserting(k)' \subseteq Inserting(k)
    BY <2>1 DEF Inserting, Current
  <2> QED BY <2>1, <2>2, QuietKeepsCopies
<1> QED BY <1>1, <1>2 DEF Next

LEMMA CopyInit == Init => CopyInv
<1> SUFFICES ASSUME Init PROVE CopyInv
  OBVIOUS
<1>1. catalog = {}
  BY DEF Init
<1> QED BY <1>1, FS_EmptySet DEF CopyInv, Numbered, OneEach, OfKey

\* While synchronisations do not meet, no two documents share a stable key, and
\* where they meet, as many as there are callers at most, for any sources,
\* entries and callers, with or without the indexes.
THEOREM UniqueKeys == Spec => []OneEntryPerKey
<1>1. KeyInv /\ CopyInv => OneEntryPerKey
  <2> SUFFICES ASSUME KeyInv, CopyInv PROVE OneEntryPerKey
    OBVIOUS
  <2>1. ~met => \A c, d \in catalog : c.key = d.key => c = d
    BY DEF KeyInv, OneKey
  <2>2. ASSUME NEW d \in catalog PROVE Cardinality(Matches(d.book)) <= Cardinality(Caller)
    <3> DEFINE k == StableKey(d.book)
    <3>1. Matches(d.book) = OfKey(k) /\ d \in OfKey(k)
      BY DEF Matches, OfKey, CopyInv, Numbered
    <3> HIDE DEF k
    <3>2. Cardinality(OfKey(k)) + Cardinality(Inserting(k)) <= Cardinality(Caller) /\ Cardinality(OfKey(k)) \in Nat
      BY <3>1, OfKeyFinite DEF CopyInv, OneEach
    <3>3. Cardinality(Inserting(k)) \in Nat /\ Cardinality(Caller) \in Nat
      BY InsertingFinite
    <3> QED BY <3>1, <3>2, <3>3
  <2> QED BY <2>1, <2>2 DEF OneEntryPerKey
<1>2. Init => KeyInv /\ SyncInv /\ CopyInv
  BY KeyInit, SyncInit, CopyInit
<1>3. KeyInv /\ SyncInv /\ CopyInv /\ [Next]_vars => (KeyInv /\ SyncInv /\ CopyInv)'
  BY KeyStep, SyncStep, CopyStep
<1> QED BY <1>1, <1>2, <1>3, PTL DEF Spec

-----------------------------------------------------------------------------
(* Synchronisations get shorter.                                            *)

\* A page is asked for only if the one before it lies within the list.
Onward(r) ==
  /\ pc[r] = "search" => at[r] < Len(listing[Head(todo[r])]) + BatchSize
  /\ pc[r] \in {"book", "insert"} /\ more[r] => at[r] < Len(listing[Head(todo[r])])

ShrinkInv == SyncInv /\ \A r \in Caller : Onward(r)

\* An answer that is not empty was asked for within the list.
LEMMA AskedWithin ==
  ASSUME SyncInv, NEW r \in Caller, pc[r] = "search",
         NEW docs \in {Titled(Raw(r)), Raw(r), <<>>}, docs # <<>>
  PROVE  at[r] < Len(listing[Head(todo[r])])
<1> DEFINE l == listing[Head(todo[r])]
           top == IF at[r] + BatchSize < Len(l) THEN at[r] + BatchSize ELSE Len(l)
<1>1. l \in Seq(Entry) /\ Len(l) \in Nat /\ at[r] \in Nat /\ BatchSize \in Nat /\ Raw(r) = SubSeq(l, at[r] + 1, top)
  BY RawIs, SyncAssumption DEF SyncInv, TypeOK, Raw
<1> HIDE DEF l
<1>2. top \in Nat /\ top <= Len(l)
  BY <1>1
<1>3. Raw(r) \in Seq(Entry) /\ Len(Raw(r)) = IF at[r] < top THEN top - at[r] ELSE 0
  <2> HIDE DEF top
  <2> QED BY <1>1, <1>2, SubSeqIs
<1>4. ASSUME Raw(r) = <<>> PROVE Titled(Raw(r)) = <<>>
  <2> DEFINE T == {e \in Entry : e.titled}
             t == Select(Raw(r), T)
  <2>1. t \in Seq(Entry)
    BY <1>3, SelectType
  <2>2. PICK pos : Places(pos, t, Raw(r), Len(Raw(r)), T)
    BY <1>3, SelectPlaces
  <2> HIDE DEF T, t
  <2>3. 1..Len(Raw(r)) = {}
    BY <1>4
  <2>4. 1 \notin 1..Len(t)
    BY <2>2, <2>3 DEF Places
  <2>5. t = <<>>
    BY <2>1, <2>4
  <2> QED BY <2>5 DEF t, T, Titled
<1>5. at[r] < top
  <2>1. Raw(r) # <<>>
    BY <1>4
  <2>2. Len(Raw(r)) # 0
    BY <1>3, <2>1
  <2> QED BY <1>3, <2>2
<1>6. at[r] < Len(l)
  <2> HIDE DEF top
  <2> QED BY <1>1, <1>2, <1>5
<1> QED BY <1>6 DEF l

\* The terms of Room are numbers.
LEMMA RoomIs ==
  ASSUME SyncInv, NEW s \in Source
  PROVE  /\ Len(listing[s]) \in Nat /\ BatchSize \in Nat \ {0}
         /\ MaxPublished - published \in Nat
<1>1. listing[s] \in Seq(Entry) /\ published \in 0..MaxPublished /\ MaxPublished \in Nat
  BY SyncAssumption DEF SyncInv, TypeOK
<1> QED BY <1>1, SyncAssumption

LEMMA AheadIs ==
  ASSUME SyncInv, NEW r \in Caller, Onward(r)
  PROVE  Ahead(r) \in Nat /\ InPage(r) \in Nat
<1>1. Ahead(r) \in Nat
  <2>1. CASE pc[r] \notin {"search", "book", "insert"}
    BY <2>1 DEF Ahead
  <2>2. CASE pc[r] \in {"search", "book", "insert"}
    <3> DEFINE n == Len(listing[Head(todo[r])])
               m == MaxPublished - published
    <3>1. n \in Nat /\ m \in Nat /\ BatchSize \in Nat /\ at[r] \in Nat
      BY <2>2, RawIs, RoomIs DEF SyncInv, TypeOK
    <3>2. Room(r) = n + m + BatchSize - at[r]
      BY DEF Room
    <3>3. /\ pc[r] = "search" => at[r] < n + BatchSize
          /\ pc[r] \in {"book", "insert"} /\ more[r] => at[r] < n
      BY DEF Onward
    <3> HIDE DEF n, m
    <3>4. /\ pc[r] = "search" => Room(r) \in Nat
          /\ pc[r] \in {"book", "insert"} /\ more[r] => Room(r) - BatchSize \in Nat
      BY <3>1, <3>2, <3>3
    <3> QED BY <2>2, <3>4 DEF Ahead
  <2> QED BY <2>1, <2>2
<1>2. InPage(r) \in Nat
  <2>1. Len(page[r]) \in Nat
    BY DEF SyncInv, TypeOK
  <2>2. 2 * Len(page[r]) \in Nat /\ 2 * Len(page[r]) + 1 \in Nat
    BY <2>1
  <2> QED BY <2>2 DEF InPage
<1> QED BY <1>1, <1>2

\* A source whose turn has come is all ahead.
LEMMA RunOnward ==
  ASSUME SyncInv, NEW r \in Caller, NEW queue \in Seq(Source), Run(r, queue), UNCHANGED external
  PROVE  Onward(r)' /\ todo'[r] = queue
<1>1. todo'[r] = queue /\ at'[r] = 0 /\ pc'[r] = IF queue = <<>> THEN "idle" ELSE "search"
  BY RunTyped DEF SyncInv
<1>2. CASE queue = <<>>
  BY <1>1, <1>2 DEF Onward
<1>3. CASE queue # <<>>
  <2>1. Head(queue) \in Source
    BY <1>3
  <2>2. 0 < Len(listing[Head(queue)]) + BatchSize
    BY <2>1, RoomIs
  <2> QED BY <1>1, <1>3, <2>2 DEF Onward, external
<1> QED BY <1>2, <1>3

LEMMA EndShortens ==
  ASSUME SyncInv, NEW r \in Caller, pc[r] # "idle", EndSource(r), UNCHANGED external
  PROVE  Onward(r)' /\ Shorter(r)
<1>1. todo[r] \in Seq(Source) /\ todo[r] # <<>>
  BY DEF SyncInv, TypeOK, Pending
<1>2. Tail(todo[r]) \in Seq(Source) /\ Len(Tail(todo[r])) < Len(todo[r])
  BY <1>1
<1>3. Run(r, Tail(todo[r]))
  BY DEF EndSource
<1>4. Onward(r)' /\ todo'[r] = Tail(todo[r])
  BY <1>2, <1>3, RunOnward
<1> QED BY <1>2, <1>4 DEF Shorter

\* An answer leaves at most what is beyond its page, and so less.
LEMMA AnswerShortens ==
  ASSUME SyncInv, NEW r \in Caller, pc[r] = "search",
         NEW docs \in {Titled(Raw(r)), Raw(r), <<>>}, docs \in Seq(Entry), NEW next \in BOOLEAN,
         Answer(r, docs, next), UNCHANGED external
  PROVE  Onward(r)' /\ Shorter(r)
<1>1. CASE docs = <<>>
  BY <1>1, EndShortens DEF Answer
<1>2. CASE docs # <<>>
  <2> DEFINE n == Len(listing[Head(todo[r])])
             m == MaxPublished - published
  <2>1. /\ pc'[r] = "book" /\ more'[r] = next /\ todo'[r] = todo[r] /\ at'[r] = at[r]
    BY <1>2 DEF Answer, SyncInv, TypeOK
  <2>2. n \in Nat /\ m \in Nat /\ BatchSize \in Nat \ {0} /\ at[r] \in Nat /\ at[r] < n
    BY <1>2, RoomIs, RawIs, AskedWithin DEF SyncInv, TypeOK
  <2>3. /\ Ahead(r) = n + m + BatchSize - at[r]
        /\ Ahead(r)' = IF next THEN n + m + BatchSize - at[r] - BatchSize ELSE 0
    <3>1. Room(r) = n + m + BatchSize - at[r] /\ Room(r)' = n + m + BatchSize - at[r]
      BY <2>1 DEF Room, external
    <3>2. /\ Ahead(r) = Room(r)
          /\ next => Ahead(r)' = Room(r)' - BatchSize
          /\ ~next => Ahead(r)' = 0
      BY <2>1 DEF Ahead
    <3> HIDE DEF n, m
    <3> QED BY <2>2, <3>1, <3>2
  <2> HIDE DEF n, m
  <2>4. /\ n + m + BatchSize - at[r] > n + m + BatchSize - at[r] - BatchSize /\ n + m + BatchSize - at[r] > 0
    BY <2>2
  <2>5. Ahead(r)' < Ahead(r)
    BY <2>3, <2>4
  <2>6. at'[r] < Len(listing'[Head(todo'[r])])
    BY <2>1, <2>2 DEF n, external
  <2> QED BY <2>1, <2>5, <2>6 DEF Onward, Shorter
<1> QED BY <1>1, <1>2

\* The steps within a page leave what is ahead alone.
LEMMA PageShortens ==
  ASSUME SyncInv, NEW r \in Caller, Onward(r), pc[r] \in {"book", "insert"}, pc'[r] \in {"book", "insert"},
         todo'[r] = todo[r], at'[r] = at[r], more'[r] = more[r], UNCHANGED external, InPage(r)' < InPage(r)
  PROVE  Onward(r)' /\ Shorter(r)
<1>1. Ahead(r)' = Ahead(r)
  BY DEF Ahead, Room, external
<1>2. Onward(r)'
  BY DEF Onward, external
<1> QED BY <1>1, <1>2 DEF Shorter

LEMMA CountedShortens ==
  ASSUME SyncInv, NEW r \in Caller, Onward(r), pc[r] \in {"book", "insert"}, page[r] # <<>>,
         NEW failed, Counted(r, failed)
  PROVE  Onward(r)' /\ Shorter(r)
<1>1. /\ pc'[r] = "book" /\ page'[r] = Tail(page[r]) /\ todo' = todo /\ at' = at /\ more' = more
      /\ UNCHANGED external
  BY DEF Counted, SyncInv, TypeOK
<1>2. page[r] \in Seq(Entry) /\ Len(page[r]) \in Nat /\ Len(Tail(page[r])) = Len(page[r]) - 1
  BY DEF SyncInv, TypeOK
<1>3. InPage(r)' = 2 * Len(Tail(page[r])) + 1 /\ InPage(r) \in {2 * Len(page[r]) + 1, 2 * Len(page[r])}
  BY <1>1 DEF InPage
<1>4. InPage(r)' < InPage(r)
  BY <1>2, <1>3
<1> QED BY <1>1, <1>4, PageShortens

LEMMA StepShortens ==
  ASSUME SyncInv, NEW r \in Caller, Onward(r), Step(r)
  PROVE  Onward(r)' /\ Shorter(r) /\ UNCHANGED external
<1>1. CASE Search(r)
  BY <1>1, SearchAnswers, AnswerShortens
<1>2. CASE SearchFails(r)
  <2>1. pc[r] # "idle" /\ EndSource(r) /\ UNCHANGED external
    BY <1>2 DEF SearchFails
  <2> QED BY <2>1, EndShortens
<1>3. CASE BookFails(r)
  <2>1. pc[r] = "book" /\ page[r] # <<>> /\ Counted(r, TRUE) /\ UNCHANGED external
    BY <1>3 DEF BookFails, Handles, Counted
  <2> QED BY <2>1, CountedShortens
<1>4. CASE Update(r)
  <2>1. pc[r] = "book" /\ page[r] # <<>> /\ (\E failed : Counted(r, failed)) /\ UNCHANGED external
    BY <1>4 DEF Update, Handles, Counted
  <2> QED BY <2>1, CountedShortens
<1>5. CASE Miss(r)
  <2>1. /\ pc[r] = "book" /\ pc'[r] = "insert" /\ todo'[r] = todo[r] /\ at'[r] = at[r]
        /\ more'[r] = more[r] /\ page'[r] = page[r] /\ UNCHANGED external
    BY <1>5 DEF Miss, Handles, source, SyncInv, TypeOK
  <2>2. Len(page[r]) \in Nat
    BY DEF SyncInv, TypeOK
  <2>3. InPage(r) = 2 * Len(page[r]) + 1 /\ InPage(r)' = 2 * Len(page[r])
    BY <2>1 DEF InPage
  <2>4. InPage(r)' < InPage(r)
    BY <2>2, <2>3
  <2> QED BY <2>1, <2>4, PageShortens
<1>6. CASE Insert(r)
  <2>1. pc[r] = "insert" /\ Counted(r, Refused(Current(r), catalog)) /\ UNCHANGED external
    BY <1>6 DEF Insert, Counted
  <2>2. page[r] # <<>>
    BY <2>1 DEF SyncInv, Pending
  <2> QED BY <2>1, <2>2, CountedShortens
<1>7. CASE NextPage(r)
  <2>1. pc[r] = "book" /\ page[r] = <<>> /\ UNCHANGED external
    BY <1>7 DEF NextPage
  <2>2. CASE ~more[r]
    <3>1. EndSource(r)
      BY <1>7, <2>2 DEF NextPage
    <3> QED BY <2>1, <3>1, EndShortens
  <2>3. CASE more[r]
    <3> DEFINE n == Len(listing[Head(todo[r])])
               m == MaxPublished - published
    <3>1. pc'[r] = "search" /\ at'[r] = at[r] + BatchSize /\ todo'[r] = todo[r]
      BY <1>7, <2>3 DEF NextPage, SyncInv, TypeOK
    <3>2. Room(r) = n + m + BatchSize - at[r] /\ Room(r)' = n + m + BatchSize - at'[r]
      BY <2>1, <3>1 DEF Room, external
    <3>3. n \in Nat /\ m \in Nat /\ at[r] \in Nat /\ BatchSize \in Nat
      BY <2>1, RoomIs, RawIs DEF SyncInv, TypeOK
    <3>4. Ahead(r) = Room(r) - BatchSize /\ Ahead(r)' = Room(r)'
      BY <2>1, <2>3, <3>1 DEF Ahead
    <3>5. Ahead(r)' = Ahead(r)
      <4> HIDE DEF n, m
      <4> QED BY <3>1, <3>2, <3>3, <3>4
    <3>6. InPage(r) = 2 * Len(page[r]) + 1 /\ InPage(r)' = 0 /\ Len(page[r]) = 0
      BY <2>1, <3>1 DEF InPage
    <3>7. InPage(r)' < InPage(r)
      BY <3>6
    <3>8. at[r] + BatchSize < Len(listing[Head(todo[r])]) + BatchSize
      <4>1. at[r] < Len(listing[Head(todo[r])])
        BY <2>1, <2>3 DEF Onward
      <4>2. Len(listing[Head(todo[r])]) \in Nat /\ at[r] \in Nat /\ BatchSize \in Nat
        BY <2>1, RoomIs, RawIs DEF SyncInv, TypeOK
      <4> QED BY <4>1, <4>2
    <3>9. Onward(r)'
      BY <2>1, <3>1, <3>8 DEF Onward, external
    <3> QED BY <2>1, <3>1, <3>5, <3>7, <3>9 DEF Shorter
  <2> QED BY <2>2, <2>3
<1> QED BY <1>1, <1>2, <1>3, <1>4, <1>5, <1>6, <1>7 DEF Step

\* What the others do leaves a synchronisation as long as it is.
LEMMA OthersLeaveIt ==
  ASSUME SyncInv, NEW q \in Caller, Onward(q), UNCHANGED external, NEW r \in Caller, q # r, SameBut(r)
  PROVE  Onward(q)' /\ (pc[q] # "idle" => NoLonger(q))
<1>1. pc'[q] = pc[q] /\ todo'[q] = todo[q] /\ at'[q] = at[q] /\ page'[q] = page[q] /\ more'[q] = more[q]
  BY DEF SameBut
<1>2. Ahead(q)' = Ahead(q) /\ InPage(q)' = InPage(q)
  BY <1>1 DEF Ahead, InPage, Room, external
<1>3. Ahead(q) \in Nat
  BY AheadIs
<1>4. Ahead(q)' <= Ahead(q)
  BY <1>2, <1>3
<1>5. Onward(q)'
  BY <1>1 DEF Onward, external
<1> QED BY <1>1, <1>2, <1>4, <1>5 DEF NoLonger

\* A publication was allowed for: one entry more in a list, one less to come.
LEMMA PublishAllowedFor ==
  ASSUME SyncInv, NEW s \in Source, NEW e \in News[s], Publish(s, e), NEW r \in Caller, Onward(r)
  PROVE  Onward(r)' /\ (pc[r] # "idle" => NoLonger(r))
<1>1. /\ published < MaxPublished /\ published' = published + 1
      /\ listing' = [listing EXCEPT ![s] = IF s = "openalex" THEN Append(listing[s], e) ELSE <<e>> \o listing[s]]
      /\ UNCHANGED <<pc, todo, at, page, more>>
  BY DEF Publish, source
<1>2. CASE pc[r] = "idle"
  BY <1>1, <1>2 DEF Onward
<1>3. CASE pc[r] # "idle"
  <2> DEFINE t == Head(todo[r])
             n == Len(listing[t])
             k == Len(listing'[t])
  <2>1. t \in Source
    BY <1>3, RawIs
  <2>2. n \in Nat /\ published \in Int /\ MaxPublished \in Int /\ at[r] \in Nat /\ BatchSize \in Nat
    BY <2>1, RoomIs, SyncAssumption DEF SyncInv, TypeOK
  <2>3. k \in {n, n + 1}
    <3>1. CASE t # s
      BY <1>1, <2>1, <3>1 DEF SyncInv, TypeOK
    <3>2. CASE t = s
      <4>1. listing[s] \in Seq(Entry) /\ e \in Entry
        BY SyncAssumption DEF SyncInv, TypeOK
      <4>2. listing'[s] = IF s = "openalex" THEN Append(listing[s], e) ELSE <<e>> \o listing[s]
        BY <1>1 DEF SyncInv, TypeOK
      <4>3. Len(listing'[s]) = Len(listing[s]) + 1
        BY <4>1, <4>2
      <4> QED BY <3>2, <4>3
    <3> QED BY <3>1, <3>2
  <2>4. /\ Room(r) = n + (MaxPublished - published) + BatchSize - at[r]
        /\ Room(r)' = k + (MaxPublished - (published + 1)) + BatchSize - at[r]
    BY <1>1 DEF Room
  <2>5. /\ at'[r] = at[r] /\ pc'[r] = pc[r] /\ more'[r] = more[r] /\ t = Head(todo'[r])
        /\ todo'[r] = todo[r] /\ InPage(r)' = InPage(r)
    BY <1>1 DEF InPage
  <2>6. Onward(r)'
    <3>1. /\ pc[r] = "search" => at[r] < n + BatchSize
          /\ pc[r] \in {"book", "insert"} /\ more[r] => at[r] < n
      BY DEF Onward
    <3>2. /\ pc[r] = "search" => at[r] < k + BatchSize
          /\ pc[r] \in {"book", "insert"} /\ more[r] => at[r] < k
      <4> HIDE DEF t, n, k
      <4> QED BY <2>2, <2>3, <3>1
    <3> QED BY <2>5, <3>2 DEF Onward
  <2>7. Ahead(r)' <= Ahead(r)
    <3> HIDE DEF t, n, k
    <3>1. Room(r)' <= Room(r) /\ Room(r)' - BatchSize <= Room(r) - BatchSize
      BY <2>2, <2>3, <2>4
    <3> QED BY <2>5, <3>1 DEF Ahead
  <2> QED BY <2>5, <2>6, <2>7 DEF NoLonger
<1> QED BY <1>2, <1>3

\* What a step of r, or of anybody else, does to the synchronisation of q.
LEMMA NextShortens ==
  ASSUME ShrinkInv, [Next]_vars, NEW q \in Caller
  PROVE  Onward(q)' /\ (pc[q] # "idle" => Shorter(q) \/ (~Step(q) /\ NoLonger(q)))
<1>0. SyncInv /\ Onward(q)
  BY DEF ShrinkInv
<1>1. CASE Step(q)
  BY <1>0, <1>1, StepShortens
<1>2. CASE ~Step(q)
  <2>1. ASSUME NEW r \in Caller, q # r, Step(r) \/ Crash(r) \/ \E f \in Asks[r] : Begin(r, f)
        PROVE  Onward(q)' /\ (pc[q] # "idle" => NoLonger(q))
    <3>1. SameBut(r) /\ UNCHANGED external
      <4>1. CASE Step(r)
        BY <1>0, <4>1, StepMovesOn, StepShortens DEF ShrinkInv
      <4>2. CASE Crash(r)
        BY <1>0, <4>2, CrashForgets DEF Crash
      <4>3. ASSUME NEW f, Begin(r, f) PROVE SameBut(r) /\ UNCHANGED external
        BY <1>0, <4>3, BeginAsks DEF Begin
      <4> QED BY <2>1, <4>1, <4>2, <4>3
    <3> QED BY <1>0, <2>1, <3>1, OthersLeaveIt
  <2>2. CASE Crash(q)
    <3> DEFINE queue == <<>>
    <3>1. queue \in Seq(Source) /\ Run(q, queue) /\ UNCHANGED external /\ pc[q] # "idle" /\ Len(queue) = 0
      BY <2>2 DEF Crash
    <3> HIDE DEF queue
    <3>2. Onward(q)' /\ todo'[q] = queue
      BY <1>0, <3>1, RunOnward
    <3>3. Len(todo[q]) > 0
      BY <1>0, <3>1 DEF SyncInv, TypeOK, Pending
    <3> QED BY <3>1, <3>2, <3>3 DEF Shorter
  <2>3. ASSUME NEW f, Begin(q, f) PROVE Onward(q)' /\ pc[q] = "idle"
    <3> DEFINE queue == Select(Sources, {s \in Source : f \in {None, s}} \cap configured)
    <3>1. queue \in Seq(Source) /\ Run(q, queue) /\ UNCHANGED external /\ pc[q] = "idle"
      BY <2>3, SourcesTyped, SelectType DEF Begin
    <3> HIDE DEF queue
    <3> QED BY <1>0, <3>1, RunOnward
  <2>4. ASSUME NEW s \in Source, NEW e \in News[s], Publish(s, e)
        PROVE  Onward(q)' /\ (pc[q] # "idle" => NoLonger(q))
    BY <1>0, <2>4, PublishAllowedFor
  <2>5. CASE UNCHANGED vars
    <3>1. /\ UNCHANGED external
          /\ pc' = pc /\ todo' = todo /\ at' = at /\ page' = page /\ more' = more
      BY <2>5 DEF vars, source
    <3>2. Ahead(q)' = Ahead(q) /\ InPage(q)' = InPage(q)
      BY <3>1 DEF Ahead, InPage, Room, external
    <3>3. Ahead(q)' <= Ahead(q)
      BY <1>0, <3>2, AheadIs
    <3>4. Onward(q)'
      BY <1>0, <3>1 DEF Onward, external
    <3>5. todo'[q] = todo[q]
      BY <3>1
    <3> QED BY <1>2, <3>2, <3>3, <3>4, <3>5 DEF NoLonger
  <2>6. \/ \E r \in Caller : Step(r) \/ Crash(r) \/ \E f \in Asks[r] : Begin(r, f)
        \/ \E s \in Source : \E e \in News[s] : Publish(s, e)
        \/ UNCHANGED vars
    BY DEF Next
  <2> QED BY <1>2, <2>1, <2>2, <2>3, <2>4, <2>5, <2>6
<1> QED BY <1>1, <1>2

\* Each step of a synchronisation ends a source, or leaves less of its list or of
\* the page at hand.  These are numbers, in which publications are counted before
\* they happen, so that only finitely many steps follow a beginning, for lists and
\* pages of any length, whatever fails and whatever others do.
THEOREM SyncsGetShorter ==
  Spec => SyncsShrink /\ [](\A r \in Caller : Ahead(r) \in Nat /\ InPage(r) \in Nat)
<1> DEFINE Shrinks == \A r \in Caller : pc[r] # "idle" => Shorter(r) \/ (~Step(r) /\ NoLonger(r))
           Numbers == \A r \in Caller : Ahead(r) \in Nat /\ InPage(r) \in Nat
<1>1. Init => ShrinkInv
  <2>1. Init => \A r \in Caller : Onward(r)
    BY DEF Init, Onward
  <2> QED BY <2>1, SyncInit DEF ShrinkInv
<1>2. ShrinkInv /\ [Next]_vars => ShrinkInv'
  BY SyncStep, NextShortens DEF ShrinkInv
<1>3. ShrinkInv /\ [Next]_vars => [Shrinks]_vars
  BY NextShortens
<1>4. ShrinkInv => Numbers
  BY AheadIs DEF ShrinkInv
<1>5. SyncsShrink <=> [][Shrinks]_vars
  BY DEF SyncsShrink
<1> HIDE DEF Shrinks, Numbers
<1>6. Spec => [][Shrinks]_vars /\ []Numbers
  BY <1>1, <1>2, <1>3, <1>4, PTL DEF Spec
<1> QED BY <1>5, <1>6 DEF Numbers

-----------------------------------------------------------------------------
(* Nothing that was listed is skipped.                                      *)

\* Entry e of source s is beyond offset n; of gutenberg only one page is read.
Listed(s, e, n) ==
  \E j \in 1..Len(listing[s]) : j > n /\ listing[s][j] = e /\ (s = "gutenberg" => j <= BatchSize)

OnPage(r, e) == \E i \in 1..Len(page[r]) : page[r][i] = e

\* As long as nothing went wrong with the source, what is expected is in the
\* catalogue, on the page at hand, or on a page that will be asked for.
Awaits(r, s, e) ==
  \/ Catalogued(Book(s, e))
  \/ pc[r] = "search" /\ Listed(s, e, at[r])
  \/ pc[r] # "search" /\ (OnPage(r, e) \/ (more[r] /\ Listed(s, e, at[r] + BatchSize)))

Awaited(r) ==
  pc[r] # "idle" =>
    \A e \in expected[r] :
      /\ Head(todo[r]) = "gutenberg" \/ e.titled
      /\ ~errors[r] /\ clean[r] => Awaits(r, Head(todo[r]), e)

SkipInv == SyncInv /\ \A r \in Caller : Awaited(r)

LEMMA CataloguedStays ==
  ASSUME KeysGrow, NEW b, Catalogued(b)
  PROVE  Catalogued(b)'
BY DEF KeysGrow, Catalogued, Matches

\* The others await what they awaited.
LEMMA OthersAwait ==
  ASSUME SyncInv, NEW q \in Caller, Awaited(q), KeysGrow, listing' = listing,
         NEW r \in Caller, q # r, SameBut(r)
  PROVE  Awaited(q)'
<1>1. /\ pc'[q] = pc[q] /\ todo'[q] = todo[q] /\ at'[q] = at[q] /\ page'[q] = page[q] /\ more'[q] = more[q]
      /\ errors'[q] = errors[q] /\ expected'[q] = expected[q] /\ clean'[q] = clean[q]
  BY DEF SameBut
<1>2. ASSUME NEW s, NEW e, Awaits(q, s, e) PROVE Awaits(q, s, e)'
  BY <1>1, <1>2, CataloguedStays DEF Awaits, Listed, OnPage
<1> QED BY <1>1, <1>2 DEF Awaited

\* When a source's turn comes, all that is expected is listed.
LEMMA RunAwaits ==
  ASSUME SyncInv, NEW r \in Caller, NEW queue \in Seq(Source), Run(r, queue), listing' = listing
  PROVE  Awaited(r)'
<1>1. /\ todo'[r] = queue /\ pc'[r] = (IF queue = <<>> THEN "idle" ELSE "search")
      /\ at'[r] = 0 /\ expected'[r] = IF queue = <<>> THEN {} ELSE Expected(Head(queue))
  BY RunTyped DEF SyncInv
<1>2. ASSUME queue # <<>>, NEW e \in Expected(Head(queue))
      PROVE  (Head(queue) = "gutenberg" \/ e.titled) /\ Listed(Head(queue), e, 0)'
  <2> DEFINE s == Head(queue)
  <2>1. PICK j \in 1..Len(listing[s]) :
          /\ listing[s][j] = e
          /\ s = "gutenberg" => j <= BatchSize
          /\ s = "gutenberg" \/ listing[s][j].titled
    BY <1>2 DEF Expected
  <2>2. s \in Source /\ j > 0
    BY <1>2 DEF SyncInv, TypeOK
  <2> HIDE DEF s
  <2>3. (s = "gutenberg" \/ e.titled) /\ Listed(s, e, 0)'
    BY <2>1, <2>2 DEF Listed
  <2> QED BY <2>3 DEF s
<1>3. ASSUME queue # <<>>, NEW e \in Expected(Head(queue)) PROVE Awaits(r, Head(queue), e)'
  BY <1>1, <1>2, <1>3 DEF Awaits
<1> QED BY <1>1, <1>2, <1>3 DEF Awaited

LEMMA EndAwaits ==
  ASSUME SyncInv, NEW r \in Caller, pc[r] # "idle", EndSource(r), listing' = listing
  PROVE  Awaited(r)'
<1>1. Tail(todo[r]) \in Seq(Source)
  BY DEF SyncInv, TypeOK, Pending
<1> QED BY <1>1, RunAwaits DEF EndSource

\* The search of a page: what is expected and listed beyond the offset is on the
\* page or on one that will be asked for.  The page is longer than docs if it
\* holds an untitled entry, which is not expected.
LEMMA PageAwaits ==
  ASSUME SyncInv, NEW r \in Caller, pc[r] = "search", Awaited(r), listing' = listing, KeysGrow,
         NEW docs \in Seq(Entry), docs # <<>>, NEW next, Answer(r, docs, next),
         docs = Raw(r) \/ (docs = Titled(Raw(r)) /\ Head(todo[r]) # "gutenberg"),
         Len(docs) = BatchSize /\ Head(todo[r]) # "gutenberg"
           => next \/ at[r] + BatchSize >= Len(listing[Head(todo[r])])
  PROVE  Awaited(r)'
<1> DEFINE s == Head(todo[r])
<1>1. /\ pc'[r] = "book" /\ page'[r] = docs /\ more'[r] = next
      /\ clean'[r] = (clean[r] /\ Len(docs) = Len(Raw(r)))
      /\ todo' = todo /\ at' = at /\ errors' = errors /\ expected' = expected
  BY DEF Answer, SyncInv, TypeOK
<1>2. /\ Raw(r) \in Seq(Entry)
      /\ \A j \in 1..Len(listing[s]) :
           j > at[r] => \/ \E i \in 1..Len(Raw(r)) : Raw(r)[i] = listing[s][j]
                        \/ Len(Raw(r)) = BatchSize /\ j > at[r] + BatchSize
  BY RawIs
<1>3. ASSUME NEW e \in Entry, NEW i \in 1..Len(Raw(r)), Raw(r)[i] = e, s = "gutenberg" \/ e.titled
      PROVE  \E k \in 1..Len(docs) : docs[k] = e
  <2>1. CASE docs = Raw(r)
    BY <1>3, <2>1
  <2>2. CASE docs = Titled(Raw(r)) /\ s # "gutenberg"
    <3> DEFINE T == {x \in Entry : x.titled}
    <3>1. docs = Select(Raw(r), T) /\ Raw(r)[i] \in T
      BY <1>3, <2>2 DEF Titled
    <3> HIDE DEF T
    <3>2. PICK pos : Places(pos, docs, Raw(r), Len(Raw(r)), T)
      BY <1>2, <3>1, SelectPlaces
    <3>3. PICK k \in 1..Len(docs) : pos[k] = i
      BY <3>1, <3>2 DEF Places
    <3>4. docs[k] = Raw(r)[i]
      BY <3>2, <3>3 DEF Places
    <3> QED BY <1>3, <3>4
  <2> QED BY <2>1, <2>2
<1>4. ASSUME NEW e \in expected[r], ~errors[r], clean'[r] PROVE Awaits(r, s, e)'
  <2>1. clean[r] /\ Len(docs) = Len(Raw(r)) /\ e \in Entry
    BY <1>1, <1>4 DEF SyncInv, TypeOK
  <2>2. (s = "gutenberg" \/ e.titled) /\ (Catalogued(Book(s, e)) \/ Listed(s, e, at[r]))
    BY <1>4, <2>1 DEF Awaited, Awaits
  <2>3. CASE Catalogued(Book(s, e))
    <3>1. PICK b : b = Book(s, e)
      OBVIOUS
    <3>2. Catalogued(b)'
      BY <2>3, <3>1, CataloguedStays
    <3>3. b = Book(Head(todo'[r]), e)
      BY <1>1, <3>1
    <3> QED BY <3>2, <3>3 DEF Awaits
  <2>4. CASE Listed(s, e, at[r])
    <3>1. PICK j \in 1..Len(listing[s]) : j > at[r] /\ listing[s][j] = e /\ (s = "gutenberg" => j <= BatchSize)
      BY <2>4 DEF Listed
    <3>2. CASE \E i \in 1..Len(Raw(r)) : Raw(r)[i] = e
      <4>1. OnPage(r, e)'
        BY <1>1, <1>3, <2>1, <2>2, <3>2 DEF OnPage
      <4> QED BY <1>1, <4>1 DEF Awaits
    <3>3. CASE Len(Raw(r)) = BatchSize /\ j > at[r] + BatchSize
      <4>1. at[r] \in Nat /\ BatchSize \in Nat /\ Len(listing[s]) \in Nat
        <5>1. s \in Source
          BY RawIs
        <5> QED BY <5>1, SyncAssumption DEF SyncInv, TypeOK
      <4>2. s # "gutenberg" /\ ~(at[r] + BatchSize >= Len(listing[s]))
        <5> HIDE DEF s
        <5> QED BY <3>1, <3>3, <4>1
      <4>3. next
        BY <2>1, <3>3, <4>2
      <4>4. Listed(s, e, at[r] + BatchSize)'
        BY <1>1, <3>1, <3>3 DEF Listed
      <4> QED BY <1>1, <4>3, <4>4 DEF Awaits
    <3> QED BY <1>2, <3>1, <3>2, <3>3
  <2> QED BY <2>2, <2>3, <2>4
<1> QED BY <1>1, <1>4 DEF Awaited

LEMMA SearchAwaits ==
  ASSUME SyncInv, NEW r \in Caller, Awaited(r), Search(r)
  PROVE  Awaited(r)'
<1>1. /\ UNCHANGED <<external, catalog, wanted, met>>
      /\ SyncOpenLibrary(r) \/ SyncGutenberg(r) \/ SyncOpenAlex(r) \/ SyncArxiv(r) \/ SyncCrossref(r)
  BY DEF Search
<1>2. pc[r] = "search" /\ listing' = listing /\ KeysGrow
  BY <1>1 DEF SyncOpenLibrary, SyncGutenberg, SyncOpenAlex, SyncArxiv, SyncCrossref, Searching, external, KeysGrow
<1>3. Raw(r) \in Seq(Entry) /\ Titled(Raw(r)) \in Seq(Entry)
  BY <1>2, RawIs
<1>4. ASSUME NEW docs, NEW next, Answer(r, docs, next),
             docs = <<>> \/ docs = Raw(r) \/ (docs = Titled(Raw(r)) /\ Head(todo[r]) # "gutenberg"),
             Len(docs) = BatchSize /\ Head(todo[r]) # "gutenberg"
               => next \/ at[r] + BatchSize >= Len(listing[Head(todo[r])])
      PROVE  Awaited(r)'
  <2>1. CASE docs = <<>>
    BY <1>2, <1>4, <2>1, EndAwaits DEF Answer
  <2>2. CASE docs # <<>>
    BY <1>2, <1>3, <1>4, <2>2, PageAwaits
  <2> QED BY <2>1, <2>2
<1>5. CASE SyncOpenLibrary(r)
  BY <1>4, <1>5 DEF SyncOpenLibrary, OpenLibraryDocs, Searching
<1>6. CASE SyncGutenberg(r)
  BY <1>4, <1>6 DEF SyncGutenberg, GutenbergDocs, Searching
<1>7. CASE SyncOpenAlex(r)
  <2>1. PICK docs \in OpenAlexDocs(r), cursor \in {TRUE, at[r] + BatchSize < Len(listing["openalex"])} :
          Answer(r, docs, Len(docs) = BatchSize /\ cursor)
    BY <1>7 DEF SyncOpenAlex
  <2>2. Head(todo[r]) = "openalex"
    BY <1>7 DEF SyncOpenAlex, Searching
  <2>3. docs = <<>> \/ docs = Titled(Raw(r))
    BY DEF OpenAlexDocs
  <2>4. at[r] \in Nat /\ BatchSize \in Nat /\ Len(listing["openalex"]) \in Nat
    <3>1. "openalex" \in Source
      BY <1>2, <2>2, RawIs
    <3> QED BY <3>1, SyncAssumption DEF SyncInv, TypeOK
  <2>5. cursor \/ at[r] + BatchSize >= Len(listing["openalex"])
    <3>1. CASE cursor = (at[r] + BatchSize < Len(listing["openalex"]))
      <4>1. at[r] + BatchSize < Len(listing["openalex"]) \/ at[r] + BatchSize >= Len(listing["openalex"])
        BY <2>4
      <4> QED BY <3>1, <4>1
    <3> QED BY <3>1
  <2>6. Len(docs) = BatchSize => (Len(docs) = BatchSize /\ cursor) \/ at[r] + BatchSize >= Len(listing["openalex"])
    BY <2>5
  <2> QED BY <1>4, <2>1, <2>2, <2>3, <2>6
<1>8. CASE SyncArxiv(r)
  BY <1>4, <1>8 DEF SyncArxiv, ArxivDocs, Searching
<1>9. CASE SyncCrossref(r)
  BY <1>4, <1>9 DEF SyncCrossref, CrossrefDocs, Searching
<1> QED BY <1>1, <1>5, <1>6, <1>7, <1>8, <1>9

\* A book that is done is in the catalogue, or an error is counted.
LEMMA BookAwaits ==
  ASSUME SyncInv, NEW r \in Caller, Awaited(r), pc[r] \in {"book", "insert"}, page[r] # <<>>, KeysGrow,
         NEW failed \in BOOLEAN, Counted(r, failed), \A b : ~failed /\ b = Current(r) => Catalogued(b)'
  PROVE  Awaited(r)'
<1>1. PICK s : s = Head(todo[r])
  OBVIOUS
<1>2. /\ pc'[r] = "book" /\ page'[r] = Tail(page[r]) /\ errors'[r] = (errors[r] \/ failed)
      /\ todo' = todo /\ at' = at /\ more' = more /\ clean' = clean /\ expected' = expected /\ listing' = listing
  BY DEF Counted, external, SyncInv, TypeOK
<1>3. ASSUME NEW e \in expected[r], ~errors'[r], clean[r] PROVE Awaits(r, s, e)'
  <2>1. ~failed /\ Awaits(r, s, e)
    BY <1>1, <1>2, <1>3 DEF Awaited
  <2>2. CASE Catalogued(Book(s, e))
    BY <2>2, CataloguedStays DEF Awaits
  <2>3. CASE OnPage(r, e)
    <3>1. PICK i \in 1..Len(page[r]) : page[r][i] = e
      BY <2>3 DEF OnPage
    <3>2. page[r] \in Seq(Entry)
      BY DEF SyncInv, TypeOK
    <3>3. CASE i = 1
      <4>1. e = Head(page[r])
        BY <3>1, <3>2, <3>3
      <4>2. Catalogued(Book(s, e))'
        <5>1. PICK b : b = Current(r)
          OBVIOUS
        <5>2. b = Book(s, e)
          BY <1>1, <4>1, <5>1 DEF Current
        <5>3. Catalogued(b)'
          BY <2>1, <5>1
        <5> QED BY <5>2, <5>3
      <4> QED BY <4>2 DEF Awaits
    <3>4. CASE i # 1
      <4>1. i - 1 \in 1..Len(Tail(page[r])) /\ Tail(page[r])[i - 1] = e
        BY <3>1, <3>2, <3>4
      <4>2. OnPage(r, e)'
        BY <1>2, <4>1 DEF OnPage
      <4> QED BY <1>2, <4>2 DEF Awaits
    <3> QED BY <3>3, <3>4
  <2>4. CASE more[r] /\ Listed(s, e, at[r] + BatchSize)
    BY <1>2, <2>4 DEF Awaits, Listed
  <2> QED BY <2>1, <2>2, <2>3, <2>4 DEF Awaits
<1> QED BY <1>1, <1>2, <1>3 DEF Awaited

LEMMA StepAwaits ==
  ASSUME SyncInv, NEW r \in Caller, Awaited(r), Step(r)
  PROVE  Awaited(r)'
<1>0. KeysGrow /\ listing' = listing /\ pc[r] # "idle"
  BY StepMovesOn
<1>1. CASE Search(r)
  BY <1>1, SearchAwaits
<1>2. CASE SearchFails(r)
  BY <1>0, <1>2, EndAwaits DEF SearchFails
<1>3. CASE BookFails(r)
  BY <1>0, <1>3, BookAwaits DEF BookFails, Handles
<1>4. CASE Update(r)
  <2>1. PICK d \in Matches(Current(r)) :
          /\ pc[r] = "book" /\ page[r] # <<>> /\ Counted(r, Refused(Current(r), catalog \ {d}))
          /\ ~Refused(Current(r), catalog \ {d}) => Document(Current(r), d.copy) \in catalog'
    BY <1>4 DEF Update, Handles
  <2>2. Refused(Current(r), catalog \ {d}) \in BOOLEAN
    BY DEF Refused
  <2>3. ASSUME NEW b, ~Refused(Current(r), catalog \ {d}), b = Current(r) PROVE Catalogued(b)'
    BY <2>1, <2>3 DEF Catalogued, Matches, Document
  <2> QED BY <1>0, <2>1, <2>2, <2>3, BookAwaits
<1>5. CASE Miss(r)
  <2>1. /\ pc[r] = "book" /\ pc'[r] = "insert" /\ catalog' = catalog
        /\ UNCHANGED <<todo, at, page, more, errors, expected, clean>>
    BY <1>5 DEF Miss, Handles, source, SyncInv, TypeOK
  <2>2. ASSUME NEW s, NEW e, Awaits(r, s, e) PROVE Awaits(r, s, e)'
    BY <1>0, <2>1, <2>2 DEF Awaits, Listed, OnPage, Catalogued, Matches
  <2> QED BY <1>0, <2>1, <2>2 DEF Awaited
<1>6. CASE Insert(r)
  <2> DEFINE failed == Refused(Current(r), catalog)
  <2>1. pc[r] = "insert" /\ Counted(r, failed)
    BY <1>6 DEF Insert
  <2>2. failed \in BOOLEAN
    BY DEF Refused
  <2>3. page[r] # <<>>
    BY <2>1 DEF SyncInv, Pending
  <2>4. ASSUME NEW b, b = Current(r), ~failed PROVE Catalogued(b)'
    <3>1. Document(b, Cardinality(Matches(b)) + 1) \in catalog'
      BY <1>6, <2>4 DEF Insert
    <3> QED BY <3>1 DEF Catalogued, Matches, Document
  <2> HIDE DEF failed
  <2> QED BY <1>0, <2>1, <2>2, <2>3, <2>4, BookAwaits
<1>7. CASE NextPage(r)
  <2>1. CASE ~more[r]
    BY <1>0, <1>7, <2>1, EndAwaits DEF NextPage
  <2>2. CASE more[r]
    <3>1. /\ pc[r] = "book" /\ page[r] = <<>> /\ pc'[r] = "search" /\ at'[r] = at[r] + BatchSize
          /\ UNCHANGED <<todo, page, more, errors, expected, clean, catalog>>
      BY <1>7, <2>2 DEF NextPage, SyncInv, TypeOK
    <3>2. 1..Len(page[r]) = {}
      BY <3>1
    <3>3. ASSUME NEW s, NEW e, Awaits(r, s, e) PROVE Awaits(r, s, e)'
      BY <1>0, <3>1, <3>2, <3>3 DEF Awaits, Listed, OnPage, Catalogued, Matches
    <3> QED BY <1>0, <3>1, <3>3 DEF Awaited
  <2> QED BY <2>1, <2>2
<1> QED BY <1>1, <1>2, <1>3, <1>4, <1>5, <1>6, <1>7 DEF Step

\* New entries move the listed ones on, never back.
LEMMA PublishAwaits ==
  ASSUME SyncInv, News["gutenberg"] = {}, NEW s \in Source, NEW e \in News[s], Publish(s, e),
         NEW r \in Caller, Awaited(r)
  PROVE  Awaited(r)'
<1>1. /\ UNCHANGED <<catalog, pc, todo, at, page, more, errors, expected, clean>>
      /\ s # "gutenberg"
  BY DEF Publish, source
<1>2. PICK t : t = Head(todo[r])
  OBVIOUS
<1>3. listing' = [listing EXCEPT ![s] = IF s = "openalex" THEN Append(listing[s], e) ELSE <<e>> \o listing[s]]
  BY DEF Publish
<1>4. ASSUME pc[r] # "idle", NEW x, NEW n \in Nat, Listed(t, x, n) PROVE Listed(t, x, n)'
  <2>1. t \in Source
    BY <1>2, <1>4, RawIs
  <2>2. CASE t # s
    <3>1. listing'[t] = listing[t]
      BY <1>3, <2>1, <2>2 DEF SyncInv, TypeOK
    <3> QED BY <1>4, <3>1 DEF Listed
  <2>3. CASE t = s
    <3>1. listing[s] \in Seq(Entry) /\ e \in Entry
      BY SyncAssumption DEF SyncInv, TypeOK
    <3>2. listing'[s] = IF s = "openalex" THEN Append(listing[s], e) ELSE <<e>> \o listing[s]
      BY <1>3 DEF SyncInv, TypeOK
    <3>3. PICK j \in 1..Len(listing[s]) : j > n /\ listing[s][j] = x
      BY <1>4, <2>3 DEF Listed
    <3>4. CASE s = "openalex"
      <4>1. j \in 1..Len(listing'[s]) /\ listing'[s][j] = x
        BY <3>1, <3>2, <3>3, <3>4
      <4> QED BY <1>1, <2>3, <3>3, <4>1 DEF Listed
    <3>5. CASE s # "openalex"
      <4>1. j + 1 \in 1..Len(listing'[s]) /\ listing'[s][j + 1] = x /\ j + 1 > n
        BY <3>1, <3>2, <3>3, <3>5
      <4> QED BY <1>1, <2>3, <4>1 DEF Listed
    <3> QED BY <3>4, <3>5
  <2> QED BY <2>2, <2>3
<1>5. at[r] \in Nat /\ at[r] + BatchSize \in Nat
  BY SyncAssumption DEF SyncInv, TypeOK
<1>6. ASSUME pc[r] # "idle", NEW x, Awaits(r, t, x) PROVE Awaits(r, t, x)'
  BY <1>1, <1>4, <1>5, <1>6 DEF Awaits, OnPage, Catalogued, Matches
<1> QED BY <1>1, <1>2, <1>6 DEF Awaited

LEMMA SkipStep ==
  ASSUME News["gutenberg"] = {}, SkipInv, [Next]_vars
  PROVE  SkipInv'
<1>1. SyncInv'
  BY SyncStep DEF SkipInv
<1>2. ASSUME NEW r \in Caller, Step(r) PROVE \A q \in Caller : Awaited(q)'
  BY <1>2, StepMovesOn, StepAwaits, OthersAwait DEF SkipInv
<1>3. ASSUME NEW r \in Caller, Crash(r) PROVE \A q \in Caller : Awaited(q)'
  <2> DEFINE queue == <<>>
  <2>1. queue \in Seq(Source) /\ Run(r, queue)
    BY <1>3 DEF Crash
  <2>2. listing' = listing /\ KeysGrow
    BY <1>3 DEF Crash, external, KeysGrow
  <2> HIDE DEF queue
  <2> QED BY <1>3, <2>1, <2>2, CrashForgets, RunAwaits, OthersAwait DEF SkipInv
<1>4. ASSUME NEW r \in Caller, NEW f, Begin(r, f) PROVE \A q \in Caller : Awaited(q)'
  <2> DEFINE queue == Select(Sources, {s \in Source : f \in {None, s}} \cap configured)
  <2>1. queue \in Seq(Source) /\ Run(r, queue)
    BY <1>4, SourcesTyped, SelectType DEF Begin
  <2>2. listing' = listing /\ KeysGrow
    BY <1>4 DEF Begin, external, KeysGrow
  <2> HIDE DEF queue
  <2> QED BY <1>4, <2>1, <2>2, BeginAsks, RunAwaits, OthersAwait DEF SkipInv
<1>5. ASSUME NEW s \in Source, NEW e \in News[s], Publish(s, e) PROVE \A q \in Caller : Awaited(q)'
  BY <1>5, PublishAwaits DEF SkipInv
<1>6. ASSUME UNCHANGED vars PROVE \A q \in Caller : Awaited(q)'
  BY <1>6 DEF vars, external, source, SkipInv, Awaited, Awaits, Listed, OnPage, Catalogued, Matches
<1> QED BY <1>1, <1>2, <1>3, <1>4, <1>5, <1>6 DEF Next, SkipInv

\* A source is reported when it ends: nothing that was expected is missing then.
LEMMA EndsComplete ==
  ASSUME SkipInv, NEW r \in Caller, Step(r), NEW s, Ends(r, s), ~errors[r], clean[r],
         pc[r] = "search" => Raw(r) = <<>>, NEW e \in expected[r]
  PROVE  Catalogued(Book(s, e))'
<1>0. KeysGrow /\ pc[r] # "idle" /\ s = Head(todo[r])
  BY StepMovesOn DEF SkipInv, Ends
<1>1. Awaits(r, s, e)
  BY <1>0 DEF SkipInv, Awaited
<1>2. CASE pc[r] = "search"
  <2>1. ASSUME Listed(s, e, at[r]) PROVE FALSE
    <3>1. PICK j \in 1..Len(listing[s]) : j > at[r]
      BY <2>1 DEF Listed
    <3>2. Len(Raw(r)) = 0 /\ 1..Len(Raw(r)) = {}
      BY <1>2
    <3>3. 0 # BatchSize
      BY SyncAssumption
    <3> QED BY <1>0, <3>1, <3>2, <3>3, RawIs DEF SkipInv
  <2> QED BY <1>0, <1>1, <1>2, <2>1, CataloguedStays DEF Awaits
<1>3. CASE pc[r] # "search"
  <2>1. reports'[r] # reports[r]
    BY DEF Ends
  <2>2. NextPage(r) /\ ~more[r] /\ page[r] = <<>>
    BY <1>3, <2>1 DEF Step, Search, SyncOpenLibrary, SyncGutenberg, SyncOpenAlex, SyncArxiv, SyncCrossref,
                      Searching, SearchFails, BookFails, Update, Miss, Insert, NextPage, Counted
  <2>3. ~OnPage(r, e)
    BY <2>2 DEF OnPage
  <2> QED BY <1>0, <1>1, <1>3, <2>2, <2>3, CataloguedStays DEF Awaits
<1> QED BY <1>2, <1>3

\* A source that is reported without an error has in the catalogue every sound
\* book that it listed when its turn came, for pages of any size and whatever is
\* published while they are read, except in gutenberg, of which only the first
\* page is read: what is published there may push a book off it.
THEOREM NothingIsSkipped == ASSUME News["gutenberg"] = {} PROVE Spec => NothingSkipped
<1> DEFINE Complete ==
      \A r \in Caller, s \in Source :
        Ends(r, s) /\ ~errors[r] /\ clean[r] /\ (pc[r] = "search" => Raw(r) = <<>>)
        => \A e \in expected[r] : Catalogued(Book(s, e))'
<1>1. Init => SkipInv
  <2>1. Init => \A r \in Caller : Awaited(r)
    BY DEF Init, Awaited
  <2> QED BY <2>1, SyncInit DEF SkipInv
<1>2. SkipInv /\ [Next]_vars => SkipInv'
  BY SkipStep
<1>3. SkipInv /\ [Next]_vars => [Complete]_vars
  <2> SUFFICES ASSUME SkipInv, Next, NEW r \in Caller, NEW s \in Source,
                      Ends(r, s), ~errors[r], clean[r], pc[r] = "search" => Raw(r) = <<>>, NEW e \in expected[r]
               PROVE  Catalogued(Book(s, e))'
    OBVIOUS
  <2>1. pc[r] # "idle" /\ s \in reports'[r] /\ s \notin reports[r]
    BY DEF Ends
  <2>2. CASE Step(r)
    BY <2>2, EndsComplete
  <2>3. ~Step(r) => reports'[r] \subseteq reports[r]
    <3> SUFFICES ASSUME ~Step(r) PROVE reports'[r] \subseteq reports[r]
      OBVIOUS
    <3>1. ASSUME NEW q \in Caller, q # r, Step(q) \/ Crash(q) \/ \E f \in Asks[q] : Begin(q, f)
          PROVE  reports'[r] = reports[r]
      <4>1. SameBut(q)
        BY <3>1, StepMovesOn, CrashForgets, BeginAsks DEF SkipInv
      <4> QED BY <3>1, <4>1 DEF SameBut
    <3>2. ~\E f \in Asks[r] : Begin(r, f)
      BY <2>1 DEF Begin
    <3>3. CASE Crash(r)
      BY <3>3 DEF Crash, SkipInv, SyncInv, TypeOK
    <3>4. ASSUME NEW t \in Source, NEW x \in News[t], Publish(t, x) PROVE reports' = reports
      BY <3>4 DEF Publish
    <3> QED BY <3>1, <3>2, <3>3, <3>4 DEF Next
  <2> QED BY <2>1, <2>2, <2>3
<1> QED BY <1>1, <1>2, <1>3, PTL DEF Spec, NothingSkipped
=============================================================================
