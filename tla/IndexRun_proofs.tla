--------------------------- MODULE IndexRun_proofs ---------------------------
(***************************************************************************)
(* Runs that never meet keep the four stores in agreement, for any number   *)
(* of books, runners, contents and crashes: what is marked as indexed can   *)
(* be found, no content is inserted twice, and no label lies.  Whether or   *)
(* not runs meet, the catalogue refers only to artefacts that exist.  Then  *)
(* the lock that is to keep them apart, and the schedulers, whose runs it   *)
(* does keep apart.                                                         *)
(***************************************************************************)
EXTENDS ScheduledIndexing, FiniteSetTheorems, TLAPS

LEMMA InitInv == Init => IInv
<1> SUFFICES ASSUME Init PROVE IInv
  OBVIOUS
<1>1. 1 \in Content /\ 0 \notin Content
  BY IndexAssumption DEF Content
<1>2. rows \in [Book -> [Content -> [Content -> Nat]]]
  BY DEF Init
<1>3. TypeOK
  <2>1. /\ upstream \in [Book -> Content]
        /\ artifact \in [Book -> Content \cup {0}] /\ checksum \in [Book -> Content \cup {0}]
        /\ counted \in [Book -> BOOLEAN] /\ indexed \in [Book -> BOOLEAN]
    BY <1>1 DEF Init
  <2>2. /\ pc \in [Runner -> {"idle", "next"} \cup Working]
        /\ book \in [Runner -> Book \cup {NoBook}]
        /\ seen \in [Runner -> Content \cup {0}] /\ content \in [Runner -> Content \cup {0}]
        /\ text \in [Runner -> Content \cup {0}]
    BY DEF Init
  <2>3. batch \in [Runner -> SUBSET Book] /\ failures \in SUBSET Book
    <3>1. {} \in SUBSET Book
      OBVIOUS
    <3> QED BY <3>1 DEF Init
  <2>4. crashes \in 0..MaxCrashes
    BY IndexAssumption DEF Init
  <2>5. met \in BOOLEAN
    BY DEF Init
  <2> QED BY <1>2, <2>1, <2>2, <2>3, <2>4, <2>5 DEF TypeOK
<1>4. ReferencedExists /\ OneRun /\ StoresAgree /\ RowsAgree
  BY IndexAssumption DEF Init, ReferencedExists, OneRun, StoresAgree, RowsAgree, Content
<1>5. \A r \in Runner : Holding(r) /\ RunAgrees(r)
  BY DEF Init, Holding, RunAgrees, Working
<1> QED BY <1>3, <1>4, <1>5 DEF IInv, Agreement

-----------------------------------------------------------------------------
(* Types.                                                                   *)

\* One more row, and nothing else.
LEMMA InsertTyped ==
  ASSUME TypeOK, NEW b \in Book, NEW l \in Content, NEW t,
         rows' = [rows EXCEPT ![b][l][t] = @ + 1]
  PROVE  rows' \in [Book -> [Content -> [Content -> Nat]]]
<1>1. CASE t \in Content
  BY <1>1 DEF TypeOK
<1>2. CASE t \notin Content
  <2> DEFINE f == rows[b][l]
  <2>1. f \in [Content -> Nat]
    BY DEF TypeOK
  <2>2. [f EXCEPT ![t] = f[t] + 1] \in [Content -> Nat]
    BY <1>2, <2>1
  <2>3. rows' = [rows EXCEPT ![b] = [rows[b] EXCEPT ![l] = [f EXCEPT ![t] = f[t] + 1]]]
    OBVIOUS
  <2> HIDE DEF f
  <2> QED BY <2>2, <2>3 DEF TypeOK
<1> QED BY <1>1, <1>2

LEMMA InsertCounts ==
  ASSUME TypeOK, NEW b \in Book, NEW l \in Content, NEW t \in Content,
         rows' = [rows EXCEPT ![b][l][t] = @ + 1]
  PROVE  \A c \in Book, k, u \in Content :
           rows'[c][k][u] = IF c = b /\ k = l /\ u = t THEN rows[c][k][u] + 1 ELSE rows[c][k][u]
BY DEF TypeOK

\* Rows of one label of one book are taken away.
LEMMA PurgeTyped ==
  ASSUME TypeOK, NEW b, NEW l,
         rows' = [rows EXCEPT ![b][l] = [t \in Content |-> 0]]
  PROVE  rows' \in [Book -> [Content -> [Content -> Nat]]]
BY DEF TypeOK

LEMMA TypeStep == IInv /\ [Next]_vars => TypeOK'
<1> SUFFICES ASSUME IInv, [Next]_vars PROVE TypeOK'
  OBVIOUS
<1>0. TypeOK
  BY DEF IInv
<1>1. ASSUME NEW r \in Runner, Begin(r) PROVE TypeOK'
  BY <1>0, <1>1 DEF Begin, TypeOK, stores, catalogue, local, Fetched, Pending
<1>2. ASSUME NEW r \in Runner, NextBook(r) PROVE TypeOK'
  BY <1>0, <1>2 DEF NextBook, TypeOK, stores, catalogue, Working
<1>3. ASSUME NEW r \in Runner, EndRun(r) PROVE TypeOK'
  BY <1>0, <1>3 DEF EndRun, TypeOK, stores, catalogue, local
<1>4. ASSUME NEW r \in Runner, OnBook(r) PROVE TypeOK'
  <2>1. book[r] \in Book
    BY <1>4 DEF IInv, Holding, OnBook, Download, StoreArtifact, UpdateArtifactRef, Decide, FetchArtifact, CheckFingerprint,
                LookupObsolete, DeleteObsolete, InsertEmbeddings, UpdateEmbeddingCount, Go, Working
  <2>2. pc[r] \in {"store", "reference", "insert"} => content[r] \in Content
    BY DEF IInv, Holding, Working
  <2>3. CASE Download(r)
    BY <1>0, <2>1, <2>3 DEF Download, Go, TypeOK, catalogue, Working
  <2>4. CASE StoreArtifact(r)
    BY <1>0, <2>1, <2>2, <2>4 DEF StoreArtifact, Go, TypeOK, catalogue, local, Working
  <2>5. CASE UpdateArtifactRef(r)
    BY <1>0, <2>1, <2>2, <2>5 DEF UpdateArtifactRef, Go, TypeOK, local, Working
  <2>6. CASE Decide(r)
    BY <1>0, <2>1, <2>6 DEF Decide, Go, TypeOK, catalogue, local, Working
  <2>7. CASE FetchArtifact(r)
    BY <1>0, <2>1, <2>7 DEF FetchArtifact, Go, TypeOK, catalogue, Working
  <2>8. CASE CheckFingerprint(r)
    BY <1>0, <2>1, <2>8 DEF CheckFingerprint, Go, TypeOK, catalogue, local, Working
  <2>9. CASE LookupObsolete(r)
    BY <1>0, <2>1, <2>9 DEF LookupObsolete, Go, TypeOK, catalogue, Working
  <2>10. CASE DeleteObsolete(r)
    <3>1. rows' \in [Book -> [Content -> [Content -> Nat]]]
      BY <1>0, <2>10, PurgeTyped DEF DeleteObsolete
    <3> QED BY <1>0, <2>1, <2>10, <3>1 DEF DeleteObsolete, Go, TypeOK, catalogue, local, Working
  <2>11. CASE InsertEmbeddings(r)
    <3>1. content[r] \in Content
      BY <2>2, <2>11 DEF InsertEmbeddings, Go
    <3>2. rows' \in [Book -> [Content -> [Content -> Nat]]]
      BY <1>0, <2>1, <2>11, <3>1, InsertTyped DEF InsertEmbeddings
    <3> QED BY <1>0, <2>1, <2>11, <3>2 DEF InsertEmbeddings, Go, TypeOK, catalogue, local, Working
  <2>12. CASE UpdateEmbeddingCount(r)
    BY <1>0, <2>1, <2>12 DEF UpdateEmbeddingCount, Go, TypeOK, local, Working
  <2> QED BY <1>4, <2>3, <2>4, <2>5, <2>6, <2>7, <2>8, <2>9, <2>10, <2>11, <2>12 DEF OnBook
<1>5. ASSUME NEW r \in Runner, MarkIndexed(r) PROVE TypeOK'
  BY <1>0, <1>5 DEF MarkIndexed, Leave, TypeOK
<1>6. ASSUME NEW r \in Runner, Fail(r) PROVE TypeOK'
  <2>1. book[r] \in Book
    BY <1>6 DEF IInv, Holding, Fail
  <2> QED BY <1>0, <1>6, <2>1 DEF Fail, Leave, TypeOK, catalogue
<1>7. ASSUME NEW r \in Runner, Crash(r) PROVE TypeOK'
  BY <1>0, <1>7, IndexAssumption DEF Crash, TypeOK, stores, catalogue
<1>8. ASSUME NEW b \in Book, Republish(b) PROVE TypeOK'
  <2>1. upstream[b] + 1 \in Content
    BY <1>0, <1>8, IndexAssumption DEF Republish, TypeOK, Content
  <2>2. upstream' \in [Book -> Content]
    BY <1>0, <1>8, <2>1 DEF Republish, TypeOK
  <2> QED BY <1>0, <1>8, <2>2 DEF Republish, TypeOK, stores, catalogue, local
<1>10. ASSUME NEW b \in Book, Synchronise(b) PROVE TypeOK'
  BY <1>0, <1>10 DEF Synchronise, TypeOK, local
<1>9. CASE UNCHANGED vars
  BY <1>0, <1>9 DEF vars, TypeOK, stores, catalogue, local
<1> QED BY <1>1, <1>2, <1>3, <1>4, <1>5, <1>6, <1>7, <1>8, <1>9, <1>10 DEF Next, Progress

-----------------------------------------------------------------------------
(* What holds of any runs.                                                  *)

\* What a run has in hand is left alone by the steps of the others.
LEMMA HoldingStep == IInv /\ [Next]_vars => ReferencedExists' /\ \A r \in Runner : Holding(r)'
<1> SUFFICES ASSUME IInv, [Next]_vars PROVE ReferencedExists' /\ \A r \in Runner : Holding(r)'
  OBVIOUS
<1> USE DEF IInv
<1>1. ASSUME NEW r \in Runner, Begin(r) \/ EndRun(r) \/ Crash(r) PROVE ReferencedExists' /\ \A q \in Runner : Holding(q)'
  BY <1>1 DEF Begin, EndRun, Crash, TypeOK, stores, catalogue, local, ReferencedExists, Holding, Working
<1>2. ASSUME NEW r \in Runner, NextBook(r) PROVE ReferencedExists' /\ \A q \in Runner : Holding(q)'
  <2>1. book'[r] \in Book /\ \A q \in Runner \ {r} : book'[q] = book[q]
    BY <1>2 DEF NextBook, TypeOK
  <2> QED BY <1>2, <2>1 DEF NextBook, TypeOK, stores, catalogue, ReferencedExists, Holding, Working
<1>3. ASSUME NEW r \in Runner, OnBook(r) PROVE ReferencedExists' /\ \A q \in Runner : Holding(q)'
  <2>1. book[r] \in Book
    BY <1>3 DEF Holding, OnBook, Download, StoreArtifact, UpdateArtifactRef, Decide, FetchArtifact, CheckFingerprint,
                LookupObsolete, DeleteObsolete, InsertEmbeddings, UpdateEmbeddingCount, Go, Working
  <2>2. CASE Download(r)
    <3>1. content'[r] \in Content /\ \A q \in Runner \ {r} : content'[q] = content[q]
      BY <2>1, <2>2 DEF Download, TypeOK
    <3> QED BY <2>1, <2>2, <3>1 DEF Download, Go, TypeOK, catalogue, ReferencedExists, Holding, Working
  <2>3. CASE StoreArtifact(r)
    <3>1. content[r] \in Content /\ content[r] # 0
      BY <2>3 DEF StoreArtifact, Go, Holding, Working, Content
    <3>2. artifact'[book[r]] # 0 /\ \A b \in Book : artifact[b] # 0 => artifact'[b] # 0
      BY <2>1, <2>3, <3>1 DEF StoreArtifact, TypeOK
    <3> QED BY <2>1, <2>3, <3>1, <3>2 DEF StoreArtifact, Go, TypeOK, catalogue, local, ReferencedExists, Holding, Working
  <2>4. CASE UpdateArtifactRef(r)
    BY <2>1, <2>4 DEF UpdateArtifactRef, Go, TypeOK, local, ReferencedExists, Holding, Working
  <2>5. CASE \/ Decide(r) \/ FetchArtifact(r) \/ CheckFingerprint(r) \/ LookupObsolete(r)
             \/ DeleteObsolete(r) \/ InsertEmbeddings(r) \/ UpdateEmbeddingCount(r)
    <3>1. UNCHANGED <<artifact, checksum, content, book>>
      BY <2>5 DEF Decide, FetchArtifact, CheckFingerprint, LookupObsolete, DeleteObsolete,
                  InsertEmbeddings, UpdateEmbeddingCount, Go, catalogue, local
    <3>2. pc'[r] \in {"fetch", "check", "lookup", "purge", "insert", "count", "mark"} /\ \A q \in Runner \ {r} : pc'[q] = pc[q]
      BY <2>5 DEF Decide, FetchArtifact, CheckFingerprint, LookupObsolete, DeleteObsolete,
                  InsertEmbeddings, UpdateEmbeddingCount, Go, TypeOK
    <3>3. content[r] \in Content \/ pc'[r] \in {"count", "mark"}
      BY <2>5 DEF Decide, FetchArtifact, CheckFingerprint, LookupObsolete, DeleteObsolete,
                  InsertEmbeddings, UpdateEmbeddingCount, Go, TypeOK, Holding, Working
    <3> QED BY <2>1, <3>1, <3>2, <3>3 DEF ReferencedExists, Holding
  <2> QED BY <1>3, <2>2, <2>3, <2>4, <2>5 DEF OnBook
<1>4. ASSUME NEW r \in Runner, MarkIndexed(r) \/ Fail(r) PROVE ReferencedExists' /\ \A q \in Runner : Holding(q)'
  <2>1. pc'[r] = "next" /\ UNCHANGED <<artifact, checksum>>
    BY <1>4 DEF MarkIndexed, Fail, Leave, TypeOK, catalogue
  <2>2. \A q \in Runner \ {r} : pc'[q] = pc[q] /\ book'[q] = book[q] /\ content'[q] = content[q]
    BY <1>4 DEF MarkIndexed, Fail, Leave, TypeOK
  <2> QED BY <2>1, <2>2 DEF ReferencedExists, Holding, Working
<1>5. ASSUME NEW b \in Book, Republish(b) \/ Synchronise(b) PROVE ReferencedExists' /\ \A q \in Runner : Holding(q)'
  BY <1>5 DEF Republish, Synchronise, TypeOK, stores, catalogue, local, ReferencedExists, Holding
<1>6. CASE UNCHANGED vars
  BY <1>6 DEF vars, stores, catalogue, local, ReferencedExists, Holding
<1> QED BY <1>1, <1>2, <1>3, <1>4, <1>5, <1>6 DEF Next, Progress

-----------------------------------------------------------------------------
(* Runs that have never met.                                                *)

\* What the invariant says of such a state, as one fact.
LEMMA Alone ==
  ASSUME IInv, ~met, NEW r \in Runner, pc[r] # "idle"
  PROVE  /\ TypeOK /\ Holding(r) /\ StoresAgree /\ RowsAgree /\ RunAgrees(r)
         /\ \A q \in Runner \ {r} : pc[q] = "idle"
BY DEF IInv, Agreement, OneRun

\* While one run moves the others are idle, and nothing is asked of those.
LEMMA OthersIdle ==
  ASSUME TypeOK, NEW r \in Runner, NEW s, pc' = [pc EXCEPT ![r] = s],
         \A q \in Runner \ {r} : pc[q] = "idle"
  PROVE  OneRun' /\ \A q \in Runner \ {r} : RunAgrees(q)'
<1>1. \A q \in Runner \ {r} : pc'[q] = "idle"
  BY DEF TypeOK
<1>2. OneRun'
  BY <1>1 DEF OneRun
<1> QED BY <1>1, <1>2 DEF RunAgrees

\* Steps that leave the stores alone leave their agreement alone.
LEMMA SameStores ==
  ASSUME StoresAgree, RowsAgree, UNCHANGED <<upstream, artifact, checksum, counted, indexed, rows>>
  PROVE  StoresAgree' /\ RowsAgree'
BY DEF StoresAgree, RowsAgree, Searchable, Stored

LEMMA AgreementBegin ==
  ASSUME IInv, NEW r \in Runner, Begin(r), ~met' PROVE Agreement'
<1>1. ~met /\ \A q \in Runner : pc[q] = "idle"
  BY DEF Begin
<1>2. TypeOK /\ StoresAgree /\ RowsAgree
  BY <1>1 DEF IInv, Agreement
<1>3. StoresAgree' /\ RowsAgree'
  BY <1>2, SameStores DEF Begin, stores, catalogue
<1>4. OneRun' /\ \A q \in Runner \ {r} : RunAgrees(q)'
  BY <1>1, <1>2, OthersIdle DEF Begin
<1>5. RunAgrees(r)'
  BY <1>2 DEF Begin, TypeOK, RunAgrees
<1> QED BY <1>3, <1>4, <1>5 DEF Agreement

LEMMA AgreementNextBook ==
  ASSUME IInv, NEW r \in Runner, NextBook(r) \/ EndRun(r) \/ Crash(r), ~met PROVE Agreement'
<1>1. pc[r] # "idle"
  BY DEF NextBook, EndRun, Crash
<1>2. /\ TypeOK /\ StoresAgree /\ RowsAgree
      /\ \A q \in Runner \ {r} : pc[q] = "idle"
  BY <1>1, Alone
<1>3. StoresAgree' /\ RowsAgree'
  BY <1>2, SameStores DEF NextBook, EndRun, Crash, stores, catalogue
<1>4. OneRun' /\ \A q \in Runner \ {r} : RunAgrees(q)'
  BY <1>2, OthersIdle DEF NextBook, EndRun, Crash
<1>5. CASE NextBook(r)
  <2>1. PICK b \in batch[r] : book' = [book EXCEPT ![r] = b] /\ seen' = [seen EXCEPT ![r] = checksum[b]]
    BY <1>5 DEF NextBook
  <2>2. b \in Book /\ pc'[r] = "download" /\ book'[r] = b /\ seen'[r] = checksum[b]
    BY <1>2, <1>5, <2>1 DEF NextBook, TypeOK
  <2>3. checksum[b] <= artifact[b] /\ checksum' = checksum /\ artifact' = artifact
    BY <1>2, <1>5, <2>2 DEF NextBook, stores, catalogue, StoresAgree
  <2>4. RunAgrees(r)'
    BY <2>2, <2>3 DEF RunAgrees
  <2> QED BY <1>3, <1>4, <2>4 DEF Agreement
<1>6. CASE EndRun(r) \/ Crash(r)
  <2>1. RunAgrees(r)'
    BY <1>2, <1>6 DEF EndRun, Crash, TypeOK, RunAgrees
  <2> QED BY <1>3, <1>4, <2>1 DEF Agreement
<1> QED BY <1>5, <1>6

LEMMA AgreementLeave ==
  ASSUME IInv, NEW r \in Runner, MarkIndexed(r) \/ Fail(r), ~met PROVE Agreement'
<1>1. pc[r] # "idle" /\ pc' = [pc EXCEPT ![r] = "next"]
  BY DEF MarkIndexed, Fail, Leave, Working
<1>2. /\ TypeOK /\ Holding(r) /\ StoresAgree /\ RowsAgree /\ RunAgrees(r)
      /\ \A q \in Runner \ {r} : pc[q] = "idle"
  BY <1>1, Alone
<1>3. OneRun' /\ \A q \in Runner \ {r} : RunAgrees(q)'
  BY <1>1, <1>2, OthersIdle
<1>4. RunAgrees(r)'
  BY <1>1, <1>2 DEF TypeOK, RunAgrees
<1>5. CASE Fail(r)
  <2>1. StoresAgree' /\ RowsAgree'
    BY <1>2, <1>5, SameStores DEF Fail, catalogue
  <2> QED BY <1>3, <1>4, <2>1 DEF Agreement
<1>6. CASE MarkIndexed(r)
  <2>1. book[r] \in Book /\ Searchable(book[r])
    BY <1>2, <1>6 DEF MarkIndexed, Holding, Working, RunAgrees
  <2>2. \A b \in Book : indexed'[b] => indexed[b] \/ b = book[r]
    BY <1>2, <1>6, <2>1 DEF MarkIndexed, TypeOK
  <2>3. StoresAgree' /\ RowsAgree'
    BY <1>2, <1>6, <2>1, <2>2 DEF MarkIndexed, StoresAgree, RowsAgree, Searchable, Stored
  <2> QED BY <1>3, <1>4, <2>3 DEF Agreement
<1> QED BY <1>5, <1>6

LEMMA AgreementOutside ==
  ASSUME IInv, NEW b \in Book, Republish(b) \/ Synchronise(b), ~met PROVE Agreement'
<1> USE DEF IInv, Agreement
<1>1. /\ \A c \in Book : /\ upstream[c] \in Nat /\ upstream'[c] \in Nat /\ artifact[c] \in Nat /\ checksum[c] \in Nat
                         /\ upstream[c] <= upstream'[c]
                         /\ checksum'[c] = 0 \/ checksum'[c] = checksum[c]
      /\ \A q \in Runner : content[q] \in Nat
      /\ UNCHANGED <<artifact, counted, indexed, rows, pc, book, seen, content, text>>
  <2>1. TypeOK /\ Content \cup {0} \subseteq Nat
    <3>1. Content \cup {0} \subseteq Nat
      BY IndexAssumption DEF Content
    <3> QED BY <3>1
  <2>2. /\ \A c \in Book : upstream[c] \in Nat /\ artifact[c] \in Nat /\ checksum[c] \in Nat
        /\ \A q \in Runner : content[q] \in Nat
    <3>1. /\ \A c \in Book : upstream[c] \in Content \cup {0} /\ artifact[c] \in Content \cup {0} /\ checksum[c] \in Content \cup {0}
          /\ \A q \in Runner : content[q] \in Content \cup {0}
      BY <2>1 DEF TypeOK
    <3> QED BY <2>1, <3>1
  <2>3. UNCHANGED <<artifact, counted, indexed, rows, pc, book, seen, content, text>>
    BY DEF Republish, Synchronise, stores, catalogue, local
  <2>4. CASE Republish(b)
    <3>1. checksum' = checksum
      BY <2>4 DEF Republish, stores, catalogue
    <3>2. \A c \in Book : upstream'[c] = IF c = b THEN upstream[c] + 1 ELSE upstream[c]
      BY <2>1, <2>4 DEF Republish, TypeOK
    <3> QED BY <2>2, <2>3, <3>1, <3>2
  <2>5. CASE Synchronise(b)
    <3>1. upstream' = upstream
      BY <2>5 DEF Synchronise
    <3>2. \A c \in Book : checksum'[c] = IF c = b THEN 0 ELSE checksum[c]
      BY <2>1, <2>5 DEF Synchronise, TypeOK
    <3> QED BY <2>2, <2>3, <3>1, <3>2
  <2> QED BY <2>4, <2>5
<1>2. StoresAgree'
  <2> SUFFICES ASSUME NEW c \in Book
               PROVE  /\ checksum'[c] <= artifact'[c] /\ artifact'[c] <= upstream'[c]
                      /\ counted'[c] \/ indexed'[c] => Searchable(c)'
    BY DEF StoresAgree
  <2>1. checksum[c] <= artifact[c] /\ artifact[c] <= upstream[c] /\ (counted[c] \/ indexed[c] => Searchable(c))
    BY DEF StoresAgree
  <2>2. checksum'[c] <= artifact'[c] /\ artifact'[c] <= upstream'[c]
    BY <1>1, <2>1
  <2>3. Searchable(c) => Searchable(c)'
    BY <1>1 DEF Searchable, Stored
  <2>4. counted'[c] \/ indexed'[c] => Searchable(c)'
    BY <1>1, <2>1, <2>3
  <2> QED BY <2>2, <2>4
<1>3. OneRun' /\ RowsAgree'
  BY <1>1 DEF OneRun, RowsAgree
<1>4. ASSUME NEW q \in Runner PROVE RunAgrees(q)'
  <2> DEFINE c == book[q]
  <2>1. CASE pc[q] \in Working
    <3>1. c \in Book /\ RunAgrees(q)
      BY <2>1 DEF Holding
    <3>2. (pc[q] = "store" => content[q] <= upstream'[c]) /\ (checksum'[c] = 0 \/ checksum'[c] = checksum[c])
      BY <1>1, <3>1 DEF RunAgrees
    <3>3. (Stored(c, content[q])' <=> Stored(c, content[q])) /\ (Searchable(c) => Searchable(c)')
      BY <1>1 DEF Stored, Searchable
    <3>4. book'[q] = c /\ pc'[q] = pc[q] /\ seen'[q] = seen[q] /\ content'[q] = content[q] /\ text'[q] = text[q] /\ artifact' = artifact
      BY <1>1
    <3> HIDE DEF c
    <3> QED BY <3>1, <3>2, <3>3, <3>4 DEF RunAgrees, c
  <2>2. CASE pc[q] \notin Working
    BY <1>1, <2>2 DEF RunAgrees, Working
  <2> QED BY <2>1, <2>2
<1> QED BY <1>2, <1>3, <1>4

\* Steps on a book.  The facts about the book come first, then the stores, then
\* the run itself.
LEMMA AgreementOnBook ==
  ASSUME IInv, NEW r \in Runner, OnBook(r), ~met PROVE Agreement'
<1> DEFINE b == book[r]
<1>1. pc[r] \in Working
  BY DEF OnBook, Download, StoreArtifact, UpdateArtifactRef, Decide, FetchArtifact, CheckFingerprint,
         LookupObsolete, DeleteObsolete, InsertEmbeddings, UpdateEmbeddingCount, Go, Working
<1>2. /\ TypeOK /\ Holding(r) /\ StoresAgree /\ RowsAgree /\ RunAgrees(r)
      /\ \A q \in Runner \ {r} : pc[q] = "idle"
  BY <1>1, Alone DEF Working
<1>3. b \in Book
  BY <1>1, <1>2 DEF Holding
<1>4. /\ checksum[b] \in Nat /\ artifact[b] \in Nat /\ upstream[b] \in Nat \ {0}
      /\ checksum[b] <= artifact[b] /\ artifact[b] <= upstream[b]
      /\ content[r] \in Nat
  <2>1. Content \cup {0} \subseteq Nat /\ 0 \notin Content
    BY IndexAssumption DEF Content
  <2>2. /\ checksum[b] \in Content \cup {0} /\ artifact[b] \in Content \cup {0} /\ upstream[b] \in Content
        /\ content[r] \in Content \cup {0}
    BY <1>2, <1>3 DEF TypeOK
  <2>3. checksum[b] <= artifact[b] /\ artifact[b] <= upstream[b]
    BY <1>2, <1>3 DEF StoresAgree
  <2>4. checksum[b] \in Nat /\ artifact[b] \in Nat /\ content[r] \in Nat
    BY <2>1, <2>2
  <2>5. upstream[b] \in Content \cup {0} /\ upstream[b] # 0
    BY <2>1, <2>2
  <2> QED BY <2>1, <2>3, <2>4, <2>5
<1>5. OneRun' /\ \A q \in Runner \ {r} : RunAgrees(q)'
  <2>1. \E s : pc' = [pc EXCEPT ![r] = s]
    BY DEF OnBook, Download, StoreArtifact, UpdateArtifactRef, Decide, FetchArtifact, CheckFingerprint,
           LookupObsolete, DeleteObsolete, InsertEmbeddings, UpdateEmbeddingCount, Go
  <2> QED BY <1>2, <2>1, OthersIdle
<1>6. ASSUME StoresAgree', RowsAgree', RunAgrees(r)' PROVE Agreement'
  BY <1>5, <1>6 DEF Agreement
<1>7. ASSUME \/ Download(r) \/ Decide(r) \/ FetchArtifact(r) \/ CheckFingerprint(r) \/ LookupObsolete(r)
      PROVE  StoresAgree' /\ RowsAgree'
  BY <1>2, <1>7, SameStores DEF Download, Decide, FetchArtifact, CheckFingerprint, LookupObsolete, Go, catalogue
<1>8. CASE Download(r)
  <2>1. /\ book'[r] = b /\ content'[r] = upstream[b] /\ UNCHANGED <<upstream, artifact, checksum>>
        /\ seen[r] <= artifact[b] /\ checksum[b] \in {0, seen[r]}
    BY <1>2, <1>8 DEF Download, Go, TypeOK, RunAgrees, catalogue
  <2>2. \/ pc'[r] = "decide" /\ seen[r] = upstream[b]
        \/ pc'[r] = "store"
    BY <1>2, <1>8 DEF Download, Go, TypeOK
  <2>3. RunAgrees(r)'
    BY <1>4, <2>1, <2>2 DEF RunAgrees
  <2> QED BY <1>6, <1>7, <1>8, <2>3
<1>9. CASE StoreArtifact(r)
  <2>1. /\ pc[r] = "store" /\ pc'[r] = "reference"
        /\ UNCHANGED <<upstream, checksum, counted, indexed, rows, book, content>>
        /\ artifact'[b] = content[r] /\ \A c \in Book \ {b} : artifact'[c] = artifact[c]
    BY <1>2, <1>3, <1>9 DEF StoreArtifact, Go, TypeOK, catalogue, local
  <2>2. artifact[b] <= content[r] /\ content[r] <= upstream[b]
    BY <1>2, <2>1 DEF RunAgrees
  <2>3. checksum[b] <= artifact'[b] /\ artifact'[b] <= upstream[b]
    BY <1>4, <2>1, <2>2
  <2>4. StoresAgree' /\ RowsAgree'
    BY <1>2, <2>1, <2>3 DEF StoresAgree, RowsAgree, Searchable, Stored
  <2>5. RunAgrees(r)'
    BY <2>1 DEF RunAgrees
  <2> QED BY <1>6, <2>4, <2>5
<1>10. CASE UpdateArtifactRef(r)
  <2>1. /\ pc[r] = "reference" /\ pc'[r] = "fetch"
        /\ UNCHANGED <<upstream, artifact, counted, indexed, rows, book, content>>
        /\ checksum'[b] = content[r] /\ \A c \in Book \ {b} : checksum'[c] = checksum[c]
    BY <1>2, <1>3, <1>10 DEF UpdateArtifactRef, Go, TypeOK, local
  <2>2. artifact[b] = content[r]
    BY <1>2, <2>1 DEF RunAgrees
  <2>3. StoresAgree' /\ RowsAgree'
    BY <1>2, <1>4, <2>1, <2>2 DEF StoresAgree, RowsAgree, Searchable, Stored
  <2>4. RunAgrees(r)'
    BY <2>1, <2>2 DEF RunAgrees
  <2> QED BY <1>6, <2>3, <2>4
<1>11. CASE Decide(r)
  <2>1. /\ pc[r] = "decide" /\ (pc'[r] = "fetch" \/ (pc'[r] = "mark" /\ counted[b]))
        /\ UNCHANGED <<artifact, checksum, rows, book, content>>
    <3>1. pc[r] = "decide" /\ UNCHANGED <<artifact, checksum, rows, book, content>>
      BY <1>11 DEF Decide, Go, catalogue, local
    <3>2. pc'[r] = IF counted[b] THEN "mark" ELSE "fetch"
      BY <1>2, <1>11 DEF Decide, Go, TypeOK
    <3> QED BY <3>1, <3>2
  <2>2. counted[b] => Searchable(b)'
    BY <1>2, <1>3, <2>1 DEF StoresAgree, Searchable, Stored
  <2>3. artifact[b] = content[r] /\ checksum[b] \in {0, content[r]}
    BY <1>2, <2>1 DEF RunAgrees
  <2>4. RunAgrees(r)'
    BY <2>1, <2>2, <2>3 DEF RunAgrees
  <2> QED BY <1>6, <1>7, <1>11, <2>4
<1>12. CASE FetchArtifact(r)
  <2>1. /\ pc[r] = "fetch" /\ pc'[r] = "check" /\ text'[r] = artifact[b]
        /\ UNCHANGED <<artifact, checksum, book, content>>
    BY <1>2, <1>12 DEF FetchArtifact, Go, TypeOK, catalogue
  <2>2. artifact[b] = content[r] /\ checksum[b] \in {0, content[r]}
    BY <1>2, <2>1 DEF RunAgrees
  <2>3. RunAgrees(r)'
    BY <2>1, <2>2 DEF RunAgrees
  <2> QED BY <1>6, <1>7, <1>12, <2>3
<1>13. CASE CheckFingerprint(r)
  <2>1. /\ pc[r] = "check" /\ ((pc'[r] = "mark" /\ Stored(b, content[r])) \/ (pc'[r] = "lookup" /\ ~Stored(b, content[r])))
        /\ UNCHANGED <<artifact, checksum, rows, book, content, text>>
    <3>1. pc[r] = "check" /\ UNCHANGED <<artifact, checksum, rows, book, content, text>>
      BY <1>13 DEF CheckFingerprint, Go, catalogue, local
    <3>2. pc'[r] = IF Stored(b, content[r]) THEN "mark" ELSE "lookup"
      BY <1>2, <1>13 DEF CheckFingerprint, Go, TypeOK
    <3> QED BY <3>1, <3>2
  <2>2. artifact[b] = content[r] /\ checksum[b] \in {0, content[r]} /\ text[r] = content[r] /\ content[r] \in Content
    BY <1>2, <2>1 DEF RunAgrees, Holding, Working
  <2>3. (Stored(b, content[r]) => Searchable(b)') /\ (~Stored(b, content[r]) => ~Stored(b, content[r])')
    BY <2>1, <2>2 DEF Searchable, Stored
  <2>4. RunAgrees(r)'
    BY <2>1, <2>2, <2>3 DEF RunAgrees
  <2> QED BY <1>6, <1>7, <1>13, <2>4
<1>14. CASE LookupObsolete(r)
  <2>1. /\ pc[r] = "lookup" /\ (checksum[b] \in {0, content[r]} => pc'[r] = "insert")
        /\ UNCHANGED <<artifact, checksum, rows, book, content, text>>
    BY <1>2, <1>14 DEF LookupObsolete, Go, TypeOK, catalogue
  <2>2. /\ artifact[b] = content[r] /\ checksum[b] \in {0, content[r]} /\ text[r] = content[r]
        /\ ~Stored(b, content[r])
    BY <1>2, <2>1 DEF RunAgrees
  <2>3. ~Stored(b, content[r])'
    BY <2>1, <2>2 DEF Stored
  <2>4. RunAgrees(r)'
    BY <2>1, <2>2, <2>3 DEF RunAgrees
  <2> QED BY <1>6, <1>7, <1>14, <2>4
<1>15. ~DeleteObsolete(r)
  BY <1>2 DEF DeleteObsolete, Go, RunAgrees
<1>16. CASE InsertEmbeddings(r)
  <2>1. /\ pc[r] = "insert" /\ pc'[r] = "count" /\ UNCHANGED <<upstream, artifact, checksum, counted, indexed, book, content>>
        /\ rows' = [rows EXCEPT ![b][content[r]][text[r]] = @ + 1]
    BY <1>2, <1>16 DEF InsertEmbeddings, Go, TypeOK, catalogue, local
  <2>2. content[r] \in Content /\ text[r] = content[r] /\ ~Stored(b, content[r])
    BY <1>2, <2>1 DEF RunAgrees, Holding, Working
  <2>3. \A c \in Book, k, u \in Content :
          rows'[c][k][u] = IF c = b /\ k = content[r] /\ u = content[r] THEN rows[c][k][u] + 1 ELSE rows[c][k][u]
    BY <1>2, <1>3, <2>1, <2>2, InsertCounts
  <2>4. \A c \in Book, k, u \in Content : rows[c][k][u] \in Nat
    BY <1>2 DEF TypeOK
  <2>5. rows[b][content[r]][content[r]] = 0
    BY <1>3, <2>2, <2>4 DEF Stored
  <2>6. RowsAgree'
    BY <1>2, <1>3, <2>2, <2>3, <2>4, <2>5 DEF RowsAgree
  <2>7. \A c \in Book : Searchable(c) => Searchable(c)'
    BY <2>3, <2>4 DEF Searchable, Stored
  <2>8. StoresAgree'
    BY <1>2, <2>1, <2>7 DEF StoresAgree
  <2>9. Searchable(b)'
    <3>1. rows'[b][content[r]][content[r]] > 0
      BY <1>3, <2>2, <2>3, <2>5
    <3>2. b' = b
      BY <2>1
    <3> HIDE DEF b
    <3> QED BY <2>2, <3>1, <3>2 DEF Searchable, Stored
  <2>10. RunAgrees(r)'
    BY <2>1, <2>9 DEF RunAgrees
  <2> QED BY <1>6, <2>6, <2>8, <2>10
<1>17. CASE UpdateEmbeddingCount(r)
  <2>1. /\ pc[r] = "count" /\ pc'[r] = "mark" /\ UNCHANGED <<upstream, artifact, checksum, indexed, rows, book>>
        /\ \A c \in Book : counted'[c] => counted[c] \/ c = b
    BY <1>2, <1>3, <1>17 DEF UpdateEmbeddingCount, Go, TypeOK, local
  <2>2. Searchable(b)
    BY <1>2, <2>1 DEF RunAgrees
  <2>3. StoresAgree' /\ RowsAgree'
    BY <1>2, <2>1, <2>2 DEF StoresAgree, RowsAgree, Searchable, Stored
  <2>4. Searchable(b)'
    BY <2>1, <2>2 DEF Searchable, Stored
  <2>5. RunAgrees(r)'
    BY <2>1, <2>4 DEF RunAgrees
  <2> QED BY <1>6, <2>3, <2>5
<1> QED BY <1>8, <1>9, <1>10, <1>11, <1>12, <1>13, <1>14, <1>15, <1>16, <1>17 DEF OnBook

-----------------------------------------------------------------------------
\* The invariant is inductive.
LEMMA NextInv == IInv /\ [Next]_vars => IInv'
<1> SUFFICES ASSUME IInv, [Next]_vars PROVE IInv'
  OBVIOUS
<1>1. TypeOK' /\ ReferencedExists' /\ \A r \in Runner : Holding(r)'
  BY TypeStep, HoldingStep
<1>2. ASSUME ~met' PROVE Agreement'
  <2>1. CASE UNCHANGED vars
    BY <1>2, <2>1 DEF vars, stores, catalogue, local, IInv, Agreement, OneRun, StoresAgree, RowsAgree, RunAgrees, Searchable, Stored
  <2>2. ASSUME NEW r \in Runner, Begin(r) PROVE Agreement'
    BY <1>2, <2>2, AgreementBegin
  <2>3. ASSUME NEW r \in Runner, Progress(r) \/ Crash(r) PROVE Agreement'
    <3>1. ~met
      BY <1>2, <2>3 DEF Progress, Crash, NextBook, EndRun, OnBook, MarkIndexed, Fail, Download, StoreArtifact,
                        UpdateArtifactRef, Decide, FetchArtifact, CheckFingerprint, LookupObsolete,
                        DeleteObsolete, InsertEmbeddings, UpdateEmbeddingCount, Go
    <3> QED BY <2>3, <3>1, AgreementNextBook, AgreementOnBook, AgreementLeave DEF Progress
  <2>4. ASSUME NEW b \in Book, Republish(b) \/ Synchronise(b) PROVE Agreement'
    <3>1. ~met
      BY <1>2, <2>4 DEF Republish, Synchronise
    <3> QED BY <2>4, <3>1, AgreementOutside
  <2> QED BY <2>1, <2>2, <2>3, <2>4 DEF Next
<1> QED BY <1>1, <1>2 DEF IInv

\* The stores agree in every reachable state, for any number of books, runners,
\* contents and crashes.
THEOREM InductiveInvariant == Spec => []IInv
BY InitInv, NextInv, PTL DEF Spec

\* A book is marked only when its embeddings can be found, while no two runs
\* have met.
THEOREM MarkedIsFound == Spec => []IndexedIsSearchable
<1>1. IInv => IndexedIsSearchable
  BY DEF IInv, Agreement, StoresAgree, IndexedIsSearchable
<1> QED BY <1>1, InductiveInvariant, PTL

\* No content is inserted twice, while no two runs have met.
THEOREM NoDuplicates == Spec => []InsertedOnce
<1>1. IInv => InsertedOnce
  BY DEF IInv, Agreement, RowsAgree, InsertedOnce
<1> QED BY <1>1, InductiveInvariant, PTL

\* Embeddings bear the checksum of their own text, while no two runs have met.
THEOREM TruthfulLabels == Spec => []LabelsTruthful
<1>1. IInv => LabelsTruthful
  BY DEF IInv, Agreement, RowsAgree, LabelsTruthful
<1> QED BY <1>1, InductiveInvariant, PTL

\* The catalogue refers to existing artefacts only, whatever runs do.
THEOREM ReferencesExist == Spec => []ReferencedExists
<1>1. IInv => ReferencedExists
  BY DEF IInv
<1> QED BY <1>1, InductiveInvariant, PTL

-----------------------------------------------------------------------------
(* Runs end: what a run has left to do shrinks with each of its steps.      *)

InHands == \A r \in Runner : InHand(r)

\* What the steps of a run do to what it has in hand.
LEMMA StepShapes ==
  ASSUME TypeOK, NEW r \in Runner, Progress(r) \/ Crash(r)
  PROVE  /\ \A q \in Runner \ {r} : pc'[q] = pc[q] /\ batch'[q] = batch[q] /\ book'[q] = book[q]
         /\ \/ /\ pc[r] = "next" /\ pc'[r] = "download"
               /\ batch'[r] = batch[r] /\ book'[r] \in batch[r]
            \/ /\ pc[r] = "next" /\ pc'[r] = "idle"
               /\ batch'[r] = batch[r] /\ batch[r] = {}
            \/ /\ pc[r] \in Working /\ pc'[r] \in Working /\ StepsLeft(pc'[r]) < StepsLeft(pc[r])
               /\ batch'[r] = batch[r] /\ book'[r] = book[r]
            \/ /\ pc[r] \in Working /\ pc'[r] = "next"
               /\ batch'[r] = batch[r] \ {book[r]}
            \/ /\ ~Progress(r) /\ pc'[r] = "idle" /\ batch'[r] = {}
<1>1. CASE NextBook(r)
  BY <1>1 DEF NextBook, TypeOK
<1>2. CASE EndRun(r)
  BY <1>2 DEF EndRun, TypeOK
<1>3. CASE OnBook(r)
  <2>1. \E from, to \in Working : Go(r, from, to) /\ StepsLeft(to) < StepsLeft(from)
    BY <1>3 DEF OnBook, Working, Download, StoreArtifact, UpdateArtifactRef, Decide, FetchArtifact,
                CheckFingerprint, LookupObsolete, DeleteObsolete, InsertEmbeddings, UpdateEmbeddingCount, StepsLeft
  <2> QED BY <2>1 DEF Go, TypeOK
<1>4. CASE MarkIndexed(r) \/ Fail(r)
  BY <1>4 DEF MarkIndexed, Fail, Leave, Working, TypeOK
<1>5. CASE Crash(r) /\ ~Progress(r)
  BY <1>5 DEF Crash, TypeOK
<1> QED BY <1>1, <1>2, <1>3, <1>4, <1>5 DEF Progress

LEMMA InitHands == Init => InHands
BY DEF Init, InHands, InHand, Working

LEMMA NextHands == IInv /\ InHands /\ [Next]_vars => InHands'
<1> SUFFICES ASSUME IInv, InHands, [Next]_vars PROVE InHands'
  OBVIOUS
<1>1. TypeOK
  BY DEF IInv
<1>2. ASSUME NEW r \in Runner, Begin(r) PROVE InHands'
  BY <1>1, <1>2 DEF Begin, TypeOK, InHands, InHand, Working
<1>3. ASSUME NEW r \in Runner, Progress(r) \/ Crash(r) PROVE InHands'
  <2>1. \A q \in Runner \ {r} : InHand(q)'
    BY <1>1, <1>3, StepShapes DEF InHands, InHand
  <2>2. InHand(r)'
    BY <1>1, <1>3, StepShapes DEF InHands, InHand, Working
  <2> QED BY <2>1, <2>2 DEF InHands
<1>4. ASSUME NEW b \in Book, Republish(b) \/ Synchronise(b) PROVE InHands'
  BY <1>4 DEF Republish, Synchronise, InHands, InHand
<1>5. CASE UNCHANGED vars
  BY <1>5 DEF vars, InHands, InHand
<1> QED BY <1>2, <1>3, <1>4, <1>5 DEF Next

LEMMA LeftIs ==
  ASSUME NEW B \in SUBSET Book, NEW s \in {"idle", "next"} \cup Working
  PROVE  IsFiniteSet(B) /\ Cardinality(B) \in Nat /\ StepsLeft(s) \in 0..11
<1>1. IsFiniteSet(B)
  BY IndexAssumption, FS_Subset
<1>2. Cardinality(B) \in Nat
  BY <1>1, FS_CardinalityType
<1> QED BY <1>1, <1>2 DEF Working, StepsLeft

\* A run begins with a bounded number of steps before it, each of which, failing
\* or not, leaves it fewer; only beginning anew gives it more.  So it ends if it
\* goes on, whatever its books, the other runs and the synchronisations do.
THEOREM RunsGetShorter == Spec => RunsShrink /\ [](\A r \in Runner : Left(r) \in Nat)
<1> DEFINE Shrink == \A r \in Runner :
                       /\ Progress(r) => Left(r)' < Left(r)
                       /\ ~Begin(r) => Left(r)' <= Left(r)
<1>1. IInv /\ InHands /\ [Next]_vars /\ IInv' => [Shrink]_vars
  <2> SUFFICES ASSUME IInv, InHands, Next, IInv', NEW r \in Runner
               PROVE  /\ Progress(r) => Left(r)' < Left(r)
                      /\ ~Begin(r) => Left(r)' <= Left(r)
    OBVIOUS
  <2>1. TypeOK /\ TypeOK'
    BY DEF IInv
  <2>2. /\ IsFiniteSet(batch[r]) /\ Cardinality(batch[r]) \in Nat /\ StepsLeft(pc[r]) \in 0..11
        /\ Cardinality(batch'[r]) \in Nat /\ StepsLeft(pc'[r]) \in 0..11
    <3>1. /\ batch[r] \in SUBSET Book /\ pc[r] \in {"idle", "next"} \cup Working
          /\ batch'[r] \in SUBSET Book /\ pc'[r] \in {"idle", "next"} \cup Working
      BY <2>1 DEF TypeOK
    <3> QED BY <3>1, LeftIs
  <2>3. ASSUME batch'[r] = batch[r], pc'[r] = pc[r] PROVE Left(r)' <= Left(r)
    BY <2>2, <2>3 DEF Left
  <2>4. ASSUME Progress(r) PROVE Left(r)' < Left(r)
    <3>1. CASE batch'[r] = batch[r] /\ StepsLeft(pc'[r]) < StepsLeft(pc[r])
      BY <2>2, <3>1 DEF Left
    <3>2. CASE pc[r] \in Working /\ pc'[r] = "next" /\ batch'[r] = batch[r] \ {book[r]}
      <4>1. Cardinality(batch'[r]) = Cardinality(batch[r]) - 1
        BY <2>2, <3>2, FS_RemoveElement DEF InHands, InHand
      <4>2. StepsLeft(pc[r]) > 0 /\ StepsLeft(pc'[r]) = 11
        BY <3>2 DEF Working, StepsLeft
      <4> DEFINE c == Cardinality(batch[r])
      <4>3. Left(r) = 12 * c + StepsLeft(pc[r]) /\ Left(r)' = 12 * (c - 1) + 11
        BY <4>1, <4>2 DEF Left
      <4> QED BY <2>2, <4>2, <4>3
    <3>3. pc[r] = "next" => StepsLeft(pc'[r]) < StepsLeft(pc[r]) \/ pc'[r] \notin {"idle", "download"}
      BY DEF StepsLeft
    <3> QED BY <2>1, <2>4, <3>1, <3>2, <3>3, StepShapes
  <2>5. ASSUME ~Begin(r), ~Progress(r) PROVE Left(r)' <= Left(r)
    <3>1. CASE Crash(r)
      <4>1. pc'[r] = "idle" /\ batch'[r] = {}
        BY <2>1, <3>1 DEF Crash, TypeOK
      <4>2. Left(r)' = 0
        BY <4>1, FS_EmptySet DEF Left, StepsLeft
      <4>3. Left(r) >= 0
        BY <2>2 DEF Left
      <4> QED BY <4>2, <4>3
    <3>2. ASSUME NEW q \in Runner \ {r}, Begin(q) PROVE batch'[r] = batch[r] /\ pc'[r] = pc[r]
      BY <2>1, <3>2 DEF Begin, TypeOK
    <3>3. ASSUME NEW q \in Runner \ {r}, Progress(q) \/ Crash(q) PROVE batch'[r] = batch[r] /\ pc'[r] = pc[r]
      BY <2>1, <3>3, StepShapes
    <3>4. ASSUME NEW b \in Book, Republish(b) \/ Synchronise(b) PROVE batch'[r] = batch[r] /\ pc'[r] = pc[r]
      BY <3>4 DEF Republish, Synchronise
    <3>5. Crash(r) \/ (batch'[r] = batch[r] /\ pc'[r] = pc[r])
      <4>1. CASE \E q \in Runner : Begin(q) \/ Progress(q) \/ Crash(q)
        <5>1. PICK q \in Runner : Begin(q) \/ Progress(q) \/ Crash(q)
          BY <4>1
        <5>2. CASE q = r
          BY <2>5, <5>1, <5>2
        <5>3. CASE q # r
          BY <3>2, <3>3, <5>1, <5>3
        <5> QED BY <5>2, <5>3
      <4>2. CASE \E b \in Book : Republish(b) \/ Synchronise(b)
        BY <3>4, <4>2
      <4> QED BY <4>1, <4>2 DEF Next
    <3> QED BY <2>3, <3>1, <3>5
  <2>6. Left(r) \in Nat /\ Left(r)' \in Nat
    BY <2>2 DEF Left
  <2> QED BY <2>4, <2>5, <2>6
<1>2. IInv => \A r \in Runner : Left(r) \in Nat
  <2> SUFFICES ASSUME IInv, NEW r \in Runner PROVE Left(r) \in Nat
    OBVIOUS
  <2>1. batch[r] \in SUBSET Book /\ pc[r] \in {"idle", "next"} \cup Working
    BY DEF IInv, TypeOK
  <2> QED BY <2>1, LeftIs DEF Left
<1>3. Spec => []InHands
  BY InitHands, NextHands, InductiveInvariant, PTL DEF Spec
<1> QED BY <1>1, <1>2, <1>3, InductiveInvariant, PTL DEF Spec, RunsShrink

-----------------------------------------------------------------------------
(* The lock of the indexer's schedulers: it excludes pipelines that have not *)
(* lost their key, for any number of replicas and attempts.                 *)

\* A new value differs from no value, and is its replica's.
LEMMA NewValue ==
  ASSUME LockTypeOK, NEW r \in Replica, attempts[r] < MaxAttempts
  PROVE  New(r) \in Value /\ New(r) # None /\ New(r)[1] = r
BY LockAssumption DEF LockTypeOK, New, Value

LEMMA InitLock == LockInit => LockIInv
BY LockAssumption DEF LockInit, LockIInv, LockTypeOK, OwnerRuns, ValuesOwned

\* While a replica runs, or is about to delete the key, the key is its own, or
\* it has lost it.
LEMMA NextLock == LockIInv /\ [LockNext]_lockVars => LockIInv'
<1> SUFFICES ASSUME LockIInv, [LockNext]_lockVars PROVE LockIInv'
  OBVIOUS
<1> USE DEF LockIInv
<1>0. /\ value \in [Replica -> Value \cup {None}] /\ None \notin Value
      /\ \A r \in Replica : loop[r] \in {"pipeline", "release", "delete"} => value[r] \in Value
      /\ \A q, r \in Replica : value[r] # None /\ value[q] = value[r] => q = r
  <2>1. value \in [Replica -> Value \cup {None}] /\ None \notin Value
    BY LockAssumption DEF LockTypeOK
  <2> QED BY <2>1 DEF ValuesOwned
<1>1. ASSUME NEW r \in Replica, Acquire(r) PROVE LockIInv'
  <2>1. New(r) \in Value /\ New(r) # None /\ New(r)[1] = r
    BY <1>1, NewValue DEF Acquire, Attempt
  <2>2. LockTypeOK'
    BY <1>1, <2>1, LockAssumption DEF Acquire, Attempt, LockTypeOK
  <2>3. \A q \in Replica \ {r} : loop[q] \in {"pipeline", "delete"} => value[q] \in lost
    BY <1>0, <1>1 DEF Acquire, OwnerRuns
  <2>4. OwnerRuns' /\ ValuesOwned'
    BY <1>1, <2>1, <2>3 DEF Acquire, Attempt, LockTypeOK, OwnerRuns, ValuesOwned
  <2> QED BY <2>2, <2>4
<1>2. ASSUME NEW r \in Replica, AcquireFails(r) PROVE LockIInv'
  <2>1. New(r) \in Value /\ New(r) # None /\ New(r)[1] = r
    BY <1>2, NewValue DEF AcquireFails, Attempt
  <2>2. LockTypeOK'
    BY <1>2, <2>1, LockAssumption DEF AcquireFails, Attempt, LockTypeOK
  <2>3. lock' = lock \/ \A q \in Replica : loop[q] \in {"pipeline", "delete"} => value[q] \in lost
    BY <1>0, <1>2 DEF AcquireFails, OwnerRuns
  <2>4. OwnerRuns' /\ ValuesOwned'
    BY <1>2, <2>1, <2>3 DEF AcquireFails, Attempt, LockTypeOK, OwnerRuns, ValuesOwned
  <2> QED BY <2>2, <2>4
<1>3. ASSUME NEW r \in Replica, PipelineEnds(r) PROVE LockIInv'
  BY <1>3 DEF PipelineEnds, LockTypeOK, OwnerRuns, ValuesOwned
<1>4. ASSUME NEW r \in Replica, ReadOwn(r) PROVE LockIInv'
  BY <1>4 DEF ReadOwn, LockTypeOK, OwnerRuns, ValuesOwned
<1>5. ASSUME NEW r \in Replica, ReadOther(r) PROVE LockIInv'
  BY <1>5 DEF ReadOther, Released, LockTypeOK, OwnerRuns, ValuesOwned
<1>6. ASSUME NEW r \in Replica, DeleteKey(r)
      PROVE  /\ lock' \in Value \cup {None} /\ lost' \in SUBSET Value /\ lost \subseteq lost'
             /\ \A q \in Replica \ {r} : loop[q] \in {"pipeline", "delete"} => lock' = value[q] \/ value[q] \in lost'
  <2>1. CASE UNCHANGED <<lock, lost>>
    BY <2>1 DEF LockTypeOK, OwnerRuns
  <2>2. CASE lock' = None /\ lost' = lost \cup {value[q] : q \in {p \in Replica \ {r} : Uses(p, lock)}}
    <3>1. {value[q] : q \in {p \in Replica \ {r} : Uses(p, lock)}} \subseteq Value
      BY <1>0 DEF Uses
    <3>2. \A q \in Replica \ {r} : loop[q] \in {"pipeline", "delete"} => Uses(q, lock) \/ value[q] \in lost
      BY DEF Uses, OwnerRuns
    <3> QED BY <2>2, <3>1, <3>2 DEF LockTypeOK
  <2> QED BY <1>6, <2>1, <2>2 DEF DeleteKey
<1>7. ASSUME NEW r \in Replica, Delete(r) PROVE LockIInv'
  <2>1. /\ DeleteKey(r)
        /\ loop' = [loop EXCEPT ![r] = IF stopping[r] THEN "off" ELSE "sleep"]
        /\ value' = [value EXCEPT ![r] = None] /\ UNCHANGED <<attempts, stopping>>
    BY <1>7 DEF Delete, Released
  <2>2. LockTypeOK'
    BY <1>6, <2>1 DEF LockTypeOK
  <2> QED BY <1>6, <2>1, <2>2 DEF LockTypeOK, OwnerRuns, ValuesOwned
<1>8. ASSUME NEW r \in Replica, Stop(r) PROVE LockIInv'
  BY <1>8 DEF Stop, LockTypeOK, OwnerRuns, ValuesOwned
<1>9. ASSUME NEW r \in Replica, StopInRelease(r) PROVE LockIInv'
  <2>1. /\ DeleteKey(r) \/ UNCHANGED <<lock, lost>>
        /\ loop' = [loop EXCEPT ![r] = "off"] /\ value' = [value EXCEPT ![r] = None]
        /\ stopping' = [stopping EXCEPT ![r] = TRUE] /\ UNCHANGED attempts
    BY <1>9 DEF StopInRelease
  <2>2. DeleteKey(r)
    BY <2>1 DEF DeleteKey
  <2>3. LockTypeOK'
    BY <1>6, <2>1, <2>2 DEF LockTypeOK
  <2> QED BY <1>6, <2>1, <2>2, <2>3 DEF LockTypeOK, OwnerRuns, ValuesOwned
<1>10. ASSUME NEW r \in Replica, Die(r) PROVE LockIInv'
  BY <1>10 DEF Die, LockTypeOK, OwnerRuns, ValuesOwned
<1>11. ASSUME NEW r \in Replica, Restart(r) PROVE LockIInv'
  BY <1>11 DEF Restart, LockTypeOK, OwnerRuns, ValuesOwned
<1>12. CASE Expire \/ Overrun
  <2>1. /\ lock' = None /\ UNCHANGED <<loop, value, attempts, stopping>> /\ lost \subseteq lost'
        /\ \A r \in Replica : Uses(r, lock) => lock \in lost'
    BY <1>12 DEF Expire, Overrun
  <2>2. LockTypeOK'
    <3>1. lost' \in SUBSET Value
      BY <1>0, <1>12 DEF Expire, Overrun, Uses, LockTypeOK
    <3> QED BY <2>1, <3>1 DEF LockTypeOK
  <2>3. OwnerRuns'
    BY <2>1 DEF Uses, OwnerRuns
  <2> QED BY <2>1, <2>2, <2>3 DEF ValuesOwned
<1>13. CASE UNCHANGED lockVars
  BY <1>13 DEF lockVars, LockTypeOK, OwnerRuns, ValuesOwned
<1> QED
  BY <1>1, <1>2, <1>3, <1>4, <1>5, <1>7, <1>8, <1>9, <1>10, <1>11, <1>12, <1>13 DEF LockNext, Release

\* The key ties down one replica: of two pipelines one has lost its key.
LEMMA OneOwner ==
  ASSUME LockIInv, NEW q \in Replica, NEW r \in Replica, q # r, loop[q] = "pipeline", loop[r] = "pipeline"
  PROVE  {value[q], value[r]} \cap lost # {}
BY DEF LockIInv, OwnerRuns, ValuesOwned

\* Pipelines meet only when one of them has lost its key, whatever crashes,
\* restarts or is answered by Redis.
THEOREM ExclusionHolds == LockSpec => []Exclusion
<1>1. LockIInv => Exclusion
  BY OneOwner DEF Exclusion
<1> QED BY InitLock, NextLock, <1>1, PTL DEF LockSpec

-----------------------------------------------------------------------------
(* The schedulers: their steps are steps of the lock and of runs, and under *)
(* the lock runs do not meet.                                               *)

\* A step of a run within a pipeline, by itself.
LEMMA WorkIs ==
  ASSUME NEW r, Progress(r)
  PROVE  /\ pc[r] # "idle" /\ met' = met
         /\ \E s : pc' = [pc EXCEPT ![r] = s]
<1>1. CASE NextBook(r)
  BY <1>1 DEF NextBook
<1>2. CASE EndRun(r)
  BY <1>2 DEF EndRun
<1>3. CASE OnBook(r)
  <2>1. \E from, to : from \in Working /\ Go(r, from, to)
    BY <1>3 DEF OnBook, Working, Download, StoreArtifact, UpdateArtifactRef, Decide, FetchArtifact,
                CheckFingerprint, LookupObsolete, DeleteObsolete, InsertEmbeddings, UpdateEmbeddingCount
  <2> QED BY <2>1 DEF Go, Working
<1>4. CASE MarkIndexed(r)
  BY <1>4 DEF MarkIndexed, Leave
<1>5. CASE Fail(r)
  BY <1>5 DEF Fail, Leave, Working
<1> QED BY <1>1, <1>2, <1>3, <1>4, <1>5 DEF Progress

\* Every step is one of the lock, or leaves it alone.
LEMMA LockSteps == [ScheduledNext]_scheduledVars => [LockNext]_lockVars
<1> SUFFICES ASSUME [ScheduledNext]_scheduledVars PROVE [LockNext]_lockVars
  OBVIOUS
<1> USE DEF LockNext, Release
<1>1. ASSUME NEW r \in Replica, StartPipeline(r) PROVE LockNext
  BY <1>1 DEF StartPipeline
<1>2. ASSUME NEW r \in Replica, EndPipeline(r) PROVE LockNext
  BY <1>2 DEF EndPipeline
<1>3. ASSUME NEW r \in Replica, StopScheduler(r) PROVE LockNext
  BY <1>3 DEF StopScheduler
<1>4. ASSUME NEW r \in Replica, GiveBack(r) \/ LockOnly(r) PROVE LockNext
  BY <1>4 DEF GiveBack, LockOnly
<1>5. ASSUME NEW r \in Replica, StartRun(r) \/ Work(r) \/ (\E b \in Book : Upsert(r, b)) PROVE UNCHANGED lockVars
  BY <1>5 DEF StartRun, Work, Upsert
<1>6. ASSUME NEW b \in Book, Publish(b) PROVE UNCHANGED lockVars
  BY <1>6 DEF Publish
<1>7. CASE KeyExpires \/ KeyOverrun
  BY <1>7 DEF KeyExpires, KeyOverrun
<1>8. CASE UNCHANGED scheduledVars
  BY <1>8 DEF scheduledVars
<1> QED BY <1>1, <1>2, <1>3, <1>4, <1>5, <1>6, <1>7, <1>8 DEF ScheduledNext

\* Every step is one of a run or of what is around the runs, or leaves them alone.
LEMMA RunSteps == ASSUME OnlySchedulers PROVE [ScheduledNext]_scheduledVars => [Next]_vars
<1> SUFFICES ASSUME [ScheduledNext]_scheduledVars PROVE [Next]_vars
  OBVIOUS
<1> USE DEF Next, OnlySchedulers
<1>1. ASSUME NEW r \in Replica, StartPipeline(r) \/ EndPipeline(r) \/ GiveBack(r) \/ LockOnly(r) PROVE UNCHANGED vars
  BY <1>1 DEF StartPipeline, EndPipeline, GiveBack, LockOnly
<1>2. ASSUME NEW r \in Replica, StartRun(r) \/ Work(r) PROVE Next
  BY <1>2 DEF StartRun, Work
<1>3. ASSUME NEW r \in Replica, StopScheduler(r) PROVE [Next]_vars
  BY <1>3 DEF StopScheduler
<1>4. ASSUME NEW r \in Replica, NEW b \in Book, Upsert(r, b) PROVE Next
  BY <1>4 DEF Upsert
<1>5. ASSUME NEW b \in Book, Publish(b) PROVE Next
  BY <1>5 DEF Publish
<1>6. CASE KeyExpires \/ KeyOverrun
  BY <1>6 DEF KeyExpires, KeyOverrun
<1>7. CASE UNCHANGED scheduledVars
  BY <1>7 DEF scheduledVars
<1> QED BY <1>1, <1>2, <1>3, <1>4, <1>5, <1>6, <1>7 DEF ScheduledNext

LEMMA ScheduledInitInv == ASSUME OnlySchedulers PROVE ScheduledInit => ScheduledIInv
<1> SUFFICES ASSUME ScheduledInit PROVE ScheduledIInv
  OBVIOUS
<1>1. IInv /\ LockIInv
  BY InitInv, InitLock DEF ScheduledInit
<1>2. /\ synced \in [Replica -> BOOLEAN]
      /\ \A r \in Replica : pc[r] = "idle"
      /\ ~met
  BY DEF ScheduledInit, Init, OnlySchedulers
<1> QED BY <1>1, <1>2 DEF ScheduledIInv, Within

\* What has been lost stays on record.
LEMMA LostGrows == [LockNext]_lockVars => lost \subseteq lost'
BY DEF LockNext, Release, Acquire, AcquireFails, Attempt, PipelineEnds, ReadOwn, ReadOther, Delete, DeleteKey,
       Stop, StopInRelease, Die, Restart, Expire, Overrun, lockVars

\* A run is within its pipeline, and the lock is the pipeline's: so a run that
\* begins is alone, unless a pipeline has lost its key.
LEMMA ScheduledNextInv ==
  ASSUME OnlySchedulers PROVE ScheduledIInv /\ [ScheduledNext]_scheduledVars => ScheduledIInv'
<1> SUFFICES ASSUME ScheduledIInv, [ScheduledNext]_scheduledVars PROVE ScheduledIInv'
  OBVIOUS
<1>1. IInv' /\ LockIInv'
  BY RunSteps, LockSteps, NextInv, NextLock DEF ScheduledIInv
<1>2. /\ pc \in [Replica -> {"idle", "next"} \cup Working]
      /\ loop \in [Replica -> {"sleep", "pipeline", "release", "delete", "off"}]
      /\ synced \in [Replica -> BOOLEAN]
      /\ \A r \in Replica : Within(r)
  BY DEF ScheduledIInv, IInv, TypeOK, LockIInv, LockTypeOK, OnlySchedulers
<1>3. lost = {} => \A q, r \in Replica : loop[q] = "pipeline" /\ loop[r] = "pipeline" => q = r
  BY OneOwner DEF ScheduledIInv
<1> DEFINE Rest == /\ synced' \in [Replica -> BOOLEAN]
                   /\ met' => lost' # {}
                   /\ \A r \in Replica : Within(r)'
<1>4. (met => lost # {}) /\ (lost' = {} => lost = {})
  BY LockSteps, LostGrows DEF ScheduledIInv
<1>5. ASSUME NEW r \in Replica, StartPipeline(r) PROVE Rest
  <2>1. pc[r] = "idle"
    BY <1>2, <1>5 DEF StartPipeline, Acquire, Attempt, Within
  <2> QED BY <1>2, <1>4, <1>5, <2>1 DEF StartPipeline, Acquire, vars, Within
<1>6. ASSUME NEW r \in Replica, StartRun(r) PROVE Rest
  <2>1. lost = {} => \A q \in Replica : pc[q] = "idle"
    BY <1>2, <1>3, <1>6 DEF StartRun, Synchronising, Within
  <2>2. met' => lost' # {}
    BY <1>4, <1>6, <2>1 DEF StartRun, Begin, OnlySchedulers
  <2> QED BY <1>2, <1>6, <2>2 DEF StartRun, Synchronising, Begin, lockVars, Within, OnlySchedulers
<1>7. ASSUME NEW r \in Replica, Work(r) PROVE Rest
  <2>1. Progress(r) /\ UNCHANGED <<lockVars, synced>>
    BY <1>7 DEF Work
  <2> QED BY <1>2, <1>4, <2>1, WorkIs DEF lockVars, Within
<1>8. ASSUME NEW r \in Replica, EndPipeline(r) PROVE Rest
  BY <1>2, <1>4, <1>8 DEF EndPipeline, PipelineEnds, vars, Within
<1>9. ASSUME NEW r \in Replica, StopScheduler(r) PROVE Rest
  <2>1. pc'[r] = "idle" /\ (\A q \in Replica \ {r} : pc'[q] = pc[q]) /\ met' = met
    BY <1>2, <1>9 DEF StopScheduler, Crash, vars
  <2>2. \A q \in Replica \ {r} : loop'[q] = loop[q]
    BY <1>2, <1>9 DEF StopScheduler, Stop, Die
  <2> QED BY <1>2, <1>4, <1>9, <2>1, <2>2 DEF StopScheduler, Within
<1>10. ASSUME NEW r \in Replica, GiveBack(r) \/ LockOnly(r) PROVE Rest
  <2>1. UNCHANGED <<pc, met, synced>>
    BY <1>10 DEF GiveBack, LockOnly, vars
  <2>2. \A q \in Replica : loop[q] = "pipeline" => loop'[q] = "pipeline"
    BY <1>2, <1>10 DEF GiveBack, LockOnly, ReadOwn, ReadOther, Delete, Released, AcquireFails, StopInRelease, Restart
  <2> QED BY <1>2, <1>4, <2>1, <2>2 DEF Within
<1>11. ASSUME NEW r \in Replica, NEW b \in Book, Upsert(r, b) PROVE Rest
  BY <1>2, <1>4, <1>11 DEF Upsert, Synchronise, lockVars, Within
<1>12. ASSUME NEW b \in Book, Publish(b) PROVE Rest
  BY <1>2, <1>4, <1>12 DEF Publish, Republish, lockVars, Within
<1>13. ASSUME KeyExpires \/ KeyOverrun PROVE Rest
  <2>1. UNCHANGED <<pc, met, loop, synced>>
    BY <1>13 DEF KeyExpires, KeyOverrun, Expire, Overrun, vars
  <2> QED BY <1>2, <1>4, <2>1 DEF Within
<1>14. ASSUME UNCHANGED scheduledVars PROVE Rest
  <2>1. UNCHANGED <<pc, met, loop, synced>>
    BY <1>14 DEF scheduledVars, vars, lockVars
  <2> QED BY <1>2, <1>4, <2>1 DEF Within
<1>15. Rest
  <2> HIDE DEF Rest
  <2> QED
    BY <1>5, <1>6, <1>7, <1>8, <1>9, <1>10, <1>11, <1>12, <1>13, <1>14 DEF ScheduledNext
<1> QED BY <1>1, <1>15 DEF ScheduledIInv

\* The invariant of the schedulers is inductive.
THEOREM ScheduledInvariant == ASSUME OnlySchedulers PROVE ScheduledSpec => []ScheduledIInv
<1>1. ScheduledIInv /\ [ScheduledNext]_scheduledVars => ScheduledIInv'
  BY ScheduledNextInv
<1>2. ScheduledInit => ScheduledIInv
  BY ScheduledInitInv
<1> QED BY <1>1, <1>2, PTL DEF ScheduledSpec

\* Two replicas are at work together, and runs meet, only when a pipeline has lost
\* its key, and nobody deletes another's key before it lost its own.
THEOREM PipelinesStayApart == ASSUME OnlySchedulers PROVE ScheduledSpec => []PipelinesApart
<1>1. ScheduledIInv => PipelinesApart
  <2> SUFFICES ASSUME ScheduledIInv PROVE PipelinesApart
    OBVIOUS
  <2>1. \A r \in Replica : Busy(r) => loop[r] = "pipeline"
    BY DEF ScheduledIInv, Within, Busy
  <2>2. DeletesOwn
    BY DEF ScheduledIInv, LockIInv, OwnerRuns, DeletesOwn
  <2> QED BY <2>1, <2>2, OneOwner DEF ScheduledIInv, PipelinesApart
<1> QED BY <1>1, ScheduledInvariant, PTL

\* So the stores are as they should be, not as long as runs have not met, but as
\* long as no pipeline has overrun the TTL of its key.
THEOREM StoresStayTrue == ASSUME OnlySchedulers PROVE ScheduledSpec => []StoresTrue
<1>1. ScheduledIInv => StoresTrue
  BY DEF ScheduledIInv, IInv, Agreement, StoresAgree, RowsAgree, StoresTrue
<1> QED BY <1>1, ScheduledInvariant, PTL

\* And no synchronisation takes away a checksum that a run relies on.
THEOREM ChecksumsStay == ASSUME OnlySchedulers PROVE ScheduledSpec => ChecksumsKept
<1> DEFINE Kept == \A r \in Replica, b \in Book :
                     lost = {} /\ pc[r] # "idle" /\ checksum'[b] # checksum[b]
                     => UpdateArtifactRef(r) /\ book[r] = b
<1>1. ScheduledIInv /\ [ScheduledNext]_scheduledVars => [Kept]_scheduledVars
  <2> SUFFICES ASSUME ScheduledIInv, ScheduledNext, NEW r \in Replica, NEW b \in Book,
                      lost = {}, pc[r] # "idle", checksum'[b] # checksum[b]
               PROVE  UpdateArtifactRef(r) /\ book[r] = b
    OBVIOUS
  <2>1. /\ checksum \in [Book -> Content \cup {0}]
        /\ \A q \in Replica : pc[q] # "idle" => loop[q] = "pipeline" /\ synced[q]
    BY DEF ScheduledIInv, IInv, TypeOK, Within
  <2>2. \A q \in Replica : loop[q] = "pipeline" /\ loop[r] = "pipeline" => q = r
    BY OneOwner DEF ScheduledIInv
  <2>3. /\ checksum \in [Book -> Content \cup {0}]
        /\ synced[r]
        /\ \A q \in Replica : loop[q] = "pipeline" => q = r
        /\ \A q \in Replica : pc[q] # "idle" => q = r
    BY <2>1, <2>2
  <2>4. ASSUME NEW q \in Replica, Work(q) PROVE UpdateArtifactRef(r) /\ book[r] = b
    <3>1. q = r
      BY <2>3, <2>4, WorkIs DEF Work
    <3>2. UpdateArtifactRef(q)
      BY <2>4 DEF Work, Progress, NextBook, EndRun, OnBook, MarkIndexed, Fail, Go, Download, StoreArtifact, Decide,
                  FetchArtifact, CheckFingerprint, LookupObsolete, DeleteObsolete, InsertEmbeddings,
                  UpdateEmbeddingCount, stores, catalogue
    <3>3. book[q] = b
      BY <2>3, <3>2 DEF UpdateArtifactRef
    <3> QED BY <3>1, <3>2, <3>3
  <2>5. ASSUME NEW q \in Replica, NEW c \in Book, Upsert(q, c) PROVE FALSE
    BY <2>3, <2>5 DEF Upsert, Synchronising
  <2>6. ASSUME NEW q \in Replica,
               StartPipeline(q) \/ StartRun(q) \/ EndPipeline(q) \/ StopScheduler(q) \/ GiveBack(q) \/ LockOnly(q)
        PROVE  FALSE
    BY <2>6 DEF StartPipeline, StartRun, Begin, EndPipeline, StopScheduler, Crash, GiveBack, LockOnly, vars, stores, catalogue
  <2>7. ASSUME NEW c \in Book, Publish(c) PROVE FALSE
    BY <2>7 DEF Publish, Republish, stores, catalogue
  <2>8. CASE KeyExpires \/ KeyOverrun
    BY <2>8 DEF KeyExpires, KeyOverrun, vars, stores, catalogue
  <2> QED BY <2>4, <2>5, <2>6, <2>7, <2>8 DEF ScheduledNext
<1> QED BY <1>1, ScheduledInvariant, PTL DEF ScheduledSpec, ChecksumsKept
=============================================================================
