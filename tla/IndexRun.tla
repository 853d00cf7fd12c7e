------------------------------ MODULE IndexRun ------------------------------
(***************************************************************************)
(* The public indexer's runs over the catalogue: for each pending book the  *)
(* artefact is downloaded and stored, its text cut, embedded and inserted,  *)
(* and the book marked.  Four stores are written one after the other, with  *)
(* an await or another service in between, by every run there is: those of  *)
(* the scheduler, which takes a lock, and those of the admin endpoint,      *)
(* which does not.  Contents are numbered in the order of their             *)
(* publication; a number stands for its checksum too.                       *)
(***************************************************************************)
EXTENDS Integers, FiniteSets

CONSTANTS
  Book,          \* catalogue entries; their order is MongoDB's natural order
  NoBook,
  Unavailable,   \* books that cannot be downloaded (no URL, 404 for ever)
  Runner,        \* whoever starts runs, one at a time each
  Limit,         \* books fetched per run (100 in the code)
  MaxContent,    \* bound on the contents a source publishes for a book
  MaxCrashes     \* bound on runs that end in the middle

ASSUME IndexAssumption ==
  /\ Book \subseteq Nat /\ IsFiniteSet(Book)
  /\ NoBook \notin Book
  /\ Unavailable \subseteq Book
  /\ Limit \in Nat \ {0}
  /\ MaxContent \in Nat \ {0}
  /\ MaxCrashes \in Nat

VARIABLES
  upstream,   \* what the source of each book publishes
  artifact,   \* the object in MinIO, whose key does not depend on the content
  checksum,   \* checksum field of the catalogue entry; 0 is None
  counted,    \* whether its embedding_count is positive
  indexed,    \* its indexed flag
  rows,       \* embeddings: how often a text was inserted, per book and label
  failures,   \* books in the failure tracker
  pc,         \* where each run stands
  batch,      \* books it has fetched and not finished
  book,       \* the book it works on
  seen,       \* checksum it last read from that book's entry
  content,    \* content it downloaded; the label of what it inserts
  text,       \* content it read back from MinIO
  crashes,
  met         \* history: whether two runs have ever been under way at once

catalogue == <<checksum, counted, indexed>>
stores    == <<artifact, catalogue, rows, failures>>
local     == <<seen, content, text>>
vars      == <<upstream, stores, pc, batch, book, local, crashes, met>>

Content == 1..MaxContent
Working == {"download", "store", "reference", "decide", "fetch", "check",
            "lookup", "purge", "insert", "count", "mark"}

TypeOK ==
  /\ upstream \in [Book -> Content]
  /\ artifact \in [Book -> Content \cup {0}]
  /\ checksum \in [Book -> Content \cup {0}]
  /\ counted \in [Book -> BOOLEAN]
  /\ indexed \in [Book -> BOOLEAN]
  /\ rows \in [Book -> [Content -> [Content -> Nat]]]
  /\ failures \in SUBSET Book
  /\ pc \in [Runner -> {"idle", "next"} \cup Working]
  /\ batch \in [Runner -> SUBSET Book]
  /\ book \in [Runner -> Book \cup {NoBook}]
  /\ seen \in [Runner -> Content \cup {0}]
  /\ content \in [Runner -> Content \cup {0}]
  /\ text \in [Runner -> Content \cup {0}]
  /\ crashes \in 0..MaxCrashes
  /\ met \in BOOLEAN

\* The catalogue has been synchronised and nothing was indexed yet.
Init ==
  /\ upstream = [b \in Book |-> 1]
  /\ artifact = [b \in Book |-> 0]
  /\ checksum = [b \in Book |-> 0]
  /\ counted = [b \in Book |-> FALSE]
  /\ indexed = [b \in Book |-> FALSE]
  /\ rows = [b \in Book |-> [l \in Content |-> [t \in Content |-> 0]]]
  /\ failures = {}
  /\ pc = [r \in Runner |-> "idle"]
  /\ batch = [r \in Runner |-> {}]
  /\ book = [r \in Runner |-> NoBook]
  /\ seen = [r \in Runner |-> 0]
  /\ content = [r \in Runner |-> 0]
  /\ text = [r \in Runner |-> 0]
  /\ crashes = 0
  /\ met = FALSE

Stored(b, l) == \E t \in Content : rows[b][l][t] > 0

-----------------------------------------------------------------------------
(* A run.                                                                   *)

Pending == {b \in Book : ~indexed[b]}

\* get_pending_books, without a filter.
Fetched == {b \in Pending : Cardinality({c \in Pending : c < b}) < Limit}

\* Nothing in execute keeps another run out.
Begin(r) ==
  /\ pc[r] = "idle"
  /\ pc' = [pc EXCEPT ![r] = "next"]
  /\ batch' = [batch EXCEPT ![r] = Fetched]
  /\ met' = (met \/ \E q \in Runner : pc[q] # "idle")
  /\ UNCHANGED <<upstream, stores, book, local, crashes>>

\* The entry is read before the download.
NextBook(r) ==
  /\ pc[r] = "next"
  /\ \E b \in batch[r] :
       /\ book' = [book EXCEPT ![r] = b]
       /\ seen' = [seen EXCEPT ![r] = checksum[b]]
  /\ pc' = [pc EXCEPT ![r] = "download"]
  /\ UNCHANGED <<upstream, stores, batch, content, text, crashes, met>>

EndRun(r) ==
  /\ pc[r] = "next" /\ batch[r] = {}
  /\ pc' = [pc EXCEPT ![r] = "idle"]
  /\ UNCHANGED <<upstream, stores, batch, book, local, crashes, met>>

\* A step of a run that stays with its book.
Go(r, from, to) ==
  /\ pc[r] = from
  /\ pc' = [pc EXCEPT ![r] = to]
  /\ UNCHANGED <<upstream, failures, batch, book, crashes, met>>

\* Faulty variant: an artefact that is there is not stored again.
DownloadTrusting(r) ==
  LET b == book[r] IN
  /\ b \notin Unavailable
  /\ Go(r, "download", IF seen[r] # 0 THEN "decide" ELSE "store")
  /\ content' = [content EXCEPT ![r] = upstream[b]]
  /\ UNCHANGED <<artifact, catalogue, rows, seen, text>>

\* An unchanged artefact is not stored again.
Download(r) ==
  LET b == book[r] IN
  /\ b \notin Unavailable
  /\ Go(r, "download", IF seen[r] = upstream[b] THEN "decide" ELSE "store")
  /\ content' = [content EXCEPT ![r] = upstream[b]]
  /\ UNCHANGED <<artifact, catalogue, rows, seen, text>>

StoreArtifact(r) ==
  /\ Go(r, "store", "reference")
  /\ artifact' = [artifact EXCEPT ![book[r]] = content[r]]
  /\ UNCHANGED <<catalogue, rows, local>>

UpdateArtifactRef(r) ==
  /\ Go(r, "reference", "fetch")
  /\ checksum' = [checksum EXCEPT ![book[r]] = content[r]]
  /\ UNCHANGED <<artifact, counted, indexed, rows, local>>

\* Faulty variant: an unchanged artefact needs no embeddings.
DecideSkips(r) ==
  /\ Go(r, "decide", "mark")
  /\ UNCHANGED <<artifact, catalogue, rows, local>>

\* should_embed, for an unchanged artefact.
Decide(r) ==
  /\ Go(r, "decide", IF counted[book[r]] THEN "mark" ELSE "fetch")
  /\ UNCHANGED <<artifact, catalogue, rows, local>>

FetchArtifact(r) ==
  /\ Go(r, "fetch", "check")
  /\ text' = [text EXCEPT ![r] = artifact[book[r]]]
  /\ UNCHANGED <<artifact, catalogue, rows, seen, content>>

\* Faulty variant: nobody looks whether the rows are there.
CheckNothing(r) ==
  /\ Go(r, "check", "lookup")
  /\ UNCHANGED <<artifact, catalogue, rows, local>>

CheckFingerprint(r) ==
  /\ Go(r, "check", IF Stored(book[r], content[r]) THEN "mark" ELSE "lookup")
  /\ UNCHANGED <<artifact, catalogue, rows, local>>

\* The entry is read again; by now it bears the checksum of this run, unless
\* another run or a synchronisation came in between.
LookupObsolete(r) ==
  LET old == checksum[book[r]] IN
  /\ Go(r, "lookup", IF old \notin {0, content[r]} THEN "purge" ELSE "insert")
  /\ seen' = [seen EXCEPT ![r] = old]
  /\ UNCHANGED <<artifact, catalogue, rows, content, text>>

DeleteObsolete(r) ==
  /\ Go(r, "purge", "insert")
  /\ rows' = [rows EXCEPT ![book[r]][seen[r]] = [t \in Content |-> 0]]
  /\ UNCHANGED <<artifact, catalogue, local>>

\* The texts are embedded and the rows inserted in one transaction.
InsertEmbeddings(r) ==
  /\ Go(r, "insert", "count")
  /\ rows' = [rows EXCEPT ![book[r]][content[r]][text[r]] = @ + 1]
  /\ UNCHANGED <<artifact, catalogue, local>>

UpdateEmbeddingCount(r) ==
  /\ Go(r, "count", "mark")
  /\ counted' = [counted EXCEPT ![book[r]] = TRUE]
  /\ UNCHANGED <<artifact, checksum, indexed, rows, local>>

\* Faulty variant: the book stays in the list of the run.
LeaveKeeping(r) ==
  /\ pc' = [pc EXCEPT ![r] = "next"]
  /\ book' = [book EXCEPT ![r] = NoBook]
  /\ seen' = [seen EXCEPT ![r] = 0]
  /\ content' = [content EXCEPT ![r] = 0]
  /\ text' = [text EXCEPT ![r] = 0]
  /\ UNCHANGED batch

\* The run is done with its book, whose entry in the tracker stays.
Leave(r) ==
  /\ pc' = [pc EXCEPT ![r] = "next"]
  /\ batch' = [batch EXCEPT ![r] = @ \ {book[r]}]
  /\ book' = [book EXCEPT ![r] = NoBook]
  /\ seen' = [seen EXCEPT ![r] = 0]
  /\ content' = [content EXCEPT ![r] = 0]
  /\ text' = [text EXCEPT ![r] = 0]

MarkIndexed(r) ==
  /\ pc[r] = "mark"
  /\ indexed' = [indexed EXCEPT ![book[r]] = TRUE]
  /\ Leave(r)
  /\ UNCHANGED <<upstream, artifact, checksum, counted, rows, failures, crashes, met>>

\* Any step may fail; what the earlier ones wrote stays.  The failure is
\* recorded, if the tracker can be reached, and the next book is taken.
Fail(r) ==
  /\ pc[r] \in Working
  /\ failures' \in {failures, failures \cup {book[r]}}
  /\ Leave(r)
  /\ UNCHANGED <<upstream, artifact, catalogue, rows, crashes, met>>

\* The process ends, or the scheduler's task is cancelled, in the middle.
Crash(r) ==
  /\ pc[r] # "idle" /\ crashes < MaxCrashes
  /\ crashes' = crashes + 1
  /\ pc' = [pc EXCEPT ![r] = "idle"]
  /\ batch' = [batch EXCEPT ![r] = {}]
  /\ book' = [book EXCEPT ![r] = NoBook]
  /\ seen' = [seen EXCEPT ![r] = 0]
  /\ content' = [content EXCEPT ![r] = 0]
  /\ text' = [text EXCEPT ![r] = 0]
  /\ UNCHANGED <<upstream, stores, met>>

-----------------------------------------------------------------------------
(* Around the runs.                                                         *)

\* A source publishes another content; none is published twice.
Republish(b) ==
  /\ upstream[b] < MaxContent
  /\ upstream' = [upstream EXCEPT ![b] = @ + 1]
  /\ UNCHANGED <<stores, pc, batch, book, local, crashes, met>>

\* upsert_book of the synchronisation sets every field of its model, and so
\* resets the checksum; the flag and the count keep their values.
Synchronise(b) ==
  /\ checksum' = [checksum EXCEPT ![b] = 0]
  /\ UNCHANGED <<upstream, artifact, counted, indexed, rows, failures, pc, batch, book, local, crashes, met>>

-----------------------------------------------------------------------------
OnBook(r) ==
  \/ Download(r) \/ StoreArtifact(r) \/ UpdateArtifactRef(r) \/ Decide(r)
  \/ FetchArtifact(r) \/ CheckFingerprint(r) \/ LookupObsolete(r) \/ DeleteObsolete(r)
  \/ InsertEmbeddings(r) \/ UpdateEmbeddingCount(r)

Progress(r) == NextBook(r) \/ EndRun(r) \/ OnBook(r) \/ MarkIndexed(r) \/ Fail(r)

Next ==
  \/ \E r \in Runner : Begin(r) \/ Progress(r) \/ Crash(r)
  \/ \E b \in Book : Republish(b) \/ Synchronise(b)

\* Every step of a run has a timeout and its retries end; the scheduler starts
\* runs again and again.
Spec == Init /\ [][Next]_vars /\ \A r \in Runner : WF_vars(Begin(r)) /\ WF_vars(Progress(r))

-----------------------------------------------------------------------------
Searchable(b) == \E l \in Content : Stored(b, l)

\* A book is marked as indexed only when its embeddings can be found, whatever
\* failed or crashed before: indexed books are never looked at again.
IndexedIsSearchable == ~met => \A b \in Book : indexed[b] => Searchable(b)

\* No content of a book is inserted twice, although inserting it, counting it
\* and marking the book are three steps that may fail one by one.
InsertedOnce == ~met => \A b \in Book, l, t \in Content : rows[b][l][t] <= 1

\* The checksum an embedding is labelled with is that of the text it was made
\* from, although the text comes back from an object that may have been
\* replaced and the entry's checksum is reset by synchronisations.
LabelsTruthful == ~met => \A b \in Book, l, t \in Content : rows[b][l][t] > 0 => l = t

\* The catalogue never refers to an artefact that is not there, also when runs
\* meet: a run that skips the download can read what it embeds.
ReferencedExists == \A b \in Book : checksum[b] # 0 => artifact[b] # 0

\* A run ends, whatever its books do.
RunsEnd == \A r \in Runner : pc[r] = "next" ~> pc[r] = "idle"

\* What a run has left to do: its books, and the steps with the one at hand.
StepsLeft(state) ==
  CASE state = "idle" -> 0
    [] state = "mark" -> 1
    [] state = "count" -> 2
    [] state = "insert" -> 3
    [] state = "purge" -> 4
    [] state = "lookup" -> 5
    [] state = "check" -> 6
    [] state = "fetch" -> 7
    [] state \in {"reference", "decide"} -> 8
    [] state = "store" -> 9
    [] state = "download" -> 10
    [] state = "next" -> 11

Left(r) == 12 * Cardinality(batch[r]) + StepsLeft(pc[r])

\* Why: every step of a run, the failing ones included, leaves it less to do, and
\* nothing that others do gives it more.
RunsShrink ==
  [][\A r \in Runner :
       /\ Progress(r) => Left(r)' < Left(r)
       /\ ~Begin(r) => Left(r)' <= Left(r)]_vars

-----------------------------------------------------------------------------
(* The inductive invariant: what holds of any runs, and, of runs that have  *)
(* never met, why they are safe.                                            *)

\* What a run has in hand, whoever else runs.
Holding(r) ==
  /\ pc[r] \in Working => book[r] \in Book
  /\ pc[r] \in Working \ {"download", "count", "mark"} => content[r] \in Content
  /\ pc[r] = "reference" => artifact[book[r]] # 0

OneRun == \A q, r \in Runner : pc[q] # "idle" /\ pc[r] # "idle" => q = r

\* The stores are written in one order, so each lags behind the one before it.
StoresAgree ==
  \A b \in Book :
    /\ checksum[b] <= artifact[b] /\ artifact[b] <= upstream[b]
    /\ counted[b] \/ indexed[b] => Searchable(b)

RowsAgree == \A b \in Book, l, t \in Content : rows[b][l][t] <= 1 /\ (rows[b][l][t] > 0 => l = t)

\* What a run has in hand is what the stores hold, and it never finds a checksum
\* that is not its own: "purge" is not reached.
RunAgrees(r) ==
  LET b == book[r] IN
  /\ pc[r] # "purge"
  /\ pc[r] = "download" => seen[r] <= artifact[b] /\ checksum[b] \in {0, seen[r]}
  /\ pc[r] = "store" => artifact[b] <= content[r] /\ content[r] <= upstream[b]
  /\ pc[r] \in {"reference", "decide", "fetch", "check", "lookup", "insert"} => artifact[b] = content[r]
  /\ pc[r] \in {"decide", "fetch", "check", "lookup", "insert"} => checksum[b] \in {0, content[r]}
  /\ pc[r] \in {"check", "lookup", "insert"} => text[r] = content[r]
  /\ pc[r] \in {"lookup", "insert"} => ~Stored(b, content[r])
  /\ pc[r] \in {"count", "mark"} => Searchable(b)

Agreement == OneRun /\ StoresAgree /\ RowsAgree /\ \A r \in Runner : RunAgrees(r)

\* And it works on books that it fetched; one that is idle has none.
InHand(r) ==
  /\ pc[r] \in Working => book[r] \in batch[r]
  /\ pc[r] = "idle" => batch[r] = {}

IInv ==
  /\ TypeOK
  /\ ReferencedExists
  /\ \A r \in Runner : Holding(r)
  /\ ~met => Agreement

-----------------------------------------------------------------------------
(* Claims of the documentation that the code does not keep.                 *)

\* Failures are isolated per book: no pending book is left out for ever,
\* however many others keep failing.
EveryPendingIsTried ==
  \A b \in Book : ~indexed[b] ~> indexed[b] \/ \E r \in Runner : book[r] = b

\* No duplicates, whoever starts runs.
NeverDuplicated == \A b \in Book, l, t \in Content : rows[b][l][t] <= 1

\* "Limpa embeddings obsoletos se checksum mudou": an indexed book has the
\* embeddings of one content only.
NoObsolete ==
  ~met => \A b \in Book : indexed[b] => \A k, l \in Content : Stored(b, k) /\ Stored(b, l) => k = l

\* clear_failure is for books processed again with success.
FailuresCleared == \A b \in Book : indexed[b] => b \notin failures

\* A content that differs from the one indexed is indexed in its turn.
ChangeIsIndexed == \A b \in Book \ Unavailable : []<>(Stored(b, upstream[b]) \/ ~indexed[b])
=============================================================================
