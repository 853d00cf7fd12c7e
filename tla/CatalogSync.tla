---------------------------- MODULE CatalogSync -----------------------------
(***************************************************************************)
(* The synchronisation of the public catalogue: five sources are read one   *)
(* after the other, page by page, and each book is normalised and upserted  *)
(* into MongoDB under its stable key.  The scheduler starts one under its   *)
(* lock, POST /catalog/sync one without.  An entry of a source is the work  *)
(* it is about, what identifies it there, and what is wrong with it.        *)
(***************************************************************************)
EXTENDS Integers, Sequences, FiniteSets, Selection

CONSTANTS
  Caller,        \* whoever starts synchronisations, one at a time each
  None,          \* no value
  Work,          \* what entries are about; stands for title and authors
  First,         \* what each source lists at the beginning
  News,          \* entries sources publish later
  MaxPublished,  \* bound on publications
  ArxivId,       \* what is kept of a work's arXiv id
  Asks,          \* the filters each caller sends, None for all sources
  Migrated,      \* whether the indexes of migration 001 exist
  BatchSize

Sources == <<"openlibrary", "gutenberg", "openalex", "arxiv", "crossref">>
Source  == {Sources[i] : i \in 1..Len(Sources)}

\* keyed: it has the identifier the client looks for; titled: it has a title;
\* sound: BookMetadata accepts its fields; spoken: its language is one of those
\* MongoDB has a text search for.
Entry == [work : Work, keyed : BOOLEAN, titled : BOOLEAN, sound : BOOLEAN, spoken : BOOLEAN]

ASSUME SyncAssumption ==
  /\ First \in [Source -> Seq(Entry)]
  /\ News \in [Source -> SUBSET Entry]
  /\ ArxivId \in [Work -> Work]
  /\ Asks \in [Caller -> SUBSET (Source \cup {None})]
  /\ BatchSize \in Nat \ {0} /\ MaxPublished \in Nat /\ Migrated \in BOOLEAN
  /\ None \notin Source /\ None \notin Work /\ IsFiniteSet(Caller)

VARIABLES
  listing,    \* what each source lists, in the order it pages through
  published,
  configured, \* sources whose client was created
  catalog,    \* the collection "books"; copy tells documents with one key apart
  pc,         \* where each synchronisation stands
  wanted,     \* sources its caller asked for
  todo,       \* sources it has not finished, the current one first
  at,         \* its offset in the current source; the cursor of openalex
  page,       \* entries of its page still to be handled
  more,       \* whether it asks for another page after this one
  errors,     \* whether the current source's report counts an error
  reports,    \* sources it has a report of
  expected,   \* history: sound, titled entries listed when the source's turn came
  clean,      \* history: no page of the source was refused or held an untitled entry
  met         \* history: whether two synchronisations were ever under way at once

external == <<listing, published, configured>>
source   == <<at, page, more, errors, expected, clean>>
vars     == <<external, catalog, pc, wanted, todo, source, reports, met>>

-----------------------------------------------------------------------------
(* Normalisation.                                                           *)

Blank == [gutenberg_id |-> None, ol_key |-> None, source_provider |-> None,
          source_id |-> None, title |-> None, spoken |-> FALSE]

\* A key that is not under /works/ is dropped.
OpenLibraryBook(e) ==
  [Blank EXCEPT !.ol_key = IF e.keyed THEN e.work ELSE None, !.title = e.work,
                !.spoken = e.spoken]

\* The id comes from the link, so there always is one.
GutenbergBook(e) ==
  [Blank EXCEPT !.gutenberg_id = e.work, !.title = e.work, !.spoken = e.spoken]

OpenAlexBook(e) ==
  [Blank EXCEPT !.source_provider = "openalex", !.source_id = IF e.keyed THEN e.work ELSE None,
                !.title = e.work, !.spoken = e.spoken]

\* The version is cut off the id, so the versions of a paper are one book; so is
\* the category of an old id, and papers of two categories may share what is
\* left.  There is no language.
ArxivBook(e) ==
  [Blank EXCEPT !.source_provider = "arxiv", !.source_id = IF e.keyed THEN ArxivId[e.work] ELSE None,
                !.title = e.work]

CrossrefBook(e) ==
  [Blank EXCEPT !.source_provider = "crossref", !.source_id = IF e.keyed THEN e.work ELSE None,
                !.title = e.work, !.spoken = e.spoken]

Book(s, e) ==
  CASE s = "openlibrary" -> OpenLibraryBook(e)
    [] s = "gutenberg"   -> GutenbergBook(e)
    [] s = "openalex"    -> OpenAlexBook(e)
    [] s = "arxiv"       -> ArxivBook(e)
    [] s = "crossref"    -> CrossrefBook(e)

StableKey(b) ==
  CASE b.gutenberg_id # None -> <<"gutenberg", b.gutenberg_id>>
    [] b.gutenberg_id = None /\ b.ol_key # None -> <<"ol", b.ol_key>>
    [] b.gutenberg_id = None /\ b.ol_key = None /\ b.source_id # None -> <<b.source_provider, b.source_id>>
    [] OTHER -> <<"hash", b.title>>

-----------------------------------------------------------------------------
(* The collection.                                                          *)

Matches(b) == {d \in catalog : d.key = StableKey(b)}

Document(b, n) == [key |-> StableKey(b), book |-> b, copy |-> n]

\* Two indexes are unique and sparse.  A sparse index leaves out documents
\* without the field, and model_dump writes every field, None as null.
Duplicate(b, docs) ==
  \E d \in docs : d.book.gutenberg_id = b.gutenberg_id \/ d.book.ol_key = b.ol_key

\* The index of titles reads the language off the field of that name and takes
\* neither null nor one it does not know.
Refused(b, docs) == Migrated /\ (Duplicate(b, docs) \/ ~b.spoken)

Catalogued(b) == Matches(b) # {}

-----------------------------------------------------------------------------
(* Callers.                                                                 *)

\* The clients of the other sources are optional.
Optional == {"openalex", "arxiv", "crossref"}

Expected(s) ==
  {listing[s][i] : i \in {j \in 1..Len(listing[s]) :
     /\ s = "gutenberg" => j <= BatchSize
     /\ listing[s][j].sound /\ (s = "gutenberg" \/ listing[s][j].titled)}}

\* The locals of a _sync method: nothing has been read, and what the history
\* expects is in turn.
Locals(r, turn) ==
  /\ at' = [at EXCEPT ![r] = 0]
  /\ page' = [page EXCEPT ![r] = <<>>]
  /\ more' = [more EXCEPT ![r] = FALSE]
  /\ errors' = [errors EXCEPT ![r] = FALSE]
  /\ clean' = [clean EXCEPT ![r] = TRUE]
  /\ expected' = [expected EXCEPT ![r] = turn]

\* The sources in queue are run, from its head.
Run(r, queue) ==
  /\ todo' = [todo EXCEPT ![r] = queue]
  /\ pc' = [pc EXCEPT ![r] = IF queue = <<>> THEN "idle" ELSE "search"]
  /\ Locals(r, IF queue = <<>> THEN {} ELSE Expected(Head(queue)))

Init ==
  /\ listing = First
  /\ published = 0
  /\ configured \in {Source, Source \ Optional}
  /\ catalog = {}
  /\ pc = [r \in Caller |-> "idle"]
  /\ wanted = [r \in Caller |-> {}]
  /\ todo = [r \in Caller |-> <<>>]
  /\ at = [r \in Caller |-> 0]
  /\ page = [r \in Caller |-> <<>>]
  /\ more = [r \in Caller |-> FALSE]
  /\ errors = [r \in Caller |-> FALSE]
  /\ reports = [r \in Caller |-> {}]
  /\ expected = [r \in Caller |-> {}]
  /\ clean = [r \in Caller |-> TRUE]
  /\ met = FALSE

\* execute: a wanted source without a client is reported, with an error, at once.
Begin(r, f) ==
  LET chosen == {s \in Source : f \in {None, s}}
  IN
  /\ pc[r] = "idle"
  /\ wanted' = [wanted EXCEPT ![r] = chosen]
  /\ reports' = [reports EXCEPT ![r] = chosen \ configured]
  /\ Run(r, Select(Sources, chosen \cap configured))
  /\ met' = (met \/ \E q \in Caller : pc[q] # "idle")
  /\ UNCHANGED <<external, catalog>>

\* The current source is reported and the next one has its turn.
EndSource(r) ==
  /\ reports' = [reports EXCEPT ![r] = @ \cup {Head(todo[r])}]
  /\ Run(r, Tail(todo[r]))

-----------------------------------------------------------------------------
(* Pages.                                                                   *)

Searching(r, s) == pc[r] = "search" /\ Head(todo[r]) = s

Raw(r) ==
  LET l == listing[Head(todo[r])]
  IN SubSeq(l, at[r] + 1, IF at[r] + BatchSize < Len(l) THEN at[r] + BatchSize ELSE Len(l))

Titled(entries) == Select(entries, {e \in Entry : e.titled})

\* No documents end the source; otherwise they are handled one by one.
Answer(r, docs, next) ==
  IF docs = <<>>
  THEN EndSource(r)
  ELSE /\ pc' = [pc EXCEPT ![r] = "book"]
       /\ page' = [page EXCEPT ![r] = docs]
       /\ more' = [more EXCEPT ![r] = next]
       /\ clean' = [clean EXCEPT ![r] = @ /\ Len(docs) = Len(Raw(r))]
       /\ UNCHANGED <<todo, at, errors, expected, reports>>

\* What the clients return: the titled entries of the page, or nothing when the
\* status is an error or the body is not what it should be.
OpenLibraryDocs(r) == {Titled(Raw(r)), <<>>}

\* Neither a limit nor an offset is sent; titles are left to the books' pages.
GutenbergDocs(r) == {Raw(r), <<>>}

OpenAlexDocs(r) == {Titled(Raw(r)), <<>>}

ArxivDocs(r) == {Titled(Raw(r)), <<>>}

CrossrefDocs(r) == {Titled(Raw(r)), <<>>}

SyncOpenLibrary(r) ==
  /\ Searching(r, "openlibrary")
  /\ \E docs \in OpenLibraryDocs(r) : Answer(r, docs, Len(docs) = BatchSize)

SyncGutenberg(r) ==
  /\ Searching(r, "gutenberg")
  /\ \E docs \in GutenbergDocs(r) : Answer(r, docs, FALSE)

\* The last page may still bear a cursor.
SyncOpenAlex(r) ==
  /\ Searching(r, "openalex")
  /\ \E docs \in OpenAlexDocs(r), cursor \in {TRUE, at[r] + BatchSize < Len(listing["openalex"])} :
       Answer(r, docs, Len(docs) = BatchSize /\ cursor)

SyncArxiv(r) ==
  /\ Searching(r, "arxiv")
  /\ \E docs \in ArxivDocs(r) : Answer(r, docs, Len(docs) = BatchSize)

SyncCrossref(r) ==
  /\ Searching(r, "crossref")
  /\ \E docs \in CrossrefDocs(r) : Answer(r, docs, Len(docs) = BatchSize)

Search(r) ==
  /\ SyncOpenLibrary(r) \/ SyncGutenberg(r) \/ SyncOpenAlex(r) \/ SyncArxiv(r) \/ SyncCrossref(r)
  /\ UNCHANGED <<external, catalog, wanted, met>>

\* Faulty variant: what a source raises ends the synchronisation.
SearchRaises(r) ==
  /\ pc[r] = "search"
  /\ pc' = [pc EXCEPT ![r] = "idle"]
  /\ UNCHANGED <<external, catalog, wanted, todo, source, reports, met>>

\* Every attempt timed out, or an entry could not be normalised: the source is
\* reported as failed, and what it had counted is lost.
SearchFails(r) ==
  /\ pc[r] = "search"
  /\ EndSource(r)
  /\ UNCHANGED <<external, catalog, wanted, met>>

-----------------------------------------------------------------------------
(* Books.                                                                   *)

Handles(r) == pc[r] = "book" /\ page[r] # <<>>

Current(r) == Book(Head(todo[r]), Head(page[r]))

\* Books that went well are counted too, but no property tells the counts apart.
Counted(r, failed) ==
  /\ errors' = [errors EXCEPT ![r] = @ \/ failed]
  /\ page' = [page EXCEPT ![r] = Tail(@)]
  /\ pc' = [pc EXCEPT ![r] = "book"]
  /\ UNCHANGED <<external, wanted, todo, at, more, expected, clean, reports, met>>

\* The metadata are not accepted, MongoDB fails, or the book's page is missing.
BookFails(r) ==
  /\ Handles(r)
  /\ Counted(r, TRUE)
  /\ UNCHANGED catalog

\* Faulty variant: every upsert is taken for an insertion.
InsertAlways(r) ==
  /\ Handles(r) /\ Head(page[r]).sound
  /\ pc' = [pc EXCEPT ![r] = "insert"]
  /\ UNCHANGED <<external, catalog, wanted, todo, source, reports, met>>

\* update_one takes one match and sets all the fields.
Update(r) ==
  LET b == Current(r)
  IN
  /\ Handles(r) /\ Head(page[r]).sound
  /\ \E d \in Matches(b) :
       /\ IF Refused(b, catalog \ {d})
          THEN UNCHANGED catalog
          ELSE catalog' = (catalog \ {d}) \cup {Document(b, d.copy)}
       /\ Counted(r, Refused(b, catalog \ {d}))

\* No document matches; MongoDB has yet to insert one.
Miss(r) ==
  /\ Handles(r) /\ Head(page[r]).sound /\ ~Catalogued(Current(r))
  /\ pc' = [pc EXCEPT ![r] = "insert"]
  /\ UNCHANGED <<external, catalog, wanted, todo, source, reports, met>>

Insert(r) ==
  LET b == Current(r)
  IN
  /\ pc[r] = "insert"
  /\ IF Refused(b, catalog)
     THEN UNCHANGED catalog
     ELSE catalog' = catalog \cup {Document(b, Cardinality(Matches(b)) + 1)}
  /\ Counted(r, Refused(b, catalog))

\* Faulty variant: the page after next is asked for.
NextPageSkipping(r) ==
  /\ pc[r] = "book" /\ page[r] = <<>>
  /\ IF more[r]
     THEN /\ at' = [at EXCEPT ![r] = @ + BatchSize + 1]
          /\ pc' = [pc EXCEPT ![r] = "search"]
          /\ UNCHANGED <<todo, page, more, errors, expected, clean, reports>>
     ELSE EndSource(r)
  /\ UNCHANGED <<external, catalog, wanted, met>>

\* Faulty variant: the same page is asked for again.
NextPageStuck(r) ==
  /\ pc[r] = "book" /\ page[r] = <<>>
  /\ IF more[r]
     THEN /\ pc' = [pc EXCEPT ![r] = "search"]
          /\ UNCHANGED <<todo, source, reports>>
     ELSE EndSource(r)
  /\ UNCHANGED <<external, catalog, wanted, met>>

NextPage(r) ==
  /\ pc[r] = "book" /\ page[r] = <<>>
  /\ IF more[r]
     THEN /\ at' = [at EXCEPT ![r] = @ + BatchSize]
          /\ pc' = [pc EXCEPT ![r] = "search"]
          /\ UNCHANGED <<todo, page, more, errors, expected, clean, reports>>
     ELSE EndSource(r)
  /\ UNCHANGED <<external, catalog, wanted, met>>

\* The process ends or the task is cancelled: nothing of it is kept.
Crash(r) ==
  /\ pc[r] # "idle"
  /\ wanted' = [wanted EXCEPT ![r] = {}]
  /\ reports' = [reports EXCEPT ![r] = {}]
  /\ Run(r, <<>>)
  /\ UNCHANGED <<external, catalog, met>>

-----------------------------------------------------------------------------
(* Around.                                                                  *)

\* A new entry is listed first and moves the others on, as in arXiv's order; a
\* cursor keeps its place, so where there is one new entries come last.
Publish(s, e) ==
  /\ published < MaxPublished
  /\ published' = published + 1
  /\ listing' = [listing EXCEPT ![s] = IF s = "openalex" THEN Append(@, e) ELSE <<e>> \o @]
  /\ UNCHANGED <<configured, catalog, pc, wanted, todo, source, reports, met>>

Step(r) == Search(r) \/ SearchFails(r) \/ BookFails(r) \/ Update(r) \/ Miss(r) \/ Insert(r) \/ NextPage(r)

Next ==
  \/ \E r \in Caller : Step(r) \/ Crash(r) \/ \E f \in Asks[r] : Begin(r, f)
  \/ \E s \in Source : \E e \in News[s] : Publish(s, e)

\* Sources answer or time out, and so does MongoDB.
Spec == Init /\ [][Next]_vars /\ \A r \in Caller : WF_vars(Step(r))

-----------------------------------------------------------------------------
TypeOK ==
  /\ listing \in [Source -> Seq(Entry)] /\ published \in 0..MaxPublished
  /\ configured \in SUBSET Source /\ met \in BOOLEAN
  /\ pc \in [Caller -> {"idle", "search", "book", "insert"}]
  /\ wanted \in [Caller -> SUBSET Source]
  /\ todo \in [Caller -> Seq(Source)]
  /\ at \in [Caller -> Nat]
  /\ page \in [Caller -> Seq(Entry)]
  /\ more \in [Caller -> BOOLEAN] /\ clean \in [Caller -> BOOLEAN]
  /\ errors \in [Caller -> BOOLEAN]
  /\ reports \in [Caller -> SUBSET Source]
  /\ expected \in [Caller -> SUBSET Entry]

Ends(r, s) == pc[r] # "idle" /\ Head(todo[r]) = s /\ s \notin reports[r] /\ s \in reports'[r]

\* A source that is reported without an error has every book in the catalogue
\* that it listed when its turn came, although new entries move the pages while
\* they are read.  Left out are pages that were answered with an error status or
\* shortened by an entry without a title: they end the source as its end does.
NothingSkipped ==
  [][\A r \in Caller, s \in Source :
       Ends(r, s) /\ ~errors[r] /\ clean[r] /\ (pc[r] = "search" => Raw(r) = <<>>)
       => \A e \in expected[r] : Catalogued(Book(s, e))']_vars

\* "Deduplica por stable_key": as long as synchronisations do not meet, no two
\* documents share a key, whatever failed, crashed and was repeated.  Where they
\* do, each may add the book that none had found, but once: as many documents
\* share a key as there are callers at most, however often they meet.
OneEntryPerKey ==
  /\ ~met => \A c, d \in catalog : c.key = d.key => c = d
  /\ \A d \in catalog : Cardinality(Matches(d.book)) <= Cardinality(Caller)

\* A source that fails does not keep the others from being read: at the end
\* there is a report for every source asked for.
EverySourceReported ==
  \A r \in Caller : pc[r] = "idle" => wanted[r] \subseteq reports[r]

\* Synchronisations end.
SyncsEnd == \A r \in Caller : pc[r] # "idle" ~> pc[r] = "idle"

\* Why they do: how much the current source can have beyond the page at hand,
\* however much is published, and the steps that the page at hand still takes.
Room(r) == Len(listing[Head(todo[r])]) + (MaxPublished - published) + BatchSize - at[r]

Ahead(r) ==
  CASE pc[r] = "search" -> Room(r)
    [] pc[r] \in {"book", "insert"} /\ more[r] -> Room(r) - BatchSize
    [] OTHER -> 0

InPage(r) ==
  CASE pc[r] = "book" -> 2 * Len(page[r]) + 1
    [] pc[r] = "insert" -> 2 * Len(page[r])
    [] OTHER -> 0

Shorter(r) ==
  \/ Len(todo'[r]) < Len(todo[r])
  \/ todo'[r] = todo[r] /\ Ahead(r)' < Ahead(r)
  \/ todo'[r] = todo[r] /\ Ahead(r)' = Ahead(r) /\ InPage(r)' < InPage(r)

NoLonger(r) == todo'[r] = todo[r] /\ Ahead(r)' <= Ahead(r) /\ InPage(r)' = InPage(r)

\* Each step of a synchronisation under way ends a source, or leaves less of it,
\* or less of the page; what others do and sources publish makes it no longer.
SyncsShrink ==
  [][\A r \in Caller : pc[r] # "idle" => Shorter(r) \/ (~Step(r) /\ NoLonger(r))]_vars

\* "Opcionais mas unicos quando presentes": the unique indexes refuse a book only
\* for a document that has its gutenberg_id or its ol_key.
RefusedAreDuplicates ==
  \A r \in Caller :
    pc[r] = "insert" /\ Migrated /\ Duplicate(Current(r), catalog) =>
      \E d \in catalog :
        \/ d.book.gutenberg_id # None /\ d.book.gutenberg_id = Current(r).gutenberg_id
        \/ d.book.ol_key # None /\ d.book.ol_key = Current(r).ol_key
=============================================================================
