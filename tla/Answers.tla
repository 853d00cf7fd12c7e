------------------------------ MODULE Answers -------------------------------
(***************************************************************************)
(* One request that the Python agent answers from stored passages: a chat   *)
(* question, with the project's passages alone or with public sources too,  *)
(* a summary of a document, a comparison of documents, or research gaps.    *)
(* The request is embedded, passages are searched, chosen and handed to the *)
(* language model, and the model's reply is read.  What a chat keeps in the *)
(* database is the subject of ChatSession.                                  *)
(***************************************************************************)
EXTENDS Passages, FiniteSets

CONSTANTS
  Text,        \* contents of passages
  Document,    \* documents of the project
  ChatTopK,    \* passages a chat or a summary searches for (5 and 10)
  WideTopK,    \* passages a comparison or gaps search for (15 and 30)
  MinScore,    \* lowest score of a passage found (0.7; 0.5; 0.3 for gaps)
  Top,         \* the highest similarity of a text with the request (1.0)
  Projects,    \* what projects may have stored, of which one is searched
  MaxWorks,    \* works OpenAlex returns (5)
  PerWork,     \* passages taken from one work (3)
  MaxTotal,    \* passages after which no other work is tried (5)
  MaxPieces,   \* bound: passages of a downloaded text
  Room,        \* passages that fit in a prompt (MAX_CONTEXT_TOKENS)
  MaxGaps,     \* gaps returned (5)
  MaxCited,    \* sources taken from the model for a gap (3)
  MaxItems     \* bound: items in the model's reply

\* A stored passage: its text, the space of its embedding, how close that is to a
\* request embedded in the other space, and a number that tells the copies apart
\* that a document processed twice leaves behind.
Row == [doc : Document, text : Text, space : {"real", "mock"}, stray : 0..Top, copy : Nat]

ASSUME AnswersAssumption ==
  /\ {ChatTopK, WideTopK, Top, MaxWorks, PerWork, MaxTotal, MaxPieces, Room, MaxGaps, MaxCited, MaxItems} \subseteq Nat \ {0}
  /\ MinScore \in Int
  /\ "library" \notin Document
  /\ Projects \subseteq SUBSET Row
  /\ \A S \in Projects :
       /\ IsFiniteSet(S)
       /\ \A p, q \in S : p.doc = q.doc /\ p.text = q.text /\ p.copy = q.copy => p = q

Task     == {"chat", "library chat", "summary", "comparison", "gaps"}
Analysis == {"summary", "comparison", "gaps"}
Provider == {"openai", "no key", "compatible", "bare"}

VARIABLES
  task, asked,      \* what is asked, of which documents
  provider,         \* where embeddings come from; bare: no embeddings there
  stored, similar,  \* the project's passages; how similar each text is
  pc,
  space,            \* of the request's embedding: "real" or "mock"
  found,            \* passages the search returned, best first
  works, at, offer, \* how many works; the work at hand, and what it offers
  fallen,           \* the retriever's embedder has fallen back to mocks
  pieces,           \* passages of the text at hand
  public,           \* passages from public sources, in order of arrival
  vain,             \* history: works, and 0 for the books, that gave no passages
  context,          \* passages given to the model, or to be given
  items, gaps       \* the model's reply so far; the gaps read from it

request == <<task, asked, provider, stored, similar>>
library == <<works, at, offer, fallen, pieces, public, vain>>
reply   == <<items, gaps>>
vars    == <<request, pc, space, found, library, context, reply>>

-----------------------------------------------------------------------------
TopK   == IF task \in {"comparison", "gaps"} THEN WideTopK ELSE ChatTopK

\* A stored passage's score is 1 - the distance of the unit vectors, a public
\* one's the product of the vectors: both grow with similarity and are the same
\* for the request's own text, but elsewhere the first is lower.  Nothing keeps
\* the vectors of different spaces from being compared.
ProjectScore(p) == 2 * (IF p.space = space THEN similar[p.text] ELSE p.stray) - Top

Passage(d, t, n, k, c) == [doc |-> d, text |-> t, score |-> n, space |-> k, copy |-> c]

Scored == {Passage(p.doc, p.text, ProjectScore(p), p.space, p.copy) : p \in stored}

Relevant == {p \in Scored : p.score >= MinScore}

\* A text has none if it is blank, though long enough, as of a scanned PDF.
Pieces == SeqOf(Text, MaxPieces)

\* Faulty variant: any error of the provider is taken for a lack of embeddings.
FallbackAlways == TRUE

\* With a base URL, an error that looks as if there were no embeddings.
ShouldFallback == provider \in {"compatible", "bare"}

\* What an embedder can return; one without a key or fallen back is a mock.
Spaces(mock) ==
  IF mock THEN {"mock"}
  ELSE (IF provider = "bare" THEN {} ELSE {"real"}) \cup (IF ShouldFallback THEN {"mock"} ELSE {})

Init ==
  /\ task \in Task
  /\ asked \in {D \in SUBSET Document :
       CASE task = "summary" -> Cardinality(D) = 1
         [] task = "comparison" -> D # {}    \* the same document may be named twice
         [] OTHER -> D = {}}
  /\ provider \in Provider
  /\ stored \in Projects
  /\ similar \in [Text -> 0..Top]
  /\ pc = "embed"
  /\ space = "none"
  /\ found = <<>>
  /\ works = 0 /\ at = 0 /\ offer = {}
  /\ fallen = (provider = "no key")
  /\ pieces = <<>> /\ public = <<>> /\ vain = {}
  /\ context = <<>>
  /\ items = <<>> /\ gaps = <<>>

Go(from, to) == pc = from /\ pc' = to

-----------------------------------------------------------------------------
\* Each request makes its own embedder; an error of it ends the request.
EmbedQuery ==
  /\ \/ Go("embed", "search") /\ space' \in Spaces(provider = "no key")
     \/ Go("embed", "failed") /\ provider # "no key" /\ UNCHANGED space
  /\ UNCHANGED <<request, found, library, context, reply>>

SearchProject ==
  /\ Go("search", CASE task = "chat" -> "merge"
                    [] task = "library chat" -> "works"
                    [] OTHER -> "choose")
  /\ \E s \in Rankings(Scored) : found' = Select(FirstOf(TopK, s), Relevant)
  /\ UNCHANGED <<request, space, library, context, reply>>

DatabaseFails ==
  /\ Go("search", "failed")
  /\ UNCHANGED <<request, space, found, library, context, reply>>

-----------------------------------------------------------------------------
\* An error of OpenAlex counts as no works.
SearchWorks ==
  /\ Go("works", "next")
  /\ works' \in 0..MaxWorks
  /\ UNCHANGED <<request, space, found, at, offer, fallen, pieces, public, vain, context, reply>>

NextWork ==
  /\ pc = "next" /\ at < works /\ Len(public) < MaxTotal
  /\ pc' = "url"
  /\ at' = at + 1
  /\ offer' \in SUBSET {"url", "doi"}
  /\ UNCHANGED <<request, space, found, works, fallen, pieces, public, vain, context, reply>>

EndWorks ==
  /\ Go("next", IF public = <<>> THEN "books" ELSE "merge")
  /\ at = works \/ Len(public) >= MaxTotal
  /\ UNCHANGED <<request, space, found, library, context, reply>>

\* A route that the work does not offer, that fails, or that gives too short a
\* text leads to the next one: its open access link, what Unpaywall knows of its
\* DOI, and the description of the first book with its title.
Fetch(route, otherwise) ==
  /\ \/ Go(route, "pieces") /\ route \in offer \cup {"book"} /\ pieces' \in Pieces
     \/ Go(route, otherwise) /\ UNCHANGED pieces
  /\ offer' = offer \ {route}
  /\ vain' = IF pc' = "next" THEN vain \cup {at} ELSE vain
  /\ UNCHANGED <<request, space, found, works, at, fallen, public, context, reply>>

FetchByUrl == Fetch("url", "doi")

FetchByDoi == Fetch("doi", "book")

FetchByTitle == Fetch("book", "next")

\* Passages of different spaces have a score that says nothing.
Score(texts, k) ==
  {[i \in DOMAIN texts |-> Passage("library", texts[i], f[texts[i]], k, 0)] :
     f \in IF k = space THEN {similar} ELSE [Text -> {0, Top}]}

EmbedPieces ==
  /\ Go("pieces", "next") /\ pieces # <<>>
  /\ \E k \in Spaces(fallen) : \E s \in Score(FirstOf(PerWork, pieces), k) :
       public' = public \o s /\ fallen' = (k = "mock")
  /\ pieces' = <<>> /\ offer' = {}
  /\ UNCHANGED <<request, space, found, works, at, vain, context, reply>>

\* Faulty variant: the loop over the works is left, with what there is.
EmbeddingFailsForAll ==
  /\ Go("pieces", "merge") /\ pieces # <<>>
  /\ ~fallen
  /\ pieces' = <<>> /\ offer' = {} /\ vain' = vain \cup {at}
  /\ UNCHANGED <<request, space, found, works, at, fallen, public, context, reply>>

\* The retriever's own embedder fails: the work is passed over.
EmbeddingFails ==
  /\ Go("pieces", "next") /\ pieces # <<>>
  /\ ~fallen
  /\ pieces' = <<>> /\ offer' = {} /\ vain' = vain \cup {at}
  /\ UNCHANGED <<request, space, found, works, at, fallen, public, context, reply>>

\* A blank text counts as found: the work's other routes are not tried.
SkipBlank ==
  /\ Go("pieces", "next") /\ pieces = <<>>
  /\ offer' = {} /\ vain' = vain \cup {at}
  /\ UNCHANGED <<request, space, found, works, at, fallen, pieces, public, context, reply>>

\* Without passages from any work: the descriptions of books that match the
\* question, whole.  No books, or no embeddings for them: no passages.
SearchBooks ==
  /\ Go("books", "merge")
  /\ \/ \E k \in Spaces(fallen), d \in Pieces \ {<<>>} : \E s \in Score(d, k) :
          public' = s /\ fallen' = (k = "mock") /\ UNCHANGED vain
     \/ vain' = vain \cup {0} /\ UNCHANGED <<public, fallen>>
  /\ UNCHANGED <<request, space, found, works, at, offer, pieces, context, reply>>

\* Faulty variant: sorted before the copies are left out, copies not left out.
MergeWithCopies ==
  LET all == FirstOf(TopK, ByScore(found \o FirstOf(TopK, ByScore(public))))
  IN
  /\ Go("merge", IF all = <<>> THEN "limited" ELSE "model")
  /\ context' = all
  /\ UNCHANGED <<request, space, found, library, reply>>

Merge ==
  LET all == FirstOf(TopK, ByScore(FirstCopies(found \o FirstOf(TopK, ByScore(public)))))
  IN
  /\ Go("merge", IF all = <<>> THEN "limited" ELSE "model")
  /\ context' = all
  /\ UNCHANGED <<request, space, found, library, reply>>

-----------------------------------------------------------------------------
\* Faulty variant: the passages of all documents are taken.
ChosenFromAll == found

\* The search covers the project; the documents asked for are selected after it.
Chosen == Select(found, {p \in Scored : p.doc \in asked})

Ask(passages) == pc' = "model" /\ context' = passages

GiveUp == pc' = "insufficient" /\ UNCHANGED context

\* A summary is given passages one by one while they fit.
ChooseForSummary ==
  /\ pc = "choose" /\ task = "summary"
  /\ IF Chosen = <<>> THEN GiveUp ELSE Ask(Fitting(Each(Chosen), Room))
  /\ UNCHANGED <<request, space, found, library, reply>>

\* A comparison is given whole documents while they fit: maybe only one.
ChooseForComparison ==
  /\ pc = "choose" /\ task = "comparison"
  /\ IF Cardinality(Docs(Chosen)) < 2 THEN GiveUp ELSE Ask(Fitting(ByDocument(Chosen), Room))
  /\ UNCHANGED <<request, space, found, library, reply>>

ChooseForGaps ==
  /\ pc = "choose" /\ task = "gaps"
  /\ IF found = <<>> THEN GiveUp ELSE Ask(Fitting(Each(found), Room))
  /\ UNCHANGED <<request, space, found, library, reply>>

CallModel ==
  /\ task # "gaps"
  /\ Go("model", "answered")
  /\ UNCHANGED <<request, space, found, library, context, reply>>

CallModelForGaps ==
  /\ task = "gaps"
  /\ Go("model", "items")
  /\ UNCHANGED <<request, space, found, library, context, reply>>

\* Without a key the reply is simulated and does not fail.
ModelFails ==
  /\ Go("model", "failed")
  /\ provider # "no key"
  /\ UNCHANGED <<request, space, found, library, context, reply>>

-----------------------------------------------------------------------------
\* An item of the model's list: usable, without a title or a reason, not an
\* object, or of a shape that raises an error.  cited says of each source that
\* it names whether it can be read.
Item == [kind : {"usable"}, cited : SeqOf(BOOLEAN, MaxCited + 1)]
          \cup [kind : {"incomplete", "not an object", "broken"}, cited : {<<>>}]

\* Sources named by the model, else the first passages found.
Sources(item) ==
  LET named == Select(FirstOf(MaxCited, item.cited), {TRUE})
  IN  IF named = <<>> THEN Texts(FirstOf(2, found)) ELSE {"named"}

\* By the number of passages found, more than 10 and 5 in the code.
Confidence == CASE Len(found) > 2 -> "high" [] Len(found) = 2 -> "medium" [] OTHER -> "low"

Gap(i, item) == [item |-> i, sources |-> Sources(item), confidence |-> Confidence]

\* Faulty variant: the limit is looked at before the item is added.
ReadItemAfterLimit ==
  \E item \in Item :
    /\ pc = "items" /\ Len(items) < MaxItems
    /\ items' = Append(items, item)
    /\ gaps' = IF item.kind = "usable" THEN Append(gaps, Gap(Len(items'), item)) ELSE gaps
    /\ pc' = IF item.kind = "broken" \/ Len(gaps) >= MaxGaps THEN "answered" ELSE "items"
    /\ UNCHANGED <<request, space, found, library, context>>

\* A broken item ends the reading; the gaps read before it are kept.
ReadItem ==
  \E item \in Item :
    /\ pc = "items" /\ Len(items) < MaxItems
    /\ items' = Append(items, item)
    /\ gaps' = IF item.kind = "usable" THEN Append(gaps, Gap(Len(items'), item)) ELSE gaps
    /\ pc' = IF item.kind = "broken" \/ Len(gaps') >= MaxGaps THEN "answered" ELSE "items"
    /\ UNCHANGED <<request, space, found, library, context>>

\* The list ends, or the reply was no list of this kind in the first place.
EndItems ==
  /\ Go("items", "answered")
  /\ UNCHANGED <<request, space, found, library, context, reply>>

Next ==
  \/ EmbedQuery \/ SearchProject \/ DatabaseFails
  \/ SearchWorks \/ NextWork \/ EndWorks \/ FetchByUrl \/ FetchByDoi \/ FetchByTitle
  \/ EmbedPieces \/ EmbeddingFails \/ SkipBlank \/ SearchBooks \/ Merge
  \/ ChooseForSummary \/ ChooseForComparison \/ ChooseForGaps
  \/ CallModel \/ CallModelForGaps \/ ModelFails \/ ReadItem \/ EndItems

Spec == Init /\ [][Next]_vars

-----------------------------------------------------------------------------
\* Passages in S other than p that are no worse.
Rivals(p, S) == {q \in S \ {p} : q.score >= p.score}

\* Relevant passages that are found however ties are broken.
Certain == {p \in Relevant : Cardinality(Rivals(p, Scored)) < TopK}

\* A chat's context holds no text twice, is ordered by score, and leaves out
\* nothing better: a relevant passage of the project, unless others, copies
\* among them, fill the search, and a public passage, unless its text was found in
\* the project and ranks as that.  When the context is empty there was nothing.
ContextIsBest ==
  task \in {"chat", "library chat"} /\ pc \in {"model", "answered", "limited"} =>
    LET Beaten(p) == Len(context) = TopK /\ \A i \in DOMAIN context : context[i].score >= p.score
        RivalsOf(i) == {j \in DOMAIN public \ {i} : public[j].score >= public[i].score}
    IN
    /\ Cardinality(Texts(context)) = Len(context) /\ Len(context) <= TopK /\ Ranked(context)
    /\ \A p \in Certain : p.text \in Texts(context) \/ Beaten(p)
    /\ \A i \in DOMAIN public :
         public[i].text \in Texts(context) \cup Texts(found) \/ Beaten(public[i])
           \/ Cardinality(RivalsOf(i)) >= TopK
    /\ pc = "limited" => Relevant = {} /\ public = <<>>

\* A chat with public sources says that it has no context only after every work
\* was tried in vain and then the books of the question: a source that fails, an
\* embedding that fails, or a blank text never keeps the other works from being
\* asked; books are asked only then.  The other routes of the same work are asked
\* only while there is no text: not after a blank one or a failed embedding.
NothingLeftUntried ==
  task = "library chat" =>
    /\ pc = "limited" => vain = 0..works
    /\ pc = "books" => vain = 1..works

\* Scores compare vectors of one model: unless the provider has embeddings and
\* an error of it looks as if it had none, public passages are embedded the way
\* the question was, though by another embedder.  With such a provider, spaces are
\* mixed in one way only: an embedder that fell back is not asked again, so mocks
\* are never followed by other passages.  Nothing of the kind holds of stored
\* passages, which were embedded at another time.
ScoresComparable ==
  /\ provider # "compatible" => \A i \in DOMAIN public : public[i].space = space
  /\ \A i, j \in DOMAIN public : i < j /\ public[i].space = "mock" => public[j].space = "mock"

\* An analysis says that the context is insufficient only if fewer documents
\* than it needs have a passage that is relevant and not crowded out of the
\* search by other passages of the project; otherwise the model is given
\* passages of the documents asked for alone, and among them the best.
InsufficientIsTrue ==
  LET Needed == IF task = "comparison" THEN 2 ELSE 1
      Mine == IF task = "gaps" THEN Certain ELSE {p \in Certain : p.doc \in asked}
  IN
  task \in Analysis =>
    /\ pc = "insufficient" => Cardinality({p.doc : p \in Mine}) < Needed
    /\ pc \in {"model", "items", "answered"} =>
         /\ context # <<>>
         /\ task # "gaps" => Docs(context) \subseteq asked
         /\ \A p \in Mine : context[1].score >= p.score

\* The gaps are the usable items of the reply before the first broken one, in
\* their order and no more than MaxGaps, each with a source.
GapsFollowReply ==
  task = "gaps" /\ pc = "answered" =>
    LET Read == {i \in DOMAIN items : items[i].kind = "usable"}
        Taken == {gaps[k].item : k \in DOMAIN gaps}
    IN
    /\ Len(gaps) <= MaxGaps
    /\ \A k, l \in DOMAIN gaps : k < l => gaps[k].item < gaps[l].item
    /\ Taken = Read
    /\ \A i, j \in DOMAIN items : items[i].kind = "broken" => j <= i
    /\ \A k \in DOMAIN gaps : gaps[k].sources # {}
=============================================================================
