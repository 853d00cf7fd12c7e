------------------------------ MODULE Passages ------------------------------
(***************************************************************************)
(* What the Python agent does with ranked passages before it asks a         *)
(* language model.  A passage is a record with a text, a doc and a score.   *)
(***************************************************************************)
EXTENDS SequencesExt, Selection

Ranked(s) == \A i, j \in DOMAIN s : i < j => s[i].score >= s[j].score

\* What ORDER BY distance may return: passages at one distance in any order.
Rankings(S) == {s \in SetToSeqs(S) : Ranked(s)}

FirstOf(n, s) == SubSeq(s, 1, IF Len(s) < n THEN Len(s) ELSE n)

Texts(s) == {s[i].text : i \in DOMAIN s}
Docs(s)  == {s[i].doc : i \in DOMAIN s}

\* Where a key appears for the first time.
Firsts(keys) ==
  Select([i \in DOMAIN keys |-> i], {i \in DOMAIN keys : \A j \in 1..(i - 1) : keys[j] # keys[i]})

\* Only the first of the passages with one text.
FirstCopies(s) ==
  LET first == Firsts([i \in DOMAIN s |-> s[i].text])
  IN  [k \in DOMAIN first |-> s[first[k]]]

\* The places of a passage's betters: of those with its score the earlier ones.
Better(s, i) == {j \in DOMAIN s : s[j].score > s[i].score \/ (s[j].score = s[i].score /\ j < i)}

\* Best first; passages with one score keep their order.
ByScore(s) ==
  [k \in DOMAIN s |-> s[CHOOSE i \in DOMAIN s : Cardinality(Better(s, i)) = k - 1]]

\* One block per document, in the order in which the documents appear.
ByDocument(s) ==
  LET first == Firsts([i \in DOMAIN s |-> s[i].doc])
  IN  [k \in DOMAIN first |-> Select(s, {p \in Range(s) : p.doc = s[first[k]].doc})]

Each(s) == [k \in DOMAIN s |-> <<s[k]>>]

\* Blocks up to the first that does not fit in room any more, but the first
\* block always; what they hold.
Fitting(blocks, room) ==
  LET Fits(k) == k <= 1 \/ Len(FlattenSeq(FirstOf(k, blocks))) <= room
      n == CHOOSE k \in 0..Len(blocks) : Fits(k) /\ \A j \in 0..Len(blocks) : Fits(j) => j <= k
  IN  FlattenSeq(FirstOf(n, blocks))
=============================================================================
