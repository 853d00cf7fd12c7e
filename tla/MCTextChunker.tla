--------------------------- MODULE MCTextChunker ----------------------------
(***************************************************************************)
(* The two chunkers of the repository over the same small texts: the agent's *)
(* loop under all small settings, and the indexer's function under those     *)
(* that relate to each other like its own, 1000, 200 and 100, do: a unit     *)
(* that does not fit beside an overlap is no short chunk.                   *)
(***************************************************************************)
EXTENDS TextChunker, IndexChunker, Selection, FiniteSetsExt

CONSTANTS MaxSize, MaxOverlap

Pairs == [size : 1..MaxSize, overlap : 0..MaxOverlap]

\* Every setting whose overlap is at most half of the chunk, or is adjusted.
MCSafeSettings == {s \in Pairs : s.overlap >= s.size \/ 2 * s.overlap <= s.size}

\* Every setting the environment may give.
MCAllSettings == Pairs

\* The text as the indexer reads it, if each space ends a sentence and two or
\* more in a row end a paragraph.
Words == {p \in (0..len - 1) \ spaces : p = 0 \/ p - 1 \in spaces}

Heads == {p \in Words : p = 0 \/ {p - 1, p - 2} \subseteq spaces}

Size(word) == Min({q \in spaces \cup {len} : q > word}) - word

\* The words of W in their order.
InOrder(W) == Select([i \in 1..len |-> i - 1], W)

SentencesFrom(head) ==
  LET words == InOrder({w \in Words : w >= head /\ \A h \in Heads : h <= head \/ h > w})
  IN  [i \in 1..Len(words) |-> Size(words[i])]

Book == LET heads == InOrder(Heads) IN [i \in 1..Len(heads) |-> SentencesFrom(heads[i])]

\* Overlaps that lose so many blanks before a sentence, and before a paragraph.
Lost(one, two) == [p \in Nat \X Nat |-> IF p[2] = 0 THEN two ELSE one]

\* "Divide texto em segmentos ... para preservar contexto": no sentence of a book
\* is missing from its chunks, but for a last part that is too short and follows
\* a large paragraph; sentences keep their order, and chunks their bound.
IndexKeepsText ==
  start = 0 =>
    \A min \in 1..config.overlap, one \in 0..1, two \in 0..2 :
      LET s == [size |-> config.size, overlap |-> config.overlap, min |-> min]
      IN  Proportioned(s) /\ one < s.overlap /\ two < s.overlap =>
            KeepsText(Book, len, s, Lost(one, two))
=============================================================================
