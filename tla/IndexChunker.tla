---------------------------- MODULE IndexChunker ----------------------------
(***************************************************************************)
(* The public indexer's chunker: paragraphs are gathered into chunks, one    *)
(* that is too large is cut into sentences, which are gathered likewise, and *)
(* a chunk may begin with the end of the one before.  A text is a sequence   *)
(* of paragraphs, a paragraph the sequence of its sentences' lengths; one    *)
(* blank parts sentences, two line breaks or more part paragraphs, and       *)
(* length says how long that makes the text.  An overlap loses the blanks it *)
(* begins with, which depend on where it is cut: blanks[<<i, 0>>] of them if *)
(* it precedes paragraph i, blanks[<<i, j>>] if it precedes sentence j of i. *)
(***************************************************************************)
EXTENDS Integers, Sequences, SequencesExt

\* What chunk() returns no position of, as nobody uses one: a chunk is the
\* sentences it holds whole, in order, and its length.
Nothing == [chunks |-> <<>>, now |-> <<>>, size |-> 0]

Unit(sentences, size) == [now |-> sentences, size |-> size]

\* The sums of the first n sizes.
Sums(sizes) ==
  LET sum[n \in 0..Len(sizes)] == IF n = 0 THEN 0 ELSE sum[n - 1] + sizes[n] IN sum

Length(paragraph) == Sums(paragraph)[Len(paragraph)] + Len(paragraph) - 1

\* The length of the paragraphs after i up to k, put together.
Span(text, i, k) ==
  LET sum == Sums([n \in 1..Len(text) |-> Length(text[n])])
  IN  sum[k] - sum[i] + 2 * (k - i - 1)

\* The length that a text has at least: blank lines in a row make it longer.
TextLength(text) == Span(text, 0, Len(text))

Sentence(i, j, paragraph) == Unit(<<<<i, j>>>>, paragraph[j])

\* The first n sentences of paragraph i.
First(i, n) == [j \in 1..n |-> <<i, j>>]

Paragraph(i, paragraph) == Unit(First(i, Len(paragraph)), Length(paragraph))

Emit(b) == Append(b.chunks, [holds |-> b.now, size |-> b.size])

\* Faulty variant: the next chunk begins with the overlap, but not with the unit.
AddOverlapOnly(b, u, sep, s, blank) ==
  IF b.size = 0 THEN [b EXCEPT !.now = u.now, !.size = u.size]
  ELSE IF b.size + sep + u.size <= s.size
  THEN [b EXCEPT !.now = @ \o u.now, !.size = @ + sep + u.size]
  ELSE IF s.overlap > 0 /\ b.size > s.overlap
  THEN [chunks |-> Emit(b), now |-> <<>>, size |-> s.overlap - blank]
  ELSE [chunks |-> Emit(b), now |-> u.now, size |-> u.size]

\* A unit joins the chunk at hand if it fits, and otherwise begins the next one,
\* after the end of this one if this one is longer than the overlap.
Add(b, u, sep, s, blank) ==
  IF b.size = 0 THEN [b EXCEPT !.now = u.now, !.size = u.size]
  ELSE IF b.size + sep + u.size <= s.size
  THEN [b EXCEPT !.now = @ \o u.now, !.size = @ + sep + u.size]
  ELSE [chunks |-> Emit(b), now |-> u.now,
        size |-> u.size + IF s.overlap > 0 /\ b.size > s.overlap THEN s.overlap - blank + sep ELSE 0]

\* The last chunk is left out if it is short.
Close(b, s) == IF b.size > 0 /\ b.size >= s.min THEN Emit(b) ELSE b.chunks

SplitLargeSegment(i, paragraph, s, blanks) ==
  LET b[j \in 0..Len(paragraph)] ==
        IF j = 0 THEN Nothing
        ELSE Add(b[j - 1], Sentence(i, j, paragraph), 1, s, blanks[<<i, j>>])
  IN  Close(b[Len(paragraph)], s)

\* What is gathered before a large paragraph is a chunk, short or not.
AddParagraph(b, i, paragraph, s, blanks) ==
  IF Length(paragraph) > s.size
  THEN [Nothing EXCEPT !.chunks =
          (IF b.size > 0 THEN Emit(b) ELSE b.chunks) \o SplitLargeSegment(i, paragraph, s, blanks)]
  ELSE Add(b, Paragraph(i, paragraph), 2, s, blanks[<<i, 0>>])

BuildChunks(text, s, blanks) ==
  LET b[i \in 0..Len(text)] ==
        IF i = 0 THEN Nothing ELSE AddParagraph(b[i - 1], i, text[i], s, blanks)
  IN  Close(b[Len(text)], s)

\* The sentences of the first n paragraphs.
Until(text, n) == FlattenSeq([i \in 1..n |-> Paragraph(i, text[i]).now])

\* A text that fits is one chunk, short or not.
Chunk(text, length, s, blanks) ==
  IF text = <<>> THEN <<>>
  ELSE IF length <= s.size THEN <<[holds |-> Until(text, Len(text)), size |-> length]>>
  ELSE BuildChunks(text, s, blanks)

-----------------------------------------------------------------------------
\* Settings that relate like the defaults 1000, 200 and 100: a unit that does not
\* fit beside an overlap is no short chunk.
Proportioned(s) ==
  /\ s \in [size : Nat, overlap : Nat, min : Nat \ {0}]
  /\ s.min <= s.overlap
  /\ s.overlap + 2 + s.min <= s.size

\* What an overlap may begin with: what parts two sentences or, before another
\* paragraph, two paragraphs, for there is no more white space in a row; and
\* something is left of it, for no chunk ends with a blank.
FewBlanks(text, s, blanks) ==
  \A i \in 1..Len(text) : \A j \in 0..Len(text[i]) :
    blanks[<<i, j>>] \in {n \in 0..IF j = 0 THEN 2 ELSE 1 : n < s.overlap}

Held(chunks) == FlattenSeq([k \in DOMAIN chunks |-> chunks[k].holds])

\* Where a text may stop being held: at its end, at a last part shorter than the
\* least chunk that follows a paragraph larger than a chunk, or at once, if it
\* is so short and only its blank lines are more than a chunk.
Stops(text, length, s) ==
  {Len(text)}
  \cup {i \in 1..Len(text) - 1 : Length(text[i]) > s.size /\ Span(text, i, Len(text)) < s.min}
  \cup {i \in {0} : length > s.size /\ TextLength(text) < s.min}

Longest(text, s) == {s.size} \cup UNION {ToSet(text[i]) : i \in DOMAIN text}

\* The sentences of a text, each in one chunk and in their order, up to where the
\* text may stop; and no chunk is longer than one has to be: what does not fit
\* is one unit after an overlap.
KeepsText(text, length, s, blanks) ==
  LET chunks == Chunk(text, length, s, blanks)
  IN
  /\ \E i \in Stops(text, length, s) : Held(chunks) = Until(text, i)
  /\ \A k \in DOMAIN chunks : \E n \in Longest(text, s) : chunks[k].size <= s.overlap + 2 + n
=============================================================================
