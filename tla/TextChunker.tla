---------------------------- MODULE TextChunker -----------------------------
(***************************************************************************)
(* The Python agent's TextChunker.chunk_text: cuts the stripped text of one *)
(* page into chunks of at most chunk_size characters that share overlap     *)
(* characters with their neighbours, preferring to cut at a space.  One     *)
(* step is one turn of its while loop.  A chunk is the set of positions it  *)
(* spans; what Python's negative indices do to a slice is kept.             *)
(***************************************************************************)
EXTENDS Integers

CONSTANTS
  MaxLen,     \* bound on the length of a page's text
  Settings    \* CHUNK_SIZE and CHUNK_OVERLAP pairs: records of size, overlap

ASSUME ChunkerAssumption ==
  /\ MaxLen \in Nat
  /\ Settings \subseteq [size : Nat \ {0}, overlap : Nat]

VARIABLES
  config,     \* the settings of this call
  len,        \* length of the text
  spaces,     \* positions of its spaces
  start,      \* the loop's position
  chunk,      \* the chunk appended last
  covered     \* positions that are in some chunk

chunkerVars == <<config, len, spaces, start, chunk, covered>>

\* The page's text was stripped, so it neither begins nor ends with a space.
ChunkerInit ==
  /\ config \in Settings
  /\ len \in 0..MaxLen
  /\ spaces \in SUBSET (1..len-2)
  /\ start = 0
  /\ chunk = {}
  /\ covered = {}

\* Faulty variant: the configured overlap, whatever it is.
OverlapAsConfigured == config.overlap

\* An overlap as large as the chunk is cut to half of it.
Overlap == IF config.overlap >= config.size THEN config.size \div 2 ELSE config.overlap

\* Where an index points in Python: negative ones count from the end, and all
\* are clipped to the text.
Index(i) ==
  CASE i >= 0 /\ i <= len -> i
    [] i > len            -> len
    [] i < 0 /\ len+i >= 0 -> len + i
    [] OTHER              -> 0

Slice(a, b) == Index(a)..(Index(b) - 1)

Window == Slice(start, start + config.size)

\* The last space of the window, when it lies beyond the middle of the chunk.
LateSpace(p) ==
  /\ p \in Window \cap spaces
  /\ \A q \in Window \cap spaces : q <= p
  /\ 2 * (p - Index(start)) > config.size

\* Faulty variant: the loop advances by the chunk size although it cut earlier.
CutsAtKeepingEnd(last, end) ==
  IF start + config.size < len /\ \E p \in spaces : LateSpace(p)
  THEN \E p \in spaces : LateSpace(p) /\ last = Index(start)..(p - 1) /\ end = start + config.size
  ELSE last = Window /\ end = start + config.size

\* The chunk that is cut, and the position "end" the loop goes on from.  A
\* chunk that reaches the end of the text leaves "end" beyond it.
CutsAt(last, end) ==
  IF start + config.size < len /\ \E p \in spaces : LateSpace(p)
  THEN \E p \in spaces :
         /\ LateSpace(p)
         /\ last = Index(start)..(p - 1)
         /\ end = start + (p - Index(start))
  ELSE last = Window /\ end = start + config.size

BackUp(end) == start' = end - Overlap

Candidates == {Window} \cup {Index(start)..(p - 1) : p \in spaces}

Step ==
  /\ start < len
  /\ \E last \in Candidates :
       \E end \in start..(start + config.size) :
         /\ CutsAt(last, end)
         /\ chunk' = last
         /\ covered' = covered \cup last
         /\ BackUp(end)
  /\ UNCHANGED <<config, len, spaces>>

ChunkerNext == Step

ChunkerSpec == ChunkerInit /\ [][ChunkerNext]_chunkerVars /\ WF_chunkerVars(ChunkerNext)

Done == start >= len

-----------------------------------------------------------------------------
ChunkerTypeOK ==
  /\ config \in Settings
  /\ len \in 0..MaxLen
  /\ spaces \in SUBSET (1..len-2)
  /\ start \in Int
  /\ chunk \in SUBSET (0..len-1)
  /\ covered \in SUBSET (0..len-1)

\* Settings under which the loop is known to move on: the overlap does not
\* exceed half of the chunk, beyond which a cut at a space always lies.
SafeSettings == \A s \in Settings : s.overlap >= s.size \/ 2 * s.overlap <= s.size

\* When the loop ends no character of the page is missing from the chunks,
\* wherever its spaces are: nothing of a document is lost for retrieval.
DoneCovers == Done => covered = 0..len-1

\* Every turn of the loop moves forward.
Advances == [][start' > start]_chunkerVars

\* Context is kept across a cut: the next chunk repeats the last Overlap
\* characters of this one, unless this one already ends the text.
KeepsContext ==
  [][chunk # {} /\ len - 1 \notin chunk =>
       {p \in chunk : \A q \in chunk : q < p + Overlap} \subseteq chunk']_chunkerVars

\* chunk_text returns.  Its comment on the last lines of the loop says that a
\* loop without end is prevented, and the feature's notes that an overlap that
\* is too large is adjusted.
Terminates == <>Done

-----------------------------------------------------------------------------
\* The part of the text that lies before "start" and Overlap more characters is
\* in the chunks, and the last chunk is a run of characters that ends there.
Frontier ==
  /\ start >= 0
  /\ chunk = {} => start = 0 /\ covered = {}
  /\ chunk # {} =>
       /\ start > 0
       /\ \E from \in 0..len-1, to \in 1..len :
            /\ chunk = from..(to - 1)
            /\ from + Overlap <= to \/ to = len
            /\ covered = 0..(to - 1)
            /\ to < len => start = to - Overlap
            /\ to = len => start + Overlap >= len

ChunkerIInv == ChunkerTypeOK /\ Frontier
=============================================================================
