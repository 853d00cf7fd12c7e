----------------------------- MODULE Selection ------------------------------
(***************************************************************************)
(* SelectSeq of the module Sequences with a set in the place of the test,    *)
(* written as a recursive function, so that theorems can be about it.       *)
(***************************************************************************)
EXTENDS Integers, Sequences

\* The elements of s that are in S, in their order.
Select(s, S) ==
  LET kept[n \in 0..Len(s)] ==
        IF n = 0 THEN <<>>
        ELSE IF s[n] \in S THEN Append(kept[n - 1], s[n])
        ELSE kept[n - 1]
  IN  kept[Len(s)]
=============================================================================
