---------------------------- MODULE MCChatCache -----------------------------
(* Small instances of ChatCache for TLC. *)
EXTENDS ChatCache, TLC

CONSTANTS q1

\* All requests ask the same question, the case in which they share a key.
MCQuestionOf == [r \in Request |-> q1]

Symmetry == Permutations(Request) \cup Permutations(Update)
=============================================================================
