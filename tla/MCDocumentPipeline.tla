------------------------- MODULE MCDocumentPipeline -------------------------
(* Small instances of DocumentPipeline for TLC. *)
EXTENDS DocumentPipeline, TLC

CONSTANTS d1, p1

\* Submissions of one document of one project, the case in which runs meet.
MCProjectOf  == [j \in Job |-> p1]
MCDocumentOf == [j \in Job |-> d1]

Symmetry == Permutations(Worker)
=============================================================================
