----------------------------- MODULE MCAnswers ------------------------------
(***************************************************************************)
(* A small instance of Answers.  Projects have three passages embedded in   *)
(* one space, or two embedded anyhow, or two and the copy of one that a     *)
(* second run left.  Texts, and documents, are interchangeable.             *)
(***************************************************************************)
EXTENDS Answers, TLC

Real == [doc : Document, text : Text, space : {"real"}, stray : {0}, copy : {1}]

Anyhow == [doc : Document, text : Text, space : {"real", "mock"}, stray : {0, Top}, copy : {1}]

SamePlace(p, q) == p.doc = q.doc /\ p.text = q.text

Copies(p) == {[p EXCEPT !.copy = 2, !.space = k] : k \in {"real", "mock"}}

MCProjects ==
  {S \in SUBSET Real : Cardinality(S) <= 3}
    \cup {S \in {{p, q} : p, q \in Anyhow} : \A p, q \in S : SamePlace(p, q) => p = q}
    \cup UNION {{{p, q, c} : c \in Copies(p)} : p, q \in Real}

Symmetry == Permutations(Text) \cup Permutations(Document)
=============================================================================
