--------------------------- MODULE MCCatalogSync ----------------------------
(***************************************************************************)
(* Small instances of CatalogSync.  Pages of one, so that openalex, crossref*)
(* and, after a publication, arxiv have a second; two works without an      *)
(* identifier share title and authors across sources, so their keys meet;   *)
(* openalex lists an entry without a title and crossref one that is not     *)
(* accepted.  Two papers of arXiv share what is kept of their ids.  The admin  *)
(* asks for the source that publishes.                                      *)
(***************************************************************************)
EXTENDS CatalogSync

CONSTANTS w1, w2, w3, admin, scheduler

Good(w) == [work |-> w, keyed |-> TRUE, titled |-> TRUE, sound |-> TRUE, spoken |-> TRUE]

MCFirst ==
  [s \in Source |->
     CASE s = "openlibrary" -> <<[Good(w2) EXCEPT !.keyed = FALSE]>>
       [] s = "gutenberg"   -> <<Good(w1)>>
       [] s = "openalex"    -> <<Good(w2), [Good(w1) EXCEPT !.titled = FALSE]>>
       [] s = "arxiv"       -> <<Good(w1)>>
       [] s = "crossref"    -> <<[Good(w2) EXCEPT !.keyed = FALSE], [Good(w1) EXCEPT !.sound = FALSE]>>]

MCAsks == [r \in Caller |-> IF r = scheduler THEN {None} ELSE {"arxiv"}]

MCNews ==
  [s \in Source |-> IF s = "arxiv" THEN {Good(w2), Good(w3)} ELSE {}]

MCArxivId == [w \in Work |-> IF w = w2 THEN w1 ELSE w]
=============================================================================
