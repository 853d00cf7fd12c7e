-------------------------- MODULE MCIndexRun ----------------------------
(***************************************************************************)
(* Small instances of IndexRun.  Books share nothing but the limit of a run *)
(* and the tracker, so one book and two runners show what runs do to each   *)
(* other, and two books with a limit of one what books do to each other.    *)
(***************************************************************************)
EXTENDS IndexRun
=============================================================================
