------------------------ MODULE MCScheduledIndexing -------------------------
(***************************************************************************)
(* Small instances of ScheduledIndexing.  Two replicas are an owner and its  *)
(* successor, and three attempts let each come back beside the other.  The   *)
(* book cannot be fetched, which keeps runs short: what a run does with it   *)
(* is the subject of IndexRun.                                               *)
(***************************************************************************)
EXTENDS ScheduledIndexing
=============================================================================
