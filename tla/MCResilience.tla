---------------------------- MODULE MCResilience ----------------------------
(***************************************************************************)
(* Small instances of Resilience.  Each call is made once, so the number of *)
(* calls bounds the generations of the breaker too.                         *)
(***************************************************************************)
EXTENDS Resilience
=============================================================================
