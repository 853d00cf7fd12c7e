--------------------------- MODULE MCRateLimiter ----------------------------
(***************************************************************************)
(* A small instance of RateLimiter.  Replicas are interchangeable.          *)
(***************************************************************************)
EXTENDS RateLimiter, TLC

Symmetry == Permutations(Gateway)
=============================================================================
