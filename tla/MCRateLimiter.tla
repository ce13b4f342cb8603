--------------------------- MODULE MCRateLimiter ---------------------------
(* Four calls on two keys, one of which must make room for the other.      *)
EXTENDS RateLimiter, TLC

Symmetry == Permutations(Attempts) \cup Permutations(Keys)
============================================================================
