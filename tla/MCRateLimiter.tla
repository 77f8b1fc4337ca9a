--------------------------- MODULE MCRateLimiter ---------------------------
(* A small instance of RateLimiter for TLC.                                *)
EXTENDS RateLimiter, TLC

CONSTANTS h1, h2, k1, k2

Symmetry == Permutations(Thread) \cup Permutations(Key)
=============================================================================
