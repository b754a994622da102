--------------------------- MODULE MCRateLimiter ---------------------------
(* RateLimiter for TLC: clients and goroutines are interchangeable. *)
EXTENDS RateLimiter, TLC

Symmetry == Permutations(Clients) \cup Permutations(Callers)
============================================================================
