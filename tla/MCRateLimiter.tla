--------------------------- MODULE MCRateLimiter ---------------------------
(* Small instances of RateLimiter. *)
EXTENDS RateLimiter, TLC

MCMax(k) == IF k \in Ips THEN 2 ELSE 1

Symmetry == Permutations(Emails) \cup Permutations(Handlers)
=============================================================================
