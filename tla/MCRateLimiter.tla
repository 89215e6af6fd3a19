----------------------------- MODULE MCRateLimiter -----------------------------
(* RateLimiter on a small instance. *)
EXTENDS RateLimiterProps, TLC

\* Interchangeable set.
Symmetry == Permutations(Threads)

=============================================================================
