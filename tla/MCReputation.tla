----------------------------- MODULE MCReputation -----------------------------
(* Reputation on small instances. *)
EXTENDS ReputationProps, TLC

\* The threads are interchangeable.
Symmetry == Permutations(Threads)

=============================================================================
