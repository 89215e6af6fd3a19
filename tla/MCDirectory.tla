----------------------------- MODULE MCDirectory -----------------------------
(* Directory on small instances. *)
EXTENDS DirectoryProps, TLC

\* Every set of model values is interchangeable; no property orders them.
Symmetry == Permutations(Agents) \cup Permutations(Threads) \cup Permutations(ChallengeIds)

=============================================================================
