------------------------------- MODULE MCDomain -------------------------------
(* DomainVerification on small instances. *)
EXTENDS DomainProps, TLC

\* Every set of model values is interchangeable; no property orders them.
Symmetry == Permutations(Threads) \cup Permutations(ChallengeIds) \cup Permutations(Hosts)

=============================================================================
