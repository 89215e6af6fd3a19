------------------------------ MODULE MCVouching ------------------------------
(* Vouching on small instances. *)
EXTENDS VouchingProps, TLC

\* Interchangeable sets; the agents are not, as not all of them vouch.
Symmetry == Permutations(Threads) \cup Permutations(VouchIds) \cup Permutations(Scopes)

=============================================================================
