------------------------------ MODULE MCVouchGraph ------------------------------
(* VouchGraph on a small instance. *)
EXTENDS VouchGraphProps, TLC

\* Interchangeable sets: here every agent vouches.
Symmetry == Permutations(Agents) \cup Permutations(VouchIds)

=============================================================================
