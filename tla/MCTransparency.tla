---------------------------- MODULE MCTransparency ----------------------------
(* Transparency on small instances. *)
EXTENDS TransparencyProps, TLC

=============================================================================
