--------------------------- MODULE MCTargetChecks ---------------------------
(* TargetChecks on small instances. *)
EXTENDS TargetChecks, TLC

Symmetric == Permutations(Sessions)
=============================================================================
