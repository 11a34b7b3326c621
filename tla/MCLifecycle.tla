---------------------------- MODULE MCLifecycle ----------------------------
(* Two administrators, definitions that say one of two things.             *)
EXTENDS Lifecycle, TLC

Symmetry == Permutations(Admin) \cup Permutations(Content)
=============================================================================
