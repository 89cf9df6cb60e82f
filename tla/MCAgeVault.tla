----------------------------- MODULE MCAgeVault -----------------------------
(* Instances of AgeVault for TLC. *)
EXTENDS AgeVault, TLC

Symmetry == Permutations(Procs) \cup Permutations(Passwords) \cup Permutations(Values)
=============================================================================
