-------------------------- MODULE MCSecurityChecks --------------------------
(***************************************************************************)
(* SecurityChecks for TLC: two checks, two credentials, a weak and a       *)
(* leaked value.                                                           *)
(***************************************************************************)
EXTENDS SecurityChecks, TLC

CONSTANTS t1, t2, c1, c2, weak, leaked

Symmetry == Permutations(Tasks)
=============================================================================
