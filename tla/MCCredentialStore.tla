-------------------------- MODULE MCCredentialStore --------------------------
(***************************************************************************)
(* CredentialStore for TLC: tasks and values are interchangeable.          *)
(***************************************************************************)
EXTENDS CredentialStore, TLC

CONSTANTS t1, t2, v1, v2

Symmetry == Permutations(Tasks) \cup Permutations(Values)
=============================================================================
