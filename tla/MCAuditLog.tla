----------------------------- MODULE MCAuditLog -----------------------------
(***************************************************************************)
(* AuditLog for TLC: tasks are interchangeable.                            *)
(***************************************************************************)
EXTENDS AuditLog, TLC

CONSTANTS t1, t2

Symmetry == Permutations(Tasks)
=============================================================================
