-------------------------- MODULE MCImportSessions --------------------------
(***************************************************************************)
(* ImportSessions for TLC: two commits of a scan and a CSV session.        *)
(***************************************************************************)
EXTENDS ImportSessions, TLC

CONSTANTS t1, t2, scan, csv

Symmetry == Permutations(Commits)
=============================================================================
