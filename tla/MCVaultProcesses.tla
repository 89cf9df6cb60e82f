--------------------------- MODULE MCVaultProcesses ---------------------------
(***************************************************************************)
(* VaultProcesses for TLC.  The clipboard and the server have no variable  *)
(* in common with each other or with what adds and runs, except the files, *)
(* which they only read: states that mix them are not explored.            *)
(***************************************************************************)
EXTENDS VaultProcesses, TLC

CONSTANTS c1, c2, t1, t2

MCSymmetry == Permutations({t1, t2}) \cup Permutations({c1, c2})

MCApart ==
  /\ up => copied = 0 /\ \A t \in Tools : cli[t] = Idle
  /\ copied > 0 => \A t \in Tools : cli[t].step \in {"idle", "reveal", "wait", "clear"}

=============================================================================
