------------------------- MODULE MCExtensionBridge -------------------------
(***************************************************************************)
(* ExtensionBridge for TLC: tasks are interchangeable; a behaviour either   *)
(* draws several keys or pushes several contexts.                          *)
(***************************************************************************)
EXTENDS ExtensionBridge, TLC

CONSTANTS t1, t2

MCBounds == {[keys |-> 3, pushes |-> 0], [keys |-> 1, pushes |-> 3]}

Symmetry == Permutations(Tasks)
=============================================================================
