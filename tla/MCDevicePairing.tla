-------------------------- MODULE MCDevicePairing --------------------------
(***************************************************************************)
(* DevicePairing for TLC: a signed-in device, a new one, and a third that  *)
(* is new as well or belongs to another user.                              *)
(***************************************************************************)
EXTENDS DevicePairing, TLC

CONSTANTS aa, bb, cc, uu, ww

Users3(x, y, z) == aa :> x @@ bb :> y @@ cc :> z
MCSetup(ds, us, n, x, y) ==
  [devices |-> ds, users |-> us, keys |-> n, faults |-> x, edits |-> y]
MCSetups == {MCSetup({aa, bb}, Users3(uu, None, None), 4, 0, 0),
             MCSetup({aa, bb}, Users3(uu, None, None), 3, 0, 2),
             MCSetup({aa, bb, cc}, Users3(uu, None, ww), 3, 0, 1),
             MCSetup({aa, bb, cc}, Users3(uu, None, None), 3, 1, 0),
             MCSetup({aa, bb, cc}, Users3(uu, None, None), 4, 0, 1)}
=============================================================================
