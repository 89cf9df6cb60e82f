SPECIFICATION PairingSpec
CONSTANTS
  aa = aa
  bb = bb
  cc = cc
  uu = uu
  ww = ww
  Devices = {aa, bb, cc}
  Users = {uu, ww}
  Pins = {1}
  None = None
  Flows = {1, 2, 3}
  MaxKeys = 4
  Setups <- MCSetups
CHECK_DEADLOCK FALSE
PROPERTIES
  Completes
INVARIANTS
  PairsOnce
  AccountInVault
