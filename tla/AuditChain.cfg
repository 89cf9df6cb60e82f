SPECIFICATION Spec
CONSTANTS
  t1 = t1
  t2 = t2
  Tasks = {t1, t2}
  NoPair = NoPair
  Nobody = Nobody
  MaxDevices = 2
  MaxEntries = 3
  MaxFaults = 2
SYMMETRY Symmetry
INVARIANTS
  AllValid
  NoFork
PROPERTIES
  DeviceKept
