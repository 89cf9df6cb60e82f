SPECIFICATION Spec
CONSTANTS
  t1 = t1
  t2 = t2
  Tasks = {t1}
  NoPair = NoPair
  Nobody = Nobody
  MaxDevices = 1
  MaxEntries = 1
  MaxFaults = 1
INVARIANTS
  SkippedOnlyWhenLocked
