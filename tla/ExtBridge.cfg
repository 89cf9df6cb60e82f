SPECIFICATION Spec
CONSTANTS
  t1 = t1
  t2 = t2
  Tasks = {t1, t2}
  Default = default
  Exts = {default}
  Ttls = {1, 2}
  Capacity = 2
  Bounds <- MCBounds
  MaxFaults = 1
SYMMETRY Symmetry
INVARIANTS
  ChangeEndsSessions
  QueueHasLatest
PROPERTIES
  OnlySettingsEndSessions
