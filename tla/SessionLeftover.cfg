SPECIFICATION Spec
CONSTANTS
  t1 = t1
  t2 = t2
  Tasks = {t1, t2}
  NoSession = NoSession
  MaxTokens = 2
  MaxFaults = 2
SYMMETRY Symmetry
INVARIANTS
  LockDropsSession
