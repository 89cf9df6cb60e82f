SPECIFICATION Spec
CONSTANTS
  t1 = t1
  t2 = t2
  v1 = v1
  v2 = v2
  Tasks = {t1, t2}
  Values = {v1}
  Absent = Absent
  NoRow = NoRow
  NoHint = NoHint
  NoSubject = NoSubject
  Issuer = Issuer
  Pairs = TRUE
  Beside = TRUE
  MaxCreds = 2
  MaxShared = 1
  MaxTokens = 2
  MaxFaults = 1
  MaxDbFaults = 1
  MaxRestarts = 1
SYMMETRY Symmetry
INVARIANTS
  ActiveHasValue
  KillsConfirmed
  AloneKilledIsErased
