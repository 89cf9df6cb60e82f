SPECIFICATION Spec
CONSTANTS
  t1 = t1
  t2 = t2
  v1 = v1
  v2 = v2
  Tasks = {t1, t2}
  Values = {v1, v2}
  Absent = Absent
  NoRow = NoRow
  NoHint = NoHint
  NoSubject = NoSubject
  Issuer = Issuer
  Pairs = TRUE
  Beside = FALSE
  MaxCreds = 1
  MaxShared = 1
  MaxTokens = 1
  MaxFaults = 0
  MaxDbFaults = 0
  MaxRestarts = 1
\* Each of these is violated, so check them one at a time.
INVARIANTS
  ActiveSurvivesExit
\*  HintShowsValue
\*  KilledIsErased
\*  DeletedLeavesNothing
\*  ListedCanBeDeleted
