SPECIFICATION Spec
CONSTANTS
  c1 = c1
  c2 = c2
  t1 = t1
  t2 = t2
  Creds = {c1, c2}
  Values = {v1}
  Absent = Absent
  NoText = NoText
  UserText = UserText
  Tools = {t1, t2}
  Quota = 2
  Hour = 1
  MaxNow = 2
  MaxCopies = 2
  MaxFaults = 1
\* Each of these is violated, so check them one at a time.
INVARIANTS
  AckedAlways
\* PROPERTIES
\*  LockedServerEmpty
\*  ExitClears
