SPECIFICATION ChecksSpec
CONSTANTS
  t1 = t1
  t2 = t2
  c1 = c1
  c2 = c2
  weak = weak
  leaked = leaked
  Tasks = {t1, t2}
  Credentials = {c1, c2}
  Values = {weak, leaked}
  Weak = {weak}
  Leaked = {leaked}
  Insecure = {c1}
  Unguarded = {c2}
  Unread = Unread
  MaxRuns = 2
  MaxEdits = 2
  MaxFaults = 1
CHECK_DEADLOCK FALSE
PROPERTIES
  UnreadKept
