SPECIFICATION Spec
CONSTANTS
  t1 = t1
  t2 = t2
  Tasks <- MCTasks
  Absent = Absent
  Setups <- MCSetups
  Keys <- MCKeys
  NoKey = 0
  Installations <- MCInstallations
  Feeds <- MCFeeds
  KeyFeeds <- MCKeyFeeds
  Answers = TRUE
INVARIANTS
  CharterKept
  SettingsKept
PROPERTIES
  CooldownHolds
  CommandsEnd
CHECK_DEADLOCK FALSE
