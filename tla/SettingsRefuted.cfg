SPECIFICATION Spec
CONSTANTS
  t1 = t1
  t2 = t2
  Tasks <- MCTasks
  Absent = Absent
  Setups <- MCSetups
  Keys <- MCKeys
  NoKey = 0
  Installations <- MCInstallations
  Feeds <- MCFeeds
  KeyFeeds <- MCKeyFeeds
  Answers = TRUE
\* Each of these is violated, so check them one at a time.
INVARIANTS
  AnyTwoReconstruct
\*  IssuedIsShown
\*  SchedulerFollows
\*  InstallsKept
\* PROPERTIES
\*  CooldownAlwaysHolds
\* With Answers = FALSE, a feed that does not answer:
\*  CommandsEnd
CHECK_DEADLOCK FALSE
