SPECIFICATION Spec
CONSTANTS
  Procs = {p1, p2}
  Passwords = {pw1, pw2}
  Paths = {k1}
  Values = {v1}
  Absent = Absent
  NoFile = NoFile
  Torn = Torn
  NoHeader = NoHeader
  NoKey = NoKey
  NoEnvelope = NoEnvelope
  Nobody = Nobody
  KeepBackups = 1
  MaxSalt = 2
  MaxFaults = 1
SYMMETRY Symmetry
\* A torn vault.age keeps the application from starting.
CHECK_DEADLOCK FALSE
INVARIANTS
  Recoverable
  CleanMeansSaved
  RetiredStaysRetired
  EnvelopeOpensFile
PROPERTIES
  ImplementsStore
