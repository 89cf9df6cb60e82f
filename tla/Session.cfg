SPECIFICATION MCSpec
CONSTANTS
  t1 = t1
  t2 = t2
  Tasks = {t1, t2}
  NoSession = NoSession
  MaxTokens = 3
  MaxFaults = 2
  Apps = {a1, a2}
  Emails = {e1}
  Accounts = {p1}
  Nobody = Nobody
  MaxTries = 3
  MaxMoves = 1
  MaxCuts = 1
SYMMETRY Symmetry
INVARIANTS
  SecretsDropped
  SessionGone
  SameKeyEverywhere
  LoneSignInSucceeds
