SPECIFICATION RelaySpec
CONSTANTS
  Apps = {a1, a2}
  Emails = {e1}
  Accounts = {p1}
  Nobody = Nobody
  MaxTries = 3
  MaxMoves = 0
  MaxCuts = 1
INVARIANTS
  PasskeysUsable
CHECK_DEADLOCK FALSE
