SPECIFICATION GraphSpec
CONSTANTS
  i1 = i1
  i2 = i2
  p1 = p1
  p2 = p2
  d1 = d1
  d2 = d2
  u1 = u1
  u2 = u2
  Issuers = {i1, i2}
  Projects = {p1, p2}
  Deploys = {d1, d2}
  Usages = {u1, u2}
  Creds = {1, 2, 3}
  IssuerOf <- MCIssuerOf
  Passwords = {1, 3}
  Starts <- MCStarts
  Visible = 1
  MaxEdits = 3
  MaxGraphFaults = 1
INVARIANTS
  GraphHeld
  NothingMissed
