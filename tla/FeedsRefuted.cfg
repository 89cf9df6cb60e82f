SPECIFICATION Spec
CONSTANTS
  status = status
  breach = breach
  cve = cve
  c1 = c1
  cloud = cloud
  shop = shop
  None = None
  Items <- MCItems
  SourceOf <- MCSourceOf
  Creds = {c1}
  Entry <- MCDomainEntry
  Issuers = {cloud, shop}
  Hosts <- MCHosts
  Owner <- MCOwner
  Site <- MCSite
  Domains <- MCDomains
  Under <- MCUnder
  Setups <- MCSetups
  Skips <- MCSkips
  Answers = TRUE
CHECK_DEADLOCK FALSE
\* Each of these is violated, so check them one at a time.
INVARIANTS
  MatchesStored
\*  BannerConcernsHost
