SPECIFICATION FairSpec
CONSTANTS
  Providers = {p1, p2}
  MaxReports = 3
  ttl = 6
  successInterval = 3
  failureInterval = 1
  MaxCall = 1
INVARIANTS ReportsAccounted ExpiryExcused
PROPERTIES ReportsSettled
