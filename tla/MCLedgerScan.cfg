SPECIFICATION FairSpec
CONSTANTS
  Providers = {p1, p2}
  Contracts = {c1, c2}
  Master = Master
  Other = Other
  batch = 1
  MaxLT = 3
INVARIANTS RegistrationsAccounted ContractsAccounted
PROPERTIES EverythingCollected
