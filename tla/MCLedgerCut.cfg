SPECIFICATION DeadlineSpec
CONSTANTS
  Providers = {p1, p2}
  Contracts = {c1}
  Master = Master
  Other = Other
  batch = 1
  MaxLT = 3
INVARIANTS CutIsCollectedLater
