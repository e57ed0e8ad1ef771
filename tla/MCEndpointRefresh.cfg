SPECIFICATION FairSpec
CONSTANTS
  Providers = {"p"}
  IPs = {1, 2}
  Homes <- TwoHosts
  NoEntry = NoEntry
INVARIANTS KnownNeverFails
PROPERTIES CleanCycleClears EndpointsConverge
