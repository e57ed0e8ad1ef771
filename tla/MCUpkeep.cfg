SPECIFICATION Spec
CONSTANTS
  Providers = {1}
  Agents = {"a1", "a2"}
  MaxStorageRatesPubkeys = 1
  MaxConcurrentRates = 1
  QueryTime = 1
  RequestTime = 2
  Hosts = {"h1", "h2"}
  MaxIP = 2
  Relations = {"r"}
  Contracts = {"c"}
  ContractOf <- OneContract
  MaxSpan = 1
  Grace = 2
  MaxRun = 2
  Off = Off
INVARIANTS OnlineHasRates RatedWasOnline
PROPERTIES StatusTracks InfoCatchesUp DeletedWasOverdue NotBackedForgotten
CHECK_DEADLOCK FALSE
