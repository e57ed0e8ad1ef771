\* One bag, two agents.
SPECIFICATION EventsFairSpec
CONSTANTS
  Contracts = {"c1"}
  Providers = {1}
  ProviderOf <- OneProvider
  Endpoints = {1, 2}
  AgentReasons = {"ValidStorageProof", "InvalidHeader"}
  Interval = 3
  RetryBuffer = 1
  RetryDelay = 1
INVARIANTS TypeOK ErrorHasEvent
PROPERTIES CycleEnds
