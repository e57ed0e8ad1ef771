SPECIFICATION OneDownSpec
CONSTANTS
  Contracts = {"c1", "c2"}
  Providers = {1, 2}
  ProviderOf <- TwoProviders
  Endpoints = {1, 2}
  AgentReasons = {"ValidStorageProof"}
  Interval = 3
  RetryBuffer = 1
  RetryDelay = 1
INVARIANTS RetryOnOtherAgent
PROPERTIES OutageStaysHidden
