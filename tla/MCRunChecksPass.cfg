SPECIFICATION Spec
CONSTANTS
  Contracts = {"c1", "c2", "c3", "c4"}
  Providers = {1, 2, 3}
  ProviderOf <- MCProviderOf
  Endpoints = {1, 2}
  TotalTime = 1
  RpcTime = 4
  LokiTime = 1
  InterBagDelay = 1
  MaxConcurrentProviders = 1
  InTimeReasons = {"ValidStorageProof", "ProofCheckFailed"}
INVARIANTS LoopAgrees ShardsBalanced AnsweredUnlessLost CutIsDeferred PassOutcome
PROPERTIES PassEnds
CHECK_DEADLOCK FALSE
