\* One provider with two bags, two agents.
SPECIFICATION Spec
CONSTANTS
  Contracts = {"c1", "c2"}
  Providers = {1}
  ProviderOf <- OneProvider
  Endpoints = {1, 2}
  AgentReasons = {"ValidStorageProof", "CantGetPiece", "InvalidHeader"}
  Interval = 3
  RetryBuffer = 1
  RetryDelay = 1
INVARIANTS StatusMatchesReasons
PROPERTIES VerdictsPublished ImplementsPolicy
