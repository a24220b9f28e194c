SPECIFICATION SearchSpec
CONSTANTS
  None = None
  Message <- MCMessage
  Authorized <- MCMessage
  Candidate <- MCMessage
  MaxTransactions = 4
  MaxChannel = 4
  MaxPending = 3
  Profiles <- MCProfiles
  Predicate <- MCPredicate
  Violates <- MCViolates
  Raises <- MCRaises
  QueryTimeout = 2
  CampaignDeadline = 3
  CampaignElapsed = {0, 2, 3}
  MaxStates = 60
  MaxModels = 60
  MayCancel = TRUE
  MaxHistory = 2
INVARIANTS
  CompleteVerdictsHold
  SatIsWitnessed
CHECK_DEADLOCK FALSE
