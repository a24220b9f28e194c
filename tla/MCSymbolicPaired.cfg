CONSTANTS
  Message <- MCMessage
  Authorized <- MCMessage
  Candidate <- MCMessage
  None = None
  MaxTransactions = 7
  MaxChannel = 6
  MaxPending = 3
  Profiles <- MCProfiles
SPECIFICATION SymbolicSpec
INVARIANT
  EveryMoveIsEncoded
PROPERTY SymbolicImplementsFixture
CHECK_DEADLOCK FALSE
