SPECIFICATION XlirSpec
CONSTANTS
  None = None
  W = 3
  Addresses = 2
  Table <- MCTable
  MaxNodes = 10
  Proposal <- MCProposal
  Depth <- MCDepth
  Question <- MCQuestion
  CampaignElapsed = {0, 2}
  CampaignDeadline = 2
INVARIANTS
  LoweredAgrees
  SolverShows
CHECK_DEADLOCK FALSE
