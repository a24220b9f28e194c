SPECIFICATION FairRunSpec
CONSTANTS
  None = None
  a = a
  b = b
  N = 3
  MaxRetries = 2
  Backoff <- MCBackoff
  RequestTimeout = 2
  Deadline = 4
  Overrun = 1
  MayCancel = TRUE
  Candidate <- MCCandidate
  Reply <- MCReply
INVARIANTS
  ProposalsOnce
  CallInDeadline
  OneRequestAfterCancel
PROPERTY
  RunEnds
CHECK_DEADLOCK FALSE
