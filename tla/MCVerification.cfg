SPECIFICATION VerificationSpec
CONSTANTS
  None = None
  Torn = Torn
  p1 = p1
  p2 = p2
  f1 = f1
  f2 = f2
  f3 = f3
  w1 = w1
  w2 = w2
  own = own
  other = other
  Process <- MCProcess
  Candidate <- MCCandidate
  Datasets <- MCDatasets
  Trace <- MCTrace
  Form <- MCForm
  Witness <- MCWitness
  Config <- MCConfig
  SearchAnswer <- MCSearchAnswer
  CheckAnswer <- MCCheckAnswer
  ReplayAnswer <- MCReplayAnswer
  MaxStarts <- MCMaxStarts
INVARIANTS
  FindingIsShown
  ReportIsTrue
  FileLoads
PROPERTY
  EntriesStay
SYMMETRY Commands
CHECK_DEADLOCK FALSE
