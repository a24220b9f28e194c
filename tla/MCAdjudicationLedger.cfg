SPECIFICATION LedgerSpec
CONSTANTS
  NoRecord = NoRecord
  f1 = f1
  f2 = f2
  ann = ann
  bob = bob
  eve = eve
  Finding = {f1, f2}
  Person = {ann, bob, eve}
  Verdict <- MCVerdict
  MaxLabels = 4
  MaxRelabels = 2
  MaxMapped = 1
SYMMETRY Symmetry
INVARIANTS
  ConsensusStands
  RoundTrip
CHECK_DEADLOCK FALSE
