SPECIFICATION FairDriverSpec
CONSTANTS
  Absent = Absent
  c1 = c1
  c2 = c2
  Plan <- MCPlan
  SlotCount = 2
  MaxStarts = 3
  MaxCrashes = 2
  MaxFailures = 1
INVARIANTS
  ExitValidates
  SegmentsAreMethodRuns
  RowsBackedByLog
PROPERTY
  ReportEventually
CHECK_DEADLOCK FALSE
