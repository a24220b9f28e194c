SPECIFICATION FairSpec
CONSTANTS
  None = None
  one = one
  two = two
  huge = huge
  big = big
  restart = restart
  drift = drift
  Campaign = {one, two, big, huge}
  CpuCores = 2
  MemoryUnits = 2
  MaxConcurrent = 2
  Quota <- MCQuota
  Cpu <- MCCpu
  Mem <- MCMem
  Solver <- MCSolver
  Estimate <- MCEstimate
  Usage <- MCUsage
  MaxSubmissions = 0
  Plan <- MCPlan
  Tries = {1, 2}
  Interruption = {restart, drift}
  Blocked = {drift}
  WorkerRestart = restart
  MaxResumes = 1
  ResumeUncertain = TRUE
  RecoverFirst = {TRUE, FALSE}
  MaxBatches = 2
  MaxMishaps = 1
INVARIANTS
  TablesAgree
  LogIsTold
PROPERTIES
  RunnerImplementsLog
  TerminalNeverRerun
  BatchEnds
  InFlightIsSettled
CHECK_DEADLOCK FALSE
