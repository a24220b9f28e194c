SPECIFICATION SchedSpec
CONSTANTS
  None = None
  wide = wide
  slim = slim
  plain = plain
  huge = huge
  z3 = z3
  Campaign = {wide, slim, plain, huge}
  CpuCores = 3
  MemoryUnits = 4
  MaxConcurrent = 2
  Quota <- MCQuota
  Cpu <- MCCpu
  Mem <- MCMem
  Solver <- MCSolver
  Estimate <- MCEstimate
  Usage <- MCUsage
  MaxSubmissions = 7
INVARIANTS
  LeasesFit
  ReservedExact
PROPERTIES
  AdmissionWithinQuota
CHECK_DEADLOCK FALSE
