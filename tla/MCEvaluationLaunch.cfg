SPECIFICATION LaunchSpec
CONSTANTS
  None = None
  Torn = Torn
  fa = fa
  fb = fb
  old = old
  new = new
  cell = cell
  config = config
  other = other
  Family = {fa, fb}
  Catalogue <- MCCatalogue
  Answer = {"served", "error"}
  Planning <- MCPlanning
  Evidence <- MCEvidence
  Toolchain <- MCToolchain
  Benchmark = {old, new}
  Config = {config, other}
  Cell = {cell}
  MaxCommands = 4
  MaxEdits = 1
INVARIANTS
  LaunchIsBacked
  RunIsReported
CHECK_DEADLOCK FALSE
