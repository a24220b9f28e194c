SPECIFICATION StoreSpec
CONSTANTS
  None = None
  a1 = a1
  a2 = a2
  restart = restart
  drift = drift
  Attempt = {a1, a2}
  Interruption = {restart, drift}
  Blocked = {drift}
  Callers <- MCCallers
  MaxEvents = 5
  MaxClock = 1
SYMMETRY MCSymmetry
INVARIANTS
  DurableBeforeVisible
  ReloadNeverRefused
  MachineMatchesStream
  ValidatorAgrees
  DriftStaysBlocked
PROPERTIES
  ImplementsAttemptLog
