\* Two scheduler processes promote the same delayed job; one fault of any kind.
SPECIFICATION Spec
CONSTANTS
  Jobs = {j1}
  JobTypes <- MCJobTypes
  HandlerTypes <- MCHandlerTypes
  DefaultMaxRetries = 2
  NoPolicy = NoPolicy
  NoJob = NoJob
  Schedulers = {s1, s2}
  Workers = {w1}
  MaxConcurrent = 1
  Requests <- OnlyDelayed
  FaultKinds = {"call", "crash", "shutdown"}
  MaxFaults = 1
SYMMETRY ProcessSymmetry
CHECK_DEADLOCK FALSE
INVARIANTS
  NoneForgotten
  NoEarlyBurial
  CopiesBounded
