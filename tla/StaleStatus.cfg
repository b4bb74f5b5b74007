\* One scheduler process, two goroutines, nothing fails.
SPECIFICATION Spec
CONSTANTS
  Jobs = {j1}
  JobTypes <- MCJobTypes
  HandlerTypes <- MCHandlerTypes
  DefaultMaxRetries = 2
  NoPolicy = NoPolicy
  NoJob = NoJob
  Schedulers = {s1}
  Workers = {w1}
  MaxConcurrent = 2
  Requests <- OnlyPlain
  FaultKinds = {}
  MaxFaults = 0
CHECK_DEADLOCK FALSE
INVARIANTS
  FinalStatusTracked
