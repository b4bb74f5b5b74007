\* Two scheduler processes, nothing fails.
SPECIFICATION Spec
CONSTANTS
  Jobs = {j1}
  JobTypes <- MCJobTypes
  HandlerTypes <- MCHandlerTypes
  DefaultMaxRetries = 2
  NoPolicy = NoPolicy
  NoJob = NoJob
  Schedulers = {s1, s2}
  Workers = {w1, w2}
  MaxConcurrent = 1
  Requests <- OnlyDelayed
  FaultKinds = {}
  MaxFaults = 0
CHECK_DEADLOCK FALSE
INVARIANTS
  HandledOnce
