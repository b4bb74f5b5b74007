\* A worker process crashes.
SPECIFICATION Spec
CONSTANTS
  Jobs = {j1}
  JobTypes <- MCJobTypes
  HandlerTypes <- MCHandlerTypes
  DefaultMaxRetries = 2
  NoPolicy = NoPolicy
  NoJob = NoJob
  Schedulers = {s1}
  Workers = {w1, w2}
  MaxConcurrent = 1
  Requests <- OnlyPlain
  FaultKinds = {"crash"}
  MaxFaults = 1
CHECK_DEADLOCK FALSE
INVARIANTS
  CreatedJobsSurvive
