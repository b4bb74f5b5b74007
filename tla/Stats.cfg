\* GET /queues/stats while one scheduler and one worker process run.
SPECIFICATION StatsSpec
CONSTANTS
  Jobs = {j1, j2}
  JobTypes <- MCJobTypes
  HandlerTypes <- MCHandlerTypes
  DefaultMaxRetries = 2
  NoPolicy = NoPolicy
  NoJob = NoJob
  Schedulers = {s1}
  Workers = {w1}
  MaxConcurrent = 2
  Requests <- MCRequests
  FaultKinds = {}
  MaxFaults = 0
SYMMETRY Symmetry
CHECK_DEADLOCK FALSE
INVARIANTS
  ActiveCountedOnce
