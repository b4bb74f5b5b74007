\* One job with every retry policy, two goroutines of one worker, two faults.
SPECIFICATION FairSpec
CONSTANTS
  Jobs = {j1}
  JobTypes <- MCJobTypes
  HandlerTypes <- MCHandlerTypes
  DefaultMaxRetries = 2
  NoPolicy = NoPolicy
  NoJob = NoJob
  Schedulers = {s1}
  Workers = {w1}
  MaxConcurrent = 2
  Requests <- PolicyRequests
  FaultKinds = {"call", "crash", "shutdown"}
  MaxFaults = 2
CHECK_DEADLOCK FALSE
INVARIANTS
  NoneForgotten
  AttemptBudget
  AttemptsCounted
  HistoryComplete
  SettledRowsExplained
PROPERTIES
  EveryJobSettles
