\* One scheduler process, two worker processes, two jobs, one fault of any kind.
SPECIFICATION Spec
CONSTANTS
  Jobs = {j1, j2}
  JobTypes <- MCJobTypes
  HandlerTypes <- MCHandlerTypes
  DefaultMaxRetries = 2
  NoPolicy = NoPolicy
  NoJob = NoJob
  Schedulers = {s1}
  Workers = {w1, w2}
  MaxConcurrent = 1
  Requests <- PlainAndDelayed
  FaultKinds = {"call", "crash", "shutdown"}
  MaxFaults = 1
SYMMETRY Symmetry
CHECK_DEADLOCK FALSE
INVARIANTS
  TypeOK
  PersistedFirst
  NoneForgotten
  SingleCopy
  HandledOnce
  AttemptBudget
  NoEarlyBurial
  TerminalRowsTrue
  HistoryComplete
PROPERTIES
  NoRunAfterSettled
  ImplementsLifecycle
