\* The services on the in-memory adapters.
SPECIFICATION MemoryFairSpec
CONSTANTS
  Jobs = {j1, j2}
  JobTypes <- MCJobTypes
  HandlerTypes <- MCHandlerTypes
  DefaultMaxRetries = 2
  NoPolicy = NoPolicy
  NoJob = NoJob
  Malformed = Malformed
  Orders <- MCOrders
  MaxLost = 1
  Goroutines = {g1, g2}
CHECK_DEADLOCK FALSE
INVARIANTS
  MemoryTypeOK
  SharedStatusTrue
  MemoryHistoryComplete
  MemoryStatsExact
PROPERTIES
  FinalStatusStays
  MemoryImplementsLifecycle
  MemoryJobsSettle
