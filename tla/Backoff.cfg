\* Retry times of many policies, overflow included.
SPECIFICATION RetryFairSpec
CONSTANTS
  Width = 8
  Second = 4
  Environments <- MCEnvironments
  Policies <- MCPolicies
  NoNumber = NoNumber
  DefaultRetries = 3
  DefaultBase = 2
  DefaultMax = 12
  Start = 21
  MaxNow = 45
CHECK_DEADLOCK FALSE
INVARIANTS
  RetryTypeOK
  BackoffExact
  PromotedInTime
PROPERTIES
  DueRetryPromoted
