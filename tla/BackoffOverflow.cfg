\* Exponential backoff until the product overflows.
SPECIFICATION RetryFairSpec
CONSTANTS
  Width = 8
  Second = 4
  Environments <- MCEnvironments
  Policies <- PatientPolicies
  NoNumber = NoNumber
  DefaultRetries = 3
  DefaultBase = 2
  DefaultMax = 12
  Start = 21
  MaxNow = 45
CHECK_DEADLOCK FALSE
PROPERTIES
  EveryRetryPromoted
