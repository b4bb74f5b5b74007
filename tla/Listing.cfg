\* A client reads the pages of GET /jobs from either storage.
SPECIFICATION ListingSpec
CONSTANTS
  Jobs = {j1, j2, j3}
  Filters <- MCFilters
  Limits <- MCLimits
  DefaultLimit = 2
  NoFilter = NoFilter
  NoNumber = NoNumber
  NoRow = NoRow
SYMMETRY Symmetry
CHECK_DEADLOCK FALSE
INVARIANTS
  ListingTypeOK
  WalkComplete
  WalkRepeatsNothing
