\* Every needs graph over four jobs, two workers.
SPECIFICATION FairSpec
CONSTANTS
  Jobs = {j1, j2, j3, j4}
  CONCURRENCY_LIMIT = 2
INVARIANTS
  StartsAfterNeeds
  SkipJustified
  VerdictSound
  AllAccounted
  QuietWhenOver
  IInv
PROPERTIES
  ViewSpec
  RunSettles
