\* Every pipeline of four jobs with needs lists of up to two entries.
SPECIFICATION FairPlanSpec
CONSTANTS
  N = 4
  MAX_NEEDS = 2
INVARIANTS
  RaisesExactlyOnCycles
  PlanIsGreedy
PROPERTY
  Terminates
