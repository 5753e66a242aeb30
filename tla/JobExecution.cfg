\* Two runs of a pipeline of two jobs, of which any two jobs are executed, with
\* two dependencies and two artifacts, maybe of one coordinate.
SPECIFICATION MCSpec
CONSTANTS
  Runs = {r1, r2}
  Jobs = {j1, j2}
  EXECUTED = 2
  DEPENDENCIES = 2
  ARTIFACTS = 2
  NoRow = NoRow
  MAX_FAULTS = 1
INVARIANTS
  ReportsAreTrue
  RefusedForAReason
  DependenciesInPlace
PROPERTIES
  TornHasCause
  JobsEnd
CHECK_DEADLOCK FALSE
