CONSTANTS
  Packages <- MCPackages
  Versions <- MCVersions
  Constraints <- MCConstraints
  MAX_DEPS = 2
  Pipeline = 0
SPECIFICATION Spec
INVARIANTS LockfileSound LockedIsHighest
PROPERTIES CyclesAreReal ConflictsAreGreedy Terminates
CHECK_DEADLOCK FALSE
