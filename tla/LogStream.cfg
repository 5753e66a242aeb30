\* Two jobs of two lines each, one follower, two failed writes.
SPECIFICATION Spec
CONSTANTS
  Jobs = {j1, j2}
  LINES = 2
  Followers = {f1}
  MAX_FAULTS = 2
INVARIANTS
  SentOnceInOrder
  NothingMissed
CHECK_DEADLOCK FALSE
