SPECIFICATION Spec
CONSTANTS
  a = a
  b = b
  missing = missing
  Jobs = {a, b}
  Documents <- MCDocuments
  Versions <- MCVersions
INVARIANT
  SelectedHighest
CHECK_DEADLOCK FALSE
