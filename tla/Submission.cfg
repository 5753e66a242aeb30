\* Every field of a document varied, and every set of published versions.
SPECIFICATION Spec
CONSTANTS
  a = a
  b = b
  missing = missing
  Jobs = {a, b}
  Documents <- MCDocuments
  Versions <- MCVersions
INVARIANTS
  CandidatesMeant
  ChosenHighest
  StagesAgree
  LimitsAsWritten
CHECK_DEADLOCK FALSE
