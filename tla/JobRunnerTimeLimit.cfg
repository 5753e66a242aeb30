SPECIFICATION Spec
CONSTANTS
  Calls = {c1}
  Names <- JobNames
  job_name <- OneJob
  NoContainer = NoContainer
  STEPS = 2
  MAX_DURATION = 1
  LAST_START = 1
  MAX_FAULTS = 0
PROPERTY
  TimeLimit
CHECK_DEADLOCK FALSE
