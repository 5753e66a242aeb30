\* Two runs of the same job, one failing request or kill of the engine.
SPECIFICATION FairSpec
CONSTANTS
  Calls = {c1, c2}
  Names <- JobNames
  job_name <- OneJob
  NoContainer = NoContainer
  STEPS = 2
  MAX_DURATION = 1
  LAST_START = 1
  MAX_FAULTS = 1
INVARIANTS
  OwnContainer
  SuccessSound
  NoLeak
PROPERTY
  ChattyJobsEnd
CHECK_DEADLOCK FALSE
