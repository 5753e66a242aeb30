\* A run of two jobs that its command and another client follow or ask about, or
\* two runs that their commands follow, and a pool of two threads.
SPECIFICATION MCSpec
CONSTANTS
  Runs = {r1, r2}
  Watchers = {w1}
  r1 = r1
  r2 = r2
  watched <- WatchFirst
  Jobs = {j1, j2}
  LINES = 1
  POOL = 2
  MAX_FAULTS = 1
INVARIANTS
  ExitHonest
  AnswersConsistent
  RunGoesFirst
PROPERTY
  EveryoneServed
CHECK_DEADLOCK FALSE
