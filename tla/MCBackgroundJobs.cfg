SPECIFICATION FairSpec
CONSTANTS
  Owners = {a, b}
  Waits = {w}
  MaxJobs = 2
  maxConcurrentJobsPerOwner = 1
  a = a
  b = b
  w = w
CHECK_DEADLOCK FALSE
INVARIANTS
  CompletionHeard
  TeardownTakesAll
  ObserverIsCurrent
PROPERTIES
  JobsSettle
