SPECIFICATION Spec
CONSTANTS
  MaxLives = 1
  MaxDepth = 1
  MaxSends = 1
  Pending = TRUE
CHECK_DEADLOCK FALSE
INVARIANTS
  SessionLiveWhileRunning
