SPECIFICATION FairSpec
CONSTANTS
  MaxLives = 2
  MaxDepth = 2
  MaxSends = 1
  Pending = FALSE
CHECK_DEADLOCK FALSE
INVARIANTS
  SessionLiveWhileRunning
  NoMissedRelease
  UnloadIsQuiescent
PROPERTIES
  LifecyclesNest
  TeardownSettles
