SPECIFICATION Spec
CONSTANTS
  MaxCalls = 2
  MaxTurns = 2
  MaxUpsets = 2
  Compressions = {"none", "zstd"}
  Faults = {"write", "sync", "link", "syncdir"}
CHECK_DEADLOCK FALSE
INVARIANTS
  AckedSurvives
  RepairedLogIsLegal
  NotStartedNeverRan
  EffectsAreOnRecord
  RepairIsFinal
  SequenceOnce
