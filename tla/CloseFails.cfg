SPECIFICATION Spec
CONSTANTS
  MaxCalls = 1
  MaxTurns = 1
  MaxUpsets = 1
  Compressions = {"none"}
  Faults = {"close"}
CHECK_DEADLOCK FALSE
INVARIANT SequenceOnce
