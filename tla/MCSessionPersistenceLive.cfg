SPECIFICATION FairSpec
CONSTANTS
  MaxSessions = 1
  Callers = {c1, c2}
  MaxEvents = 1
  MaxUpsets = 1
  Detached = {}
CHECK_DEADLOCK FALSE
INVARIANTS
  OneReservation
PROPERTIES
  CallsSettle
