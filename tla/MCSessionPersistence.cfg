SPECIFICATION Spec
CONSTANTS
  MaxSessions = 2
  Callers = {c1}
  MaxEvents = 2
  MaxUpsets = 2
  Detached = {"create", "append", "header"}
CHECK_DEADLOCK FALSE
INVARIANTS
  OneHistory
  NothingLost
  ReservationIsCurrent
  ViewReachesTail
PROPERTIES
  RepairSparesLive
