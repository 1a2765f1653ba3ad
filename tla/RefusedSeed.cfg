SPECIFICATION Spec
CONSTANTS
  MaxSessions = 2
  Callers = {}
  MaxEvents = 2
  MaxUpsets = 2
  Detached = {}
CHECK_DEADLOCK FALSE
PROPERTIES
  TeardownRetries
