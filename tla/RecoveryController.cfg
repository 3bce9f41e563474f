CONSTANTS
  Connections = {k}
  Unusable = Unusable
  None = None
  MaxAttempts = 2
  MaxEpoch = 1
  MaxStale = 1
SPECIFICATION Spec
INVARIANTS RoundsAreAllowed
PROPERTIES StartWanted
CHECK_DEADLOCK FALSE
