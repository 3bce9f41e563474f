CONSTANTS
  Connections = {k}
  Unusable = Unusable
  None = None
  MaxAttempts = 2
  MaxEpoch = 0
  MaxStale = 1
SPECIFICATION Spec
PROPERTIES RoundsEnd
CHECK_DEADLOCK FALSE
