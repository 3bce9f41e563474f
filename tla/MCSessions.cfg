CONSTANTS
  Sizes = {s1, s2}
  MaxPending = 1
  MaxOutput = 2
  Room = 2
  Sockets = {p1, p2}
  Channels = {c1, c2}
  MaxConnections = 1
  MaxSessions = 1
  Sessions = {t1, t2}
  Quota = 1
  MaxFiles = 1
  MaxDepth = 1
  MaxCrashes = 1
  Limit = 2
  MaxRead = 2
SPECIFICATION SessionsSpec
INVARIANTS ExitIsTold WorkIsPolled PlacesAccounted QuotaExact
PROPERTIES BridgeEnds CompletionIsTrue SessionEnds ReaderWakes
CHECK_DEADLOCK FALSE
