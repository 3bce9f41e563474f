CONSTANTS
  Sessions = {s1, s2}
  MaxCalls = 4
SPECIFICATION Spec
INVARIANTS PortIsOwned HistoryFollowsSessions
PROPERTIES ImplementsProxyGate OperationsEnd
CHECK_DEADLOCK FALSE
