CONSTANTS
  Profiles = {p1, p2}
  None = None
SPECIFICATION Spec
INVARIANTS ServesOnlyIfWanted LoginNotForgotten
PROPERTIES ProfilesStayApart SlotFreed
CHECK_DEADLOCK FALSE
