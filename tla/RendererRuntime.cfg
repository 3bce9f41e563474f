CONSTANTS
  Profiles = {p, q}
  MaxRevision = 2
  MaxEdits = 1
  MaxDocs = 2
  MaxViews = 1
  MaxCalls = 1
SPECIFICATION Spec
PROPERTIES ViewIsCurrent EditsNeedConsent
CHECK_DEADLOCK FALSE
