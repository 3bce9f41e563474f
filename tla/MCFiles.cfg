CONSTANTS
  Contexts = {c1, c2}
  None = None
  MaxInflight = 2
  MaxQueued = 2
  MaxHistory = 1
  MaxJobs = 4
  Contents = {"a", "b"}
  Chunks = 2
  Platforms = {"win32", "linux", "darwin"}
  MaxVersion = 2
SPECIFICATION FilesSpec
INVARIANTS PlacesUsed OwnContextOnly PublishedIsVerified LeftoversTold ExitsAreClean
PROPERTIES NothingClobbered NothingHangs
CHECK_DEADLOCK FALSE
