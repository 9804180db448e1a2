SPECIFICATION Spec
CONSTANTS
  Names = {"a", "b"}
  MaxWrites = 2
  MaxDrops = 1
  MaxJobs = 2
  PinnedHandles = TRUE
CHECK_DEADLOCK FALSE
INVARIANTS
  OnlyExposedLost
  OwnFilesReadable
PROPERTIES
  MoveIsConsistent
