SPECIFICATION Spec
CONSTANTS
  Names = {"a", "b"}
  MaxWrites = 2
  MaxDrops = 1
  MaxJobs = 1
  PinnedHandles = FALSE
CHECK_DEADLOCK FALSE
INVARIANTS
  NoWriteLost
