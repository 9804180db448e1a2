SPECIFICATION FairSpec
CONSTANTS
  Writers = {w1}
  MaxFiles = 2
  MaxSnapshots = 3
  MaxCrashes = 1
  Retention = 1
  Lease = 1
CHECK_DEADLOCK FALSE
INVARIANTS
  FilesAvailable
PROPERTIES
  OrphansSpareScheduled
  CleanupKeepsTrack
  ScheduledGoAway
  OrphansGoAway
