SPECIFICATION Spec
CONSTANTS
  t1 = t1
  t2 = t2
  t3 = t3
  Tx = {t1, t2}
  SchemaNames = {"main", "s"}
  Names = {"a", "b"}
  Enabled <- RenameMenu
  MaxChanges = 1
  FileCounts = {1}
  MaxRows = 1
  MaxRetry = 1
  Isolation = "serial"
  SafeRetention = TRUE
  InitialSnapshot <- MCInitialSnapshot
  InitialLake <- MCInitialLake
SYMMETRY Symmetry
CHECK_DEADLOCK FALSE
PROPERTIES
  CommittedChangesTakeEffect
