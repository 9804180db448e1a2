SPECIFICATION FairSpec
CONSTANTS
  t1 = t1
  t2 = t2
  t3 = t3
  Tx = {t1, t2, t3}
  SchemaNames = {"main"}
  Names = {"a"}
  Enabled <- WriteMenu
  MaxChanges = 1
  FileCounts = {1}
  MaxRows = 1
  MaxRetry = 1
  Isolation = "serial"
  SafeRetention = TRUE
  InitialSnapshot <- MCInitialSnapshot
  InitialLake <- MCInitialLake
CHECK_DEADLOCK FALSE
INVARIANTS
  TypeOK
  ExceededMeansContention
  CheckSeesAllChanges
PROPERTIES
  CommitsAreLinear
  CommitReturns
