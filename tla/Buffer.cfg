SPECIFICATION Spec
CONSTANTS
    Names = {"a", "b", "c"}
    FieldNames = {"a", "b"}
    Tags = {1, 2}
    Mixes = {{"columns", "keys"}, {"columns", "tags"}, {"keys", "writes"}, {"columns", "writes"}, {"schema", "writes"}}
    Avoid = {"removed_column", "pending_partitioning", "second_inline_write", "not_null_after_write", "not_null_on_old_rows", "partition_after_write"}
    MaxCalls = 3
    MaxSnapshots = 3
INVARIANTS
    CommittedIsStaged
    EverySnapshotLoads
    FieldIdsNotReused
    WritesArePersisted
    NotNullHolds
    FilesMatchPartitioning
PROPERTY
    HistoryIsKept
CHECK_DEADLOCK FALSE
