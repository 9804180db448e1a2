SPECIFICATION Spec
CONSTANTS
    Names = {"a", "b", "c"}
    FieldNames = {"a", "b"}
    Tags = {1, 2}
    Mixes = {{"writes"}}
    Avoid = {"removed_column", "pending_partitioning", "not_null_after_write", "not_null_on_old_rows", "partition_after_write"}
    MaxCalls = 3
    MaxSnapshots = 3
INVARIANT
    WritesArePersisted
CHECK_DEADLOCK FALSE
