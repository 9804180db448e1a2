SPECIFICATION Spec
CONSTANTS
    Tasks = {t1, t2}
    MaxSnapshots = 3
    MaxCalls = 3
INVARIANTS
    ScansAreExact
    CatalogsAreExact
    OwnCommitsVisible
    PinnedReadsPinned
SYMMETRY Symmetry
CHECK_DEADLOCK FALSE
