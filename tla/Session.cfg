SPECIFICATION FairSpec
CONSTANTS
    Clients = {c1, c2}
    Values = {1}
    Scopes = {"global"}
    MaxUpdates = 3
    MaxCrashes = 1
INVARIANTS
    DataUpgradedOnce
    NothingHalfDone
    SessionsAreLatest
    OptionsInOrder
PROPERTIES
    UpgradeCompletes
CHECK_DEADLOCK FALSE
