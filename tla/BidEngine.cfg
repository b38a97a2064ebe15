CONSTANTS
    NWorkers = 2
    MaxRequests = 1
    Kinds = {"refused", "bid"}
    Reloaded = {"data"}
    Free = free
SPECIFICATION FairSpec
INVARIANTS
    OneTurnAfterStop
    UpdateAside
    NothingLeftBehind
PROPERTY
    ShutdownEnds
CHECK_DEADLOCK FALSE
