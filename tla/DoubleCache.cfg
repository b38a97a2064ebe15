CONSTANTS
    Workers = {w1, w2, w3}
    Updater = updater
    Nobody = nobody
    MaxLoads = 5
SPECIFICATION FairSpec
INVARIANTS
    TypeOK
    NoTornRead
    SemaphoreCountsReaders
    ReleaseNeverBlocks
PROPERTIES
    ImplementsSnapshotStore
    UpdaterGetsThrough
    StopIsObserved
