CONSTANTS
    Workers = {w1, w2}
    Batch = 2
    MaxSize = 3
    HdfsLog = TRUE
    MaxMessages = 3
    MaxLines = 2
    MaxHours = 2
SPECIFICATION FairSpec
INVARIANTS
    BlocksJoinUp
    FilesBounded
    ClosedMeansFinal
PROPERTIES
    ImplementsOutbox
    EventuallyWritten
CHECK_DEADLOCK FALSE
