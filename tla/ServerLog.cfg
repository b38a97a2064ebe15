CONSTANTS
    Workers = {w1, w2}
    Dest = 2
    MaxRequests = 4
SPECIFICATION FairSpec
INVARIANTS
    OneInDest
PROPERTIES
    ImplementsOutbox
    DetailNotHeldUp
    DrainEnds
CHECK_DEADLOCK FALSE
