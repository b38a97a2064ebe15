CONSTANTS
    Workers = {w1, w2}
    p1 = p1
    p2 = p2
    Policies <- MCPolicies
    Holes <- MCHoles
    Prices = {2}
    MaxRecords = 3
    MaxDay = 2
    None = none
SPECIFICATION RCFairSpec
INVARIANTS
    RCTypeOK
    CountsAgree
PROPERTIES
    EventuallyTried
    DrainEnds
CHECK_DEADLOCK FALSE
