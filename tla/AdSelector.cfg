CONSTANTS
    Creatives = {c1, c2, c3}
    Lengths = {1, 2}
SPECIFICATION Spec
INVARIANTS
    TypeOK
    FoundOrExcluded
    NoneMissed
CHECK_DEADLOCK FALSE
