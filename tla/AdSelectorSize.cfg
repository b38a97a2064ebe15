CONSTANTS
    Creatives = {c1, c2, c3}
    Lengths = {1, 2}
SPECIFICATION Spec
INVARIANT
    FoundFits
CHECK_DEADLOCK FALSE
