CONSTANTS
    c1 = c1
    c2 = c2
    c3 = c3
    p1 = p1
    p2 = p2
    None = None
    Imps = {1, 2}
    Creatives = {c1, c2, c3}
    Policies = {p1, p2}
    Policy <- MCPolicy
    Advcat <- MCAdvcat
    DealPrice <- MCDealPrice
    Deeplinks = {c1, c3}
    Prices = {0, 1, 2}
    Requests <- MCRequests
    Gap = 0
    PmpUnchecked = FALSE
SPECIFICATION Spec
CHECK_DEADLOCK FALSE
INVARIANT DealsAtTheirPrice
