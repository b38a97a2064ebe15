CONSTANTS
    p1 = p1
    p2 = p2
    c1 = c1
    c2 = c2
    campaign = campaign
    None = None
    Policies <- MCPolicies
    Creatives <- MCCreatives
    PolicyOf <- MCPolicyOf
    Lasting <- MCLasting
    Weak = {0}
    Ids <- MCIds
    IdsOf <- MCIdsOf
    Second = 1
SPECIFICATION FairSpec
INVARIANTS
    SoundLoadIsWhole
    MarksFollowRedis
PROPERTIES
    DeadBackEndEndsBids
    Recovers
CHECK_DEADLOCK FALSE
