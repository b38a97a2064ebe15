CONSTANTS
    a = a
    b = b
    c = c
    Servers <- MCServers
    LastSlot = 3
    Layouts <- MCLayouts
    MaxEvents = 4
SPECIFICATION FairSpec
INVARIANTS
    AnsweredMeansStored
    SurvivesResharding
PROPERTIES
    EveryCallReturns
    FlagsRecover
CHECK_DEADLOCK FALSE
