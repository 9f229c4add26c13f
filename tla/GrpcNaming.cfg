SPECIFICATION FairSpec
CONSTANTS
    k1 = k1
    w1 = w1
    w2 = w2
    t1 = t1
    Key <- MCKey
    Info <- MCInfo
    None = None
    Topic <- MCTopic
    MaxCalls = 3
    MaxFaults = 1
    MaxSessions = 2
INVARIANTS
    ServerHoldsRegistrations
    SubscriptionsHeld
PROPERTIES
    ServerFollows
CHECK_DEADLOCK FALSE
