SPECIFICATION FairSpec
CONSTANTS
    k1 = k1
    s1 = s1
    s2 = s2
    Key <- MCKey
    Server <- MCServer
    Dead <- MCDead
    Lists <- MCLists
    Blank = Blank
    MaxCalls = 3
    MaxFaults = 1
    MaxChanges = 1
INVARIANTS
    AsksEveryServer
PROPERTIES
    BeatsGoOn
    InstancesFollow
CHECK_DEADLOCK FALSE
