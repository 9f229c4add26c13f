SPECIFICATION FairSpec
CONSTANTS
    s1 = s1
    s2 = s2
    Server <- MCServer
    Lists <- MCLists
    Absent = Absent
    NoServer = NoServer
    Broken = Broken
    Requests = 2
    MaxTries = 3
    MaxFaults = 2
    MaxChanges = 1
INVARIANTS
    TriesEveryServer
    CasHonest
PROPERTIES
    ListFollows
CHECK_DEADLOCK FALSE
