SPECIFICATION Spec
CONSTANTS
    NumServers = 2
    MaxFaults = 2
    MaxLosses = 3
    MaxResets = 1
    MaxDeaths = 1
    MaxChains = 5
    LosesEarly = FALSE
INVARIANTS
    NoZombie
    Retrying
    HeartbeatFollows
    ClosedStaysClosed
PROPERTIES
    ImplementsLink
CHECK_DEADLOCK FALSE
