SPECIFICATION Spec
CONSTANTS
    NumServers = 1
    MaxFaults = 0
    MaxLosses = 1
    MaxResets = 0
    MaxDeaths = 0
    MaxChains = 1
    LosesEarly = TRUE
INVARIANTS
    NoZombie
CHECK_DEADLOCK FALSE
