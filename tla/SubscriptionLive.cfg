SPECIFICATION Spec
CONSTANTS
    l1 = l1
    l2 = l2
    NoListener = NoListener
    None = None
    Listener <- MCOneListener
    Text <- MCEmptySecond
    MaxVersion = 2
    MaxEditions = 1
    MaxCalls = 3
    MaxFaults = 1
    MaxDrops = 0
    Reentrant = FALSE
    ServerProbes = TRUE
INVARIANTS
    ListenerSawState
PROPERTIES
    FailoverEndsWithServer
    EventuallyListening
    FailoverFollowsFile
CHECK_DEADLOCK FALSE
