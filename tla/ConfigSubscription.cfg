SPECIFICATION Spec
CONSTANTS
    l1 = l1
    l2 = l2
    NoListener = NoListener
    None = None
    Listener <- MCTwoListeners
    Text <- MCEmptySecond
    MaxVersion = 2
    MaxEditions = 1
    MaxCalls = 3
    MaxFaults = 1
    MaxDrops = 1
    Reentrant = FALSE
    ServerProbes = FALSE
SYMMETRY MCSymmetry
INVARIANTS
    TypeOK
    NoLateCallback
    NeverRegresses
    NoListenLeftBehind
CHECK_DEADLOCK FALSE
