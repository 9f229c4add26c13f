SPECIFICATION FairSpec
CONSTANTS
    l1 = l1
    l2 = l2
    f1 = f1
    Listener <- MCListener
    Local <- MCLocal
    NoContent = NoContent
    Unset = Unset
    NoItem = NoItem
    MaxCalls = 3
    MaxSubs = 2
    MaxChanges = 2
    MaxEdits = 1
    MaxFaults = 1
INVARIANTS
    PollingRuns
    ListenersInformed
PROPERTIES
    ListenersFollow
CHECK_DEADLOCK FALSE
