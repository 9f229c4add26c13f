SPECIFICATION FairSpec
CONSTANTS
    Call = {c1, c2}
    Loop = {i1, i2}
    Listener = {l1}
    HostList <- MCOneAddress
    NoHosts <- MCNoHosts
    None = None
    MaxChanges = 1
    MaxArrivals = 1
    MaxFaults = 1
    MaxSubscribes = 1
INVARIANTS
    OneLoop
    UpdatingHasOwner
    SubscribersKnow
PROPERTIES
    CallsSettle
    ClosedFallsSilent
    
CHECK_DEADLOCK FALSE
