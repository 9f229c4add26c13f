SPECIFICATION Spec
CONSTANTS
    f1 = f1
    f2 = f2
    f3 = f3
    c1 = c1
    c2 = c2
    Empty = Empty
    Absent = Absent
    NoFile = NoFile
    Flow <- MCFlow
    Content <- MCContent
    Published <- MCPublished
    Http = FALSE
    MaxCalls = 3
    MaxChanges = 2
    MaxSwitches = 1
    MaxCrashes = 1
INVARIANTS
    FallbackIsLastAnswer
    CrashShowsNoThirdContent
CHECK_DEADLOCK FALSE
