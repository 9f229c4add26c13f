SPECIFICATION Spec
CONSTANTS
    f1 = f1
    f2 = f2
    f3 = f3
    c1 = c1
    c2 = c2
    Empty = Empty
    Absent = Absent
    NoFile = NoFile
    Flow <- MCTwoFlows
    Content <- MCContent
    Published <- MCNonEmpty
    Http = TRUE
    MaxCalls = 3
    MaxChanges = 2
    MaxSwitches = 0
    MaxCrashes = 1
INVARIANTS
    FallbackIsLastAnswer
PROPERTIES
    CallsSettle
CHECK_DEADLOCK FALSE
