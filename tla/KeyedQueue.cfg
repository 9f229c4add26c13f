SPECIFICATION QueueSpec
CONSTANTS
    k1 = k1
    k2 = k2
    Key <- MCKey
    Hung <- MCHung
    MaxRuns = 4
INVARIANTS
    SerialPerKey
    MapHoldsLastLive
PROPERTIES
    ImplementsSerialQueue
    EveryCallServed
CHECK_DEADLOCK FALSE
