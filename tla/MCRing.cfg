SPECIFICATION Spec
CONSTANTS
    Producers = {p1, p2, p3}
    Capacity = 2
    Modulus = 8
    Start = 3
    MaxCalls = 2
    NoItem = NoItem
INVARIANTS
    TypeOK
    RingInv
    NoDataRace
PROPERTIES
    RefusedOnlyWhenFull
    ImplementsQueue
    PushReturns
    ClaimedIsPopped
CHECK_DEADLOCK FALSE
