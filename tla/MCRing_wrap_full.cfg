SPECIFICATION FairPushSpec
CONSTANTS
    Producers = {p1}
    Capacity = 2
    Modulus = 8
    Start = 6
    MaxCalls = 4
    NoItem = NoItem
PROPERTIES
    AllPushesReturn
CHECK_DEADLOCK FALSE
