SPECIFICATION FairSpec
CONSTANTS
    Loggers = {l1, l2}
    MaxSinks = 1
    Bound = 2
    BatchSize = 1
    Builds = {TRUE}
    Wraps = FALSE
    MaxPushes = 2
    MaxStarts = 1
    NoEntry = NoEntry
PROPERTIES
    StopDrainsRing
