SPECIFICATION Spec
CONSTANTS
    Loggers = {l1, l2}
    MaxSinks = 1
    Bound = 2
    BatchSize = 2
    Builds = {TRUE}
    Wraps = TRUE
    MaxPushes = 2
    MaxStarts = 1
    NoEntry = NoEntry
    Levels = {1, 2}
    ActiveLevel = 1
    EveryN = 2
    Sites = {"plain", "once", "every_n"}
    MaxGates = 2
SYMMETRY Symmetry
INVARIANTS
    StartedIsRunning
    IdsAccounted
    PerThreadOrder
    DestroyDrains
    SitesLimit
CHECK_DEADLOCK FALSE
