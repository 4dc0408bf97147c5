SPECIFICATION FairSpec
CONSTANTS
    Loggers = {l1, l2}
    MaxSinks = 2
    Bound = 2
    BatchSize = 1
    Builds = {TRUE, FALSE}
    Wraps = FALSE
    MaxPushes = 2
    MaxStarts = 2
    NoEntry = NoEntry
INVARIANTS
    TypeOK
    SingleConsumer
    EverySinkEveryEntry
PROPERTIES
    StopDelivers
    StopCompletes
    DeliveredWhileRunning
