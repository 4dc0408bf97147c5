SPECIFICATION Spec
CONSTANTS
    DayLength = 2
    max_days = 1
    MaxTime = 7
    MaxWrites = 3
    MaxFaults = 1
    MaxSets = 1
    MaxRestarts = 1
INVARIANTS
    LostOnlyByFailure
    DaysInOrder
    FilesBounded
PROPERTIES
    EntryInFileOfItsDay
CHECK_DEADLOCK FALSE
