SPECIFICATION SinksSpec
CONSTANTS
    max_files = 2
    max_file_size = 4
    Lens = {1, 3, 4}
    MaxWrites = 4
    MaxCrashes = 1
    MaxFaults = 1
    Absent = Absent
    capacity = 2
    MaxEntries = 5
    MaxDumps = 1
    Torn = Torn
INVARIANTS
    TypeOK
    SizeTracked
    EntriesInOrder
    NoHole
    FilesBounded
    MemoryTypeOK
    HoldsMostRecent
    DumpIsSnapshot
CHECK_DEADLOCK FALSE
