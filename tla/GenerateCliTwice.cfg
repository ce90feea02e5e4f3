\* The second run of a command whose first was killed.
CONSTANTS
    KeyedModes <- CliOnly
    Count = 1
    Images = 1
    SeedLists <- OneSeed
    DiskCanFail = FALSE
    MaxReruns = 0
    MaxPrompts = 4
    MaxFaults = 1
SPECIFICATION Spec
INVARIANTS
    NoDuplicates
CHECK_DEADLOCK FALSE
