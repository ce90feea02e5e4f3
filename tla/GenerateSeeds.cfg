\* A row whose state file is lost after its first job.
CONSTANTS
    KeyedModes <- RowOnly
    Count = 2
    Images = 1
    SeedLists <- TwoSeeds
    DiskCanFail = TRUE
    MaxReruns = 1
    MaxPrompts = 8
    MaxFaults = 3
SPECIFICATION Spec
INVARIANTS
    SeedsAreCounted
CHECK_DEADLOCK FALSE
