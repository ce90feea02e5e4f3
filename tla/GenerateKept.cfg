\* A claimed row whose state file is never lost: every job comes to an end.
CONSTANTS
    KeyedModes <- RowOnly
    Count = 2
    Images = 1
    SeedLists <- TwoSeeds
    DiskCanFail = FALSE
    MaxReruns = 1
    MaxPrompts = 8
    MaxFaults = 3
SPECIFICATION FairSpec
INVARIANTS
    FinishedMeansAll
PROPERTIES
    Completes
CHECK_DEADLOCK FALSE
