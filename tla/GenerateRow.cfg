\* A claimed row or a command, killed and started again; the state file may be lost.
CONSTANTS
    KeyedModes <- RowOrCli
    Count = 2
    Images = 2
    SeedLists <- TwoSeeds
    DiskCanFail = TRUE
    MaxReruns = 1
    MaxPrompts = 8
    MaxFaults = 3
SPECIFICATION Spec
INVARIANTS
    TypeOK
    DiskIsTrue
    IngestedIsWhole
    SeedsAgree
    RenderedOnce
    OutputOnce
CHECK_DEADLOCK FALSE
