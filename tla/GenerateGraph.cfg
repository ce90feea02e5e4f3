\* A row killed between the save of the prompt id and the PATCH with the graph.
CONSTANTS
    KeyedModes <- RowOnly
    Count = 1
    Images = 1
    SeedLists <- OneSeed
    DiskCanFail = FALSE
    MaxReruns = 0
    MaxPrompts = 4
    MaxFaults = 1
SPECIFICATION Spec
INVARIANTS
    IngestedHasGraph
CHECK_DEADLOCK FALSE
