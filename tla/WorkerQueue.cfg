\* Two workers without hub or drain file share two rows.
CONSTANTS
    w1 = w1
    w2 = w2
    r1 = r1
    r2 = r2
    NoWorker = NoWorker
    NoRow = NoRow
    Workers <- TwoWorkers
    Rows <- TwoRows
    HubWorkers <- None
    DrainWorkers <- None
    OnceModes <- Loop
    MaxAttempts = 2
    MaxFaults = 1
SPECIFICATION Spec
SYMMETRY Symmetry
INVARIANTS
    TypeOK
    HandIsHeld
    NothingLeftRunning
PROPERTY ImplementsQueue
