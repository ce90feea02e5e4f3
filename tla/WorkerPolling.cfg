\* One worker whose claim or report is not answered in time.
CONSTANTS
    w1 = w1
    w2 = w2
    r1 = r1
    r2 = r2
    NoWorker = NoWorker
    NoRow = NoRow
    Workers <- OneWorker
    Rows <- OneRow
    HubWorkers <- OneWorker
    DrainWorkers <- OneWorker
    OnceModes <- LoopOrOnce
    MaxAttempts = 2
    MaxFaults = 1
SPECIFICATION Spec
PROPERTIES
    PollingGoesOn
