\* One worker with a hub socket and a drain file: wake-ups, drains, and that
\* everything posted settles.
CONSTANTS
    w1 = w1
    w2 = w2
    r1 = r1
    r2 = r2
    NoWorker = NoWorker
    NoRow = NoRow
    Workers <- OneWorker
    Rows <- OneRow
    HubWorkers <- OneWorker
    DrainWorkers <- OneWorker
    OnceModes <- LoopOrOnce
    MaxAttempts = 2
    MaxFaults = 2
SPECIFICATION FairSpec
PROPERTIES
    AckOnlyAtRest
    EveryRowSettles
    DrainAnswered
INVARIANTS
    NoLostWakeup
