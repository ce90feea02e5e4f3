\* Two rows whose failed jobs end them and two claims, or one of generate, which goes
\* on past a failed job, and a restart of ComfyUI or a lost socket.
SPECIFICATION Spec
CONSTANTS
    A = A
    B = B
    G = G
    Rows = {A, B, G}
    Drawn = {G}
    JOBS = 2
    MaxAttempts = 2
    MaxPrompts = 2
    MaxLosses = 1
    MaxInbox = 1
INVARIANTS EnvOutlivesNoLoss TimingsAreTrue SubmitFirst
CHECK_DEADLOCK FALSE
SYMMETRY Symmetry
CONSTRAINTS Claims Sockets Unsent
