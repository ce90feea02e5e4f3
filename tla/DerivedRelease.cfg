\* One deliver, killed and claimed again by a worker of another release.
CONSTANTS
    Ops <- OnlyDeliver
    Needs <- DeliverNeeds
    Pieces <- DeliverPieces
    CutsResult = {}
    Releases <- TwoReleases
    MaxFaults = 1
SPECIFICATION Spec
INVARIANTS
    CutIsTrue
CHECK_DEADLOCK FALSE
