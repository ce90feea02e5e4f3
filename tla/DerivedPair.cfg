\* Two operations on one picture, by workers of two releases.
CONSTANTS
    Ops <- Pair
    Needs <- PairNeeds
    Pieces <- PairPieces
    CutsResult <- OnlyLight
    Releases <- TwoReleases
    MaxFaults = 1
SPECIFICATION FairSpec
INVARIANTS
    TypeOK
    CutHasPictures
    CutIsTrueInTurn
    IngestedIsWhole
    ResultIsWhole
PROPERTIES
    Settles
CHECK_DEADLOCK FALSE
