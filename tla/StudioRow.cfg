\* Every lineage of up to MaxChain pictures.
SPECIFICATION Spec
CONSTANTS
    Starts <- MCStarts
    RowOptions <- MCRowOptions
    LINEAGE_HOPS = 1
    OUTLINES_MAX = 2
    FRAME_STROKES_MAX = 1
    FRAME_STROKE_POINTS_MAX = 2
    FRAME_POINTS_MAX = 2
    MaxChain <- MCMaxChain
    MaxTorn = 1
INVARIANTS TypeOK OneOrder NoBentViewfinder LayersMatch NeverAtALoss ReadsPresent DepthFound LightIsInherited NoLayerDiffuse ResolvedRunsAgain SubmittedRuns OwnPixels NumbersFit LabelsInOrder
CHECK_DEADLOCK FALSE
