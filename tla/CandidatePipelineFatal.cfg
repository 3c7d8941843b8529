SPECIFICATION PipelineSpec
CONSTANTS
    MaxCandidates = 3
    MaxScore = 3
    SkipMargin = 2
    MaxProbes = 2
    MaxCost = 3
    Budget = 1
INVARIANT
    FatalNeverSelected
CHECK_DEADLOCK FALSE
