SPECIFICATION AnsweredSpec
CONSTANTS
    NumDimensions = 3
    TimeRange = 2
    MaxQuestions = 2
    ContestedMin = 2
    MaxEdits = 1
    MaxCandidates = 3
    MaxScore = 2
    SkipMargin = 1
    MaxProbes = 2
    MaxCost = 3
    Budget = 1
    MaxTurns = 2
INVARIANTS
    QueryTypeOK
    NeverAskedTwice
    PlanningSettlesEverything
    GuessesYield
    RegenerationIsBounded
    SelectionHasAViableCandidate
    ResponseTellsTheEnd
    StreamIsTruthful
PROPERTIES
    TurnEnds
CHECK_DEADLOCK FALSE
