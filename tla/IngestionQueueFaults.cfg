\* Crashes, store faults, failing stages and resumed jobs; every run ends before
\* its claim is stale. A sweep is every second iteration of the loop.
SPECIFICATION Spec
CONSTANTS
    w1 = w1  w2 = w2  c1 = c1  c2 = c2  d1 = d1  d2 = d2
    Workers = {w1, w2}
    Clients = {c1}
    CliWorkers = {}
    Datasources = {d1}
    NumSteps = 3
    SweepEvery = 2
    LongRuns = FALSE
    NoWorker = NoWorker
    MaxJobs = 2
    MaxCrashes = 1
    MaxFaults = 1
    MaxRemovals = 0
CONSTRAINT OneMishapOrOneJob
SYMMETRY WorkerSymmetry
CHECK_DEADLOCK FALSE
INVARIANTS
    TypeOK
    OneRunPerDatasource
    RunnerOwnsRow
    StageInSequence
    SuccessIsComplete
    BlameIsExact
PROPERTIES
    DispatchSpec
