\* Every job ends: slow runs, a crash or a deleted datasource, racing requests and
\* a command beside the API worker.
SPECIFICATION FairSpec
CONSTANTS
    w1 = w1  w2 = w2  c1 = c1  c2 = c2  d1 = d1  d2 = d2
    Workers = {w1, w2}
    Clients = {c1, w2}
    CliWorkers = {w2}
    Datasources = {d1}
    NumSteps = 1
    SweepEvery = 1
    LongRuns = TRUE
    NoWorker = NoWorker
    MaxJobs = 2
    MaxCrashes = 1
    MaxFaults = 0
    MaxRemovals = 1
CONSTRAINT OneMishap
CHECK_DEADLOCK FALSE
INVARIANTS
    OneActivePerDatasource
PROPERTIES
    EveryJobEnds
    FinishedStaysFinished
