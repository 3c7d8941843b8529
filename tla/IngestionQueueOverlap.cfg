\* A run that outlasts the stale threshold is dispatched again beside itself.
SPECIFICATION Spec
CONSTANTS
    w1 = w1  w2 = w2  c1 = c1  c2 = c2  d1 = d1  d2 = d2
    Workers = {w1, w2}
    Clients = {c1}
    CliWorkers = {}
    Datasources = {d1}
    NumSteps = 1
    SweepEvery = 2
    LongRuns = TRUE
    NoWorker = NoWorker
    MaxJobs = 2
    MaxCrashes = 0
    MaxFaults = 0
    MaxRemovals = 0
CHECK_DEADLOCK FALSE
INVARIANTS
    OneRunPerDatasource
