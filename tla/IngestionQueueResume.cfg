\* A job released after a crash skips the step that was running.
SPECIFICATION Spec
CONSTANTS
    w1 = w1  w2 = w2  c1 = c1  c2 = c2  d1 = d1  d2 = d2
    Workers = {w1, w2}
    Clients = {c1}
    CliWorkers = {}
    Datasources = {d1}
    NumSteps = 2
    SweepEvery = 2
    LongRuns = FALSE
    NoWorker = NoWorker
    MaxJobs = 1
    MaxCrashes = 1
    MaxFaults = 0
    MaxRemovals = 0
CHECK_DEADLOCK FALSE
INVARIANTS
    StageAfterItsInputs
