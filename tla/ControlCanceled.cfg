CONSTANTS
    c1 = c1
    c2 = c2
    Runs = {1}
    Controls = {c1}
    RunStore = "postgresql"
    Backend = "cloud_run"
    PageSize = 1
    MaxRequests = 2
    MaxFaults = 1
    MaxAttempts = 2
SPECIFICATION Spec
INVARIANTS CanceledMeansStopped
