CONSTANTS
    c1 = c1
    c2 = c2
    Runs = {1}
    Controls = {c1, c2}
    RunStore = "s3"
    Backend = "cloud_run"
    PageSize = 1
    MaxRequests = 2
    MaxFaults = 2
    MaxAttempts = 2
SPECIFICATION Spec
SYMMETRY Symmetric
INVARIANTS OneExecution ControlInv
