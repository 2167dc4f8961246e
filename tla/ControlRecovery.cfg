CONSTANTS
    c1 = c1
    c2 = c2
    Runs = {1, 2}
    Controls = {c1}
    RunStore = "postgresql"
    Backend = "fargate"
    PageSize = 1
    MaxRequests = 3
    MaxFaults = 2
    MaxAttempts = 2
SPECIFICATION Spec
INVARIANTS ReadyMeansRecovered
PROPERTIES KeepsItsPromises
