SPECIFICATION Spec
CONSTANTS
    r1 = r1  r2 = r2  k1 = k1  NoRun = NoRun
    Runs = {r1, r2}  Keys = {k1}  Deletable = {}
    StateStore = "postgresql"  Destination = "target"  Filtered = TRUE
    BatchRows = 1  BuildModels = FALSE  PublishesMetadata = FALSE
    MaxToken = 2  MaxChanges = 2  MaxClock = 2  MaxAttempts = 2
SYMMETRY Symmetric
INVARIANTS ExecutionInv
PROPERTIES ReplicatesSource SuccessIsFinal
CHECK_DEADLOCK FALSE
