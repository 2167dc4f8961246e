SPECIFICATION Spec
CONSTANTS
    r1 = r1  r2 = r2  k1 = k1  k2 = k2  NoRun = NoRun
    Runs = {r1, r2}  Keys = {k1, k2}  Deletable = {k1, k2}
    StateStore = "bigquery"  Destination = "lease"  Filtered = FALSE
    BatchRows = 1  BuildModels = FALSE  PublishesMetadata = FALSE
    MaxToken = 4  MaxChanges = 2  MaxClock = 2  MaxAttempts = 1
SYMMETRY Symmetric
INVARIANTS SucceededCovers WatermarkBacked
PROPERTIES ReplicatesSource
CHECK_DEADLOCK FALSE
