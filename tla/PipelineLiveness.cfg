SPECIFICATION FairSpec
CONSTANTS
    r1 = r1  r2 = r2  k1 = k1  NoRun = NoRun
    Runs = {r1, r2}  Keys = {k1}  Deletable = {}
    StateStore = "postgresql"  Destination = "target"  Filtered = TRUE
    BatchRows = 1  BuildModels = TRUE  PublishesMetadata = TRUE
    MaxToken = 4  MaxChanges = 1  MaxClock = 1  MaxAttempts = 1
PROPERTIES LeaseIsFreed ProcessEnds
CHECK_DEADLOCK FALSE
