SPECIFICATION Spec
CONSTANTS
    Parts = {"leader", "redelivery", "sqs", "journal", "memory", "postgresql", "local",
             "read_s3", "read_gcs", "list_memory", "list_s3", "list_gcs", "list_azure", "list_oci",
             "edits", "rights", "configurations", "retries"}
    Setup <- MCSetup
    None = None  AnyEnvironment = AnyEnvironment  Unavailable = Unavailable
    c1 = c1  c2 = c2  c3 = c3  k1 = k1  k2 = k2  x1 = x1  x2 = x2
    d = d  d1 = d1  d2 = d2  r1 = r1  n1 = n1
    p1 = p1  p2 = p2  p3 = p3  e1 = e1  e2 = e2  near = near  far = far
SYMMETRY Symmetric
INVARIANTS NothingLost ReplayIsExact ReadsAreWhole OneRunPerRequest
PROPERTIES OneRunPerOccurrence GraphsAreCatalogs AnswersAreHonest
CHECK_DEADLOCK FALSE
