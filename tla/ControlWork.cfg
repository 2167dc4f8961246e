SPECIFICATION Spec
CONSTANTS
    Parts = {"job", "fargate", "cloud_run",
             "dataproc", "oci_retry", "oci_cancel", "spark_linear", "spark_multistage", "spark_join"}
    Setup <- MCSetup
    None = None  AnyEnvironment = AnyEnvironment  Unavailable = Unavailable
    c1 = c1  c2 = c2  c3 = c3  k1 = k1  k2 = k2  x1 = x1  x2 = x2
    d = d  d1 = d1  d2 = d2  r1 = r1  n1 = n1
    p1 = p1  p2 = p2  p3 = p3  e1 = e1  e2 = e2  near = near  far = far
SYMMETRY Symmetric
INVARIANTS OwnSelection OneExecution OneAttemptAtATime TargetMeansGraph
PROPERTIES NothingIsUndone
CHECK_DEADLOCK FALSE
