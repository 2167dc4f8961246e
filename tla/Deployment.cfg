SPECIFICATION Spec
CONSTANTS
    Parts = {"rollout_aws", "rollout_gcp", "rollout_kubernetes", "images_foreign", "images_two",
             "images_alone", "controller", "plans_aws", "plans_azure", "plans_oci", "stage_aws",
             "stage_azure", "stage_oci", "init", "start_options", "start_postgresql", "start_sqs",
             "planning"}
    None = None  NULL = NULL  NoResource = NoResource  IdleSlot = IdleSlot  o1 = o1  o2 = o2
    d1 = d1  d2 = d2  p1 = p1  p2 = p2  reviewed = reviewed  other = other  broken = broken
    bucket = bucket  role = role  policy = policy
    c1 = c1  r1 = r1  n1 = n1  t1 = t1  t2 = t2  x1 = x1
SYMMETRY Symmetric
INVARIANTS DeployedIsReviewed StartsSafely
PROPERTIES PlansAreKept
CHECK_DEADLOCK FALSE
