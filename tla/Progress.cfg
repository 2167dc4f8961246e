SPECIFICATION FairSpec
CONSTANTS
    Parts = {"runs", "schedule", "start_stop", "job", "fargate", "oci", "images_alone", "plans_again",
             "stage_aws", "stage_azure", "stage_oci", "init", "planning", "pages", "salesforce",
             "serve", "metadata", "compile"}
    None = None  NULL = NULL  NoResource = NoResource  IdleSlot = IdleSlot  o1 = o1  o2 = o2
    d1 = d1  d2 = d2  p1 = p1  p2 = p2  reviewed = reviewed  other = other  broken = broken
    bucket = bucket  role = role  policy = policy
    c1 = c1  r1 = r1  n1 = n1  t1 = t1  t2 = t2  x1 = x1
PROPERTIES Settles Converges
CHECK_DEADLOCK FALSE
