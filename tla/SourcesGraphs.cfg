SPECIFICATION Spec
CONSTANTS
    Parts = {"pages_workday", "pages_suiteql", "pages_odoo", "pages_servicenow", "salesforce",
             "saves", "previews", "structures", "queries"}
    None = None  Absent = Absent  NoKey = NoKey  OpenEnd = OpenEnd  Rejected = Rejected  NULL = NULL
    t1 = t1  t2 = t2  x1 = x1  x2 = x2
INVARIANTS QueryMeansGraph
PROPERTIES CaughtUp EditsAreSafe
CHECK_DEADLOCK FALSE
