SPECIFICATION Spec
CONSTANTS
    Parts = {"writes_redshift", "writes_direct", "writes_snowflake", "writes_postgresql", "writes_bigquery",
             "schema_redshift", "schema_snowflake", "schema_postgresql", "schema_bigquery", "schema_unreconciled",
             "columns", "builds_late", "builds_boundary", "builds_shapes",
             "repair_moves", "repair_outputs", "glue", "dataplex"}
    None = None  Absent = Absent  NoKey = NoKey  OpenEnd = OpenEnd  Rejected = Rejected  NULL = NULL
    t1 = t1  t2 = t2  x1 = x1  x2 = x2
INVARIANTS WritesTakeEffect PublishedFits BuildsAreCurrent
PROPERTIES NoOlderPublication ColumnsOnlyGrow NothingGoesBack MetadataIsHonest
CHECK_DEADLOCK FALSE
