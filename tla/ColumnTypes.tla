----------------------------- MODULE ColumnTypes ------------------------------
(***************************************************************************)
(* The physical column type that each warehouse gives a canonical type,    *)
(* and how the next write reads it back from the catalogue and compares.   *)
(*                                                                         *)
(* A canonical type is a record of its kind and the parameters that kind   *)
(* uses (0 or FALSE for the others); an array names the kind of its        *)
(* elements.  A physical type is a name with its parameters.               *)
(***************************************************************************)
EXTENDS Integers, Sequences, FiniteSetsExt, TLC

CONSTANTS
    Warehouses,     \* a subset of {"redshift", "snowflake", "postgresql", "bigquery"}
    Types,          \* the canonical types to look at
    Rejected        \* the type cannot be represented

VARIABLES
    warehouse,
    type,       \* the declared canonical type of the column
    fallback,   \* whether the field declares the warehouse's JSON fallback
    column,     \* the deployed physical type, as the catalogue reports it
    pc

vars == <<warehouse, type, fallback, column, pc>>

\* CanonicalType.validate_shape.
WellFormed(t) ==
    /\ t.bits # 0 <=> t.kind \in {"integer", "float"}
    /\ t.kind = "float" => t.bits \in {32, 64}
    /\ t.prec # 0 <=> t.kind = "decimal"
    /\ t.scale <= t.prec
    /\ t.tz => t.kind = "timestamp"
    /\ t.frac # 0 => t.kind \in {"time", "timestamp"} /\ t.frac <= 9
    /\ t.elem # "none" <=> t.kind = "array"

TypesAssumption == \A t \in Types : WellFormed(t)

T(name) == <<name>>

\* _is_super_fallback, _is_variant_fallback: JSON needs the fallback, nothing
\* else may have it, arrays and records have none.
FallbackFits(t, ext) ==
    /\ t.kind = "json" <=> ext
    /\ t.kind \notin {"array", "record"}

RedshiftType(t, ext) ==
    IF ~FallbackFits(t, ext) THEN Rejected
    ELSE CASE t.kind = "json" -> T("SUPER")
           [] t.kind = "boolean" -> T("BOOLEAN")
           [] t.kind = "integer" -> T("BIGINT")
           [] t.kind = "decimal" -> IF t.prec > 38 THEN Rejected ELSE <<"DECIMAL", t.prec, t.scale>>
           [] t.kind = "float" -> T("DOUBLE PRECISION")
           [] t.kind = "string" -> <<"VARCHAR", 65535>>
           [] t.kind = "binary" -> T("VARBYTE")
           [] t.kind = "date" -> T("DATE")
           [] t.kind = "time" -> IF t.frac > 6 THEN Rejected ELSE T("TIME")
           [] t.kind = "timestamp" -> IF t.frac > 6 THEN Rejected
                                      ELSE IF t.tz THEN T("TIMESTAMPTZ") ELSE T("TIMESTAMP")

SnowflakeType(t, ext) ==
    IF ~FallbackFits(t, ext) THEN Rejected
    ELSE CASE t.kind = "json" -> T("VARIANT")
           [] t.kind = "boolean" -> T("BOOLEAN")
           [] t.kind = "integer" -> <<"NUMBER", 38, 0>>
           [] t.kind = "decimal" -> IF t.prec > 38 THEN Rejected ELSE <<"NUMBER", t.prec, t.scale>>
           [] t.kind = "float" -> T("FLOAT")
           [] t.kind = "string" -> T("VARCHAR")
           [] t.kind = "binary" -> T("BINARY")
           [] t.kind = "date" -> T("DATE")
           [] t.kind = "time" -> <<"TIME", Min({t.frac, 9})>>
           [] t.kind = "timestamp" -> <<IF t.tz THEN "TIMESTAMP_TZ" ELSE "TIMESTAMP_NTZ", Min({t.frac, 9})>>

\* _postgresql_type has no bound of its own on the precision of seconds, which
\* Supported bounds; the server stores six digits and reports the type so.
PostgreSQLType(t) ==
    CASE t.kind = "boolean" -> T("boolean")
      [] t.kind = "integer" -> CASE t.bits \in {8, 16} -> T("smallint")
                                 [] t.bits = 32 -> T("integer")
                                 [] OTHER -> T("bigint")
      [] t.kind = "decimal" -> <<"numeric", t.prec, t.scale>>
      [] t.kind = "float" -> IF t.bits = 32 THEN T("real") ELSE T("double precision")
      [] t.kind = "string" -> T("text")
      [] t.kind = "binary" -> T("bytea")
      [] t.kind = "date" -> T("date")
      [] t.kind = "time" -> <<"time", t.frac>>
      [] t.kind = "timestamp" -> <<IF t.tz THEN "timestamptz" ELSE "timestamp", t.frac>>
      [] t.kind \in {"json", "record"} -> T("jsonb")
      [] t.kind = "array" -> <<"array", t.elem>>

\* NUMERIC has nine digits behind the point and 29 before it.
BigQueryDecimal(t) ==
    IF t.scale <= 9 /\ t.prec - t.scale <= 29 THEN T("NUMERIC") ELSE Rejected

\* bigquery_write_fields: a nullable array has no repeated form.
BigQueryType(t, required) ==
    CASE t.kind = "boolean" -> T("BOOL")
      [] t.kind = "integer" -> T("INT64")
      [] t.kind = "float" -> T("FLOAT64")
      [] t.kind = "string" -> T("STRING")
      [] t.kind = "binary" -> T("BYTES")
      [] t.kind = "date" -> T("DATE")
      [] t.kind = "json" -> T("JSON")
      [] t.kind = "record" -> T("RECORD")
      [] t.kind = "decimal" -> BigQueryDecimal(t)
      [] t.kind = "time" -> IF t.frac > 6 THEN Rejected ELSE T("TIME")
      [] t.kind = "timestamp" -> IF t.frac > 6 THEN Rejected
                                 ELSE IF t.tz THEN T("TIMESTAMP") ELSE T("DATETIME")
      [] t.kind = "array" -> IF required /\ t.elem # "array" THEN <<"REPEATED", t.elem>> ELSE Rejected

\* WarehouseSchemaSupport.require, which the schema mappers of BigQuery and
\* PostgreSQL call; the other two check as they map.
Supported(w, t) ==
    /\ w = "bigquery" => t.frac <= 6 /\ t.prec <= 38 /\ t.elem # "array"
    /\ w = "postgresql" => t.frac <= 6 /\ t.prec <= 1000

\* The writer's type for a column; fallback doubles as "required" for BigQuery.
Physical(w, t, ext) ==
    IF ~Supported(w, t) THEN Rejected
    ELSE CASE w = "redshift" -> RedshiftType(t, ext)
           [] w = "snowflake" -> SnowflakeType(t, ext)
           [] w = "postgresql" -> PostgreSQLType(t)
           [] w = "bigquery" -> BigQueryType(t, ext)

----------------------------------------------------------------------------
\* What the catalogues report for a created column.
Reported(w, p) ==
    LET spelled ==
        CASE w = "redshift" -> [VARCHAR |-> "character varying", DECIMAL |-> "numeric",
                                BIGINT |-> "bigint", TIMESTAMPTZ |-> "timestamp with time zone",
                                TIMESTAMP |-> "timestamp without time zone",
                                TIME |-> "time without time zone", VARBYTE |-> "binary varying"]
          [] w = "bigquery" -> [BOOL |-> "BOOLEAN", INT64 |-> "INTEGER", FLOAT64 |-> "FLOAT"]
          [] OTHER -> [none |-> "none"]
        name == IF p[1] \in DOMAIN spelled THEN spelled[p[1]] ELSE p[1]
    IN  CASE w = "snowflake" /\ p[1] \in {"VARCHAR", "BINARY"} -> <<p[1], 16777216>>
          [] w = "postgresql" /\ p[1] \in {"time", "timestamp", "timestamptz"} -> <<p[1], Min({p[2], 6})>>
          [] OTHER -> <<name>> \o Tail(p)

\* _normalize_deployed_type.
RedshiftAliases == [bigint |-> "BIGINT"] @@ ("timestamp with time zone" :> "TIMESTAMPTZ")
    @@ ("timestamp without time zone" :> "TIMESTAMP") @@ ("time without time zone" :> "TIME")
    @@ ("binary varying" :> "VARBYTE")
    @@ ("character varying" :> "VARCHAR") @@ [numeric |-> "DECIMAL"]

\* BIGQUERY_TYPE_ALIASES.
BigQueryAliases == [BOOLEAN |-> "BOOL", FLOAT |-> "FLOAT64", INTEGER |-> "INT64", STRUCT |-> "RECORD"]

\* _normalize_type of Snowflake: a length of VARCHAR or BINARY is dropped.
SnowflakeNormal(p) == IF p[1] \in {"VARCHAR", "BINARY"} THEN <<p[1]>> ELSE p

Normal(w, p) ==
    LET aliases == IF w = "redshift" THEN RedshiftAliases
                   ELSE IF w = "bigquery" THEN BigQueryAliases ELSE [none |-> "none"]
    IN  IF w = "snowflake" THEN SnowflakeNormal(p)
        ELSE <<IF p[1] \in DOMAIN aliases THEN aliases[p[1]] ELSE p[1]>> \o Tail(p)

----------------------------------------------------------------------------
Init ==
    /\ warehouse \in Warehouses /\ type \in Types /\ fallback \in BOOLEAN
    /\ column = Rejected
    /\ pc = "declared"

\* The first write validates the schema and creates the target.
Create ==
    /\ pc = "declared"
    /\ LET p == Physical(warehouse, type, fallback)
       IN  IF p = Rejected THEN pc' = "rejected" /\ UNCHANGED column
           ELSE pc' = "created" /\ column' = Reported(warehouse, p)
    /\ UNCHANGED <<warehouse, type, fallback>>

\* The next write compares the catalogue with its declaration.
Compare ==
    /\ pc \in {"created", "same"}
    /\ pc' = IF Normal(warehouse, column) = Normal(warehouse, Physical(warehouse, type, fallback))
             THEN "same" ELSE "drift"
    /\ UNCHANGED <<warehouse, type, fallback, column>>

Stop == pc \in {"rejected", "drift"} /\ UNCHANGED vars

Next == Create \/ Compare \/ Stop

Spec == Init /\ [][Next]_vars

----------------------------------------------------------------------------
(* Properties. *)

\* A column that a writer created is recognised by its next write: the types
\* it creates survive the catalogue's spelling and the normalisation.
NoFalseDrift == pc # "drift"

\* Digits of seconds, digits before and behind the point, and bits that a
\* reported column keeps.
SecondsKept(p) ==
    CASE p[1] \in {"TIME", "TIMESTAMP_TZ", "TIMESTAMP_NTZ", "time", "timestamp", "timestamptz"}
            /\ Len(p) = 2 -> p[2]
      [] OTHER -> 6

DecimalKept(p) ==
    IF p[1] = "NUMERIC" THEN <<29, 9>>
    ELSE IF Len(p) = 3 THEN <<p[2] - p[3], p[3]>> ELSE <<0, 0>>

BitsKept(p) ==
    CASE p[1] = "smallint" -> 16 [] p[1] \in {"integer", "real"} -> 32 [] OTHER -> 64

\* No accepted column is too small for its canonical type: a value that the
\* declaration allows is never rounded or cut by the column.
NoSilentLoss ==
    pc \in {"created", "same"} =>
        /\ type.kind \in {"time", "timestamp"} => SecondsKept(column) >= type.frac
        /\ type.kind = "decimal" => /\ DecimalKept(column)[1] >= type.prec - type.scale
                                    /\ DecimalKept(column)[2] >= type.scale
        /\ type.kind \in {"integer", "float"} => BitsKept(column) >= type.bits
=============================================================================
