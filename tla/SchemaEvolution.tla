--------------------------- MODULE SchemaEvolution ----------------------------
(***************************************************************************)
(* How a write brings its target's columns up to its declaration before it *)
(* publishes.  Several runs, numbered by their fencing tokens, may carry   *)
(* different declarations (a deployment changed in between).  PostgreSQL   *)
(* alters in the publication's transaction, Redshift plans before it and   *)
(* alters in it, Snowflake checks and alters column by column as it goes,  *)
(* BigQuery replaces the schema of the table version it read (scd1,        *)
(* incremental) or, for snapshot, scd2 and the Storage Write API, creates  *)
(* and alters the target without comparing it.                             *)
(*                                                                         *)
(* A schema is a set of columns [name, type, required], one of each name.  *)
(***************************************************************************)
EXTENDS Integers, FiniteSets, Functions

CONSTANTS
    Warehouse,      \* "redshift", "snowflake", "postgresql" or "bigquery"
    Declarations,   \* the schemas a run may declare
    Initial,        \* the targets there may be at first
    Absent,         \* there is no table
    Reconciles,     \* BigQuery: whether the writer compares the deployed columns
    MaxRun

SchemaAssumption ==
    /\ Warehouse \in {"redshift", "snowflake", "postgresql", "bigquery"}
    /\ MaxRun \in Nat \ {0} /\ Reconciles \in BOOLEAN
    /\ Warehouse # "bigquery" => Reconciles

Runs == 1..MaxRun

VARIABLES
    deployed,   \* the target's columns, or Absent
    version,    \* BigQuery's etag: counts the changes of the target
    additive,   \* additive[r]: whether run r may add columns
    declared,   \* declared[r]: its schema
    fence,      \* the run that claimed the target last
    pc,
    plan,       \* plan[r]: columns to look at or to add
    seen        \* seen[r]: the version of the target it read, 0: there was none

vars == <<deployed, version, additive, declared, fence, pc, plan, seen>>

\* CREATE TABLE AS SELECT makes every column nullable.
Nullable(schema) == {[column EXCEPT !.required = FALSE] : column \in schema}

TypeOK ==
    /\ deployed = Absent \/ deployed \subseteq UNION Declarations \union Nullable(UNION Declarations)
    /\ \A a, b \in (IF deployed = Absent THEN {} ELSE deployed) : a.name = b.name => a = b
    /\ version \in 0..(2 * MaxRun) /\ fence \in 0..MaxRun
    /\ pc \in [Runs -> {"idle", "claimed", "planned", "adding", "ready", "done", "failed"}]
    /\ seen \in [Runs -> 0..(2 * MaxRun)]

Init ==
    /\ deployed \in Initial
    /\ version = IF deployed = Absent THEN 0 ELSE 1
    /\ additive \in [Runs -> BOOLEAN]
    /\ declared \in [Runs -> Declarations]
    /\ fence = 0
    /\ pc = [r \in Runs |-> "idle"]
    /\ plan = [r \in Runs |-> {}]
    /\ seen = [r \in Runs |-> 0]

----------------------------------------------------------------------------
Names(schema) == {column.name : column \in schema}

\* Mutant: drifted types are accepted.
DriftNone(schema, target) == {}

\* Declared columns that the target has with another type or nullability.
Drift(schema, target) ==
    {column \in schema : column.name \in Names(target) /\ column \notin target}

Missing(schema, target) == {column \in schema : column.name \notin Names(target)}

Extra(schema, target) == Names(target) \ Names(schema)

\* Only an additive target may gain columns, and only nullable ones.
MayAdd(r, target) ==
    Missing(declared[r], target) # {} =>
        additive[r] /\ \A column \in Missing(declared[r], target) : ~column.required

Fits(r, target) ==
    /\ Extra(declared[r], target) = {}
    /\ Drift(declared[r], target) = {}
    /\ MayAdd(r, target)

\* The statements of the publication name the declared columns; a value of
\* another type may well be converted.
Runnable(r, target) == Names(declared[r]) \subseteq Names(target)

Owns(r) == fence = r

Goto(r, step) == pc' = [pc EXCEPT ![r] = step]

Claim(r) ==
    /\ pc[r] = "idle"
    /\ fence <= r
    /\ fence' = r
    /\ Goto(r, "claimed")
    /\ UNCHANGED <<deployed, version, additive, declared, plan, seen>>

ClaimRejected(r) ==
    /\ pc[r] = "idle"
    /\ fence > r
    /\ Goto(r, "failed")
    /\ UNCHANGED <<deployed, version, additive, declared, fence, plan, seen>>

\* Redshift, _schema_changes: the deployed columns are read before the
\* publication's transaction.
PlanRedshift(r) ==
    /\ Warehouse = "redshift"
    /\ pc[r] = "claimed"
    /\ IF deployed = Absent \/ Fits(r, deployed)
       THEN /\ plan' = [plan EXCEPT ![r] = IF deployed = Absent THEN {}
                                           ELSE Missing(declared[r], deployed)]
            /\ Goto(r, "planned")
       ELSE Goto(r, "failed") /\ UNCHANGED plan
    /\ UNCHANGED <<deployed, version, additive, declared, fence, seen>>

\* CREATE TABLE IF NOT EXISTS, the planned ADD COLUMNs and the publication.
After(r) ==
    (IF deployed = Absent THEN declared[r] ELSE deployed) \union plan[r]

PublishRedshift(r) ==
    /\ Warehouse = "redshift"
    /\ pc[r] = "planned"
    /\ IF /\ Owns(r)
          /\ deployed # Absent => Names(plan[r]) \intersect Names(deployed) = {}
          /\ Runnable(r, After(r))
       THEN deployed' = After(r) /\ version' = version + 1 /\ Goto(r, "done")
       ELSE UNCHANGED <<deployed, version>> /\ Goto(r, "failed")
    /\ UNCHANGED <<additive, declared, fence, plan, seen>>

\* PostgreSQL, _ensure_target: the same transaction reads, alters and publishes.
WritePostgreSQL(r) ==
    LET target == IF deployed = Absent THEN declared[r] ELSE deployed
    IN  /\ Warehouse = "postgresql"
        /\ pc[r] = "claimed"
        /\ IF Fits(r, target) /\ Owns(r)
           THEN /\ deployed' = target \union Missing(declared[r], target)
                /\ version' = version + 1
                /\ Goto(r, "done")
           ELSE UNCHANGED <<deployed, version>> /\ Goto(r, "failed")
        /\ UNCHANGED <<additive, declared, fence, plan, seen>>

\* Snowflake, _ensure_target: CREATE TABLE IF NOT EXISTS, then DESCRIBE; the
\* declared columns that the target does not have as declared are to be looked at.
DescribeSnowflake(r) ==
    LET target == IF deployed = Absent THEN declared[r] ELSE deployed
    IN  /\ Warehouse = "snowflake"
        /\ pc[r] = "claimed"
        /\ deployed' = target
        /\ IF Extra(declared[r], target) = {}
           THEN plan' = [plan EXCEPT ![r] = declared[r] \ target] /\ Goto(r, "adding")
           ELSE Goto(r, "failed") /\ UNCHANGED plan
        /\ UNCHANGED <<version, additive, declared, fence, seen>>

\* One turn of the loop over the fields: a column that was there differs and is
\* refused; a missing one is added, unless it may not be, or somebody else has
\* added it by now, when ALTER TABLE fails.
AddSnowflake(r) ==
    /\ Warehouse = "snowflake"
    /\ pc[r] = "adding"
    /\ \E column \in plan[r] :
        /\ plan' = [plan EXCEPT ![r] = @ \ {column}]
        /\ IF column.name \in Names(deployed) \/ ~additive[r] \/ column.required
           THEN Goto(r, "failed") /\ UNCHANGED deployed
           ELSE deployed' = deployed \union {column} /\ UNCHANGED pc
    /\ UNCHANGED <<version, additive, declared, fence, seen>>

AddedSnowflake(r) ==
    /\ Warehouse = "snowflake"
    /\ pc[r] = "adding"
    /\ plan[r] = {}
    /\ Goto(r, "ready")
    /\ UNCHANGED <<deployed, version, additive, declared, fence, plan, seen>>

\* BigQuery, _reconcile_declared_target: get_table and the comparison.
GetBigQuery(r) ==
    /\ Warehouse = "bigquery" /\ Reconciles
    /\ pc[r] = "claimed"
    /\ seen' = [seen EXCEPT ![r] = version]
    /\ IF deployed = Absent \/ Fits(r, deployed)
       THEN /\ plan' = [plan EXCEPT ![r] = IF deployed = Absent THEN declared[r]
                                           ELSE Missing(declared[r], deployed)]
            /\ Goto(r, IF deployed # Absent /\ Missing(declared[r], deployed) = {}
                       THEN "ready" ELSE "planned")
       ELSE Goto(r, "failed") /\ UNCHANGED plan
    /\ UNCHANGED <<deployed, version, additive, declared, fence>>

\* create_table(exists_ok) for a target that was not there, and the assertion
\* on the schema that comes back.
CreateBigQuery(r) ==
    LET target == IF deployed = Absent THEN declared[r] ELSE deployed
    IN  /\ Warehouse = "bigquery"
        /\ pc[r] = "planned" /\ seen[r] = 0
        /\ deployed' = target
        /\ version' = IF deployed = Absent THEN version + 1 ELSE version
        /\ Goto(r, IF target = declared[r] THEN "ready" ELSE "failed")
        /\ UNCHANGED <<additive, declared, fence, plan, seen>>

\* Mutant: the update is not conditional on the version that was read.
SameVersionAlways(r) == TRUE

\* update_table sends what was read and the additions, which together are the
\* declaration, under the etag of the table that was read.
SameVersion(r) == seen[r] = version

UpdateBigQuery(r) ==
    /\ Warehouse = "bigquery"
    /\ pc[r] = "planned" /\ seen[r] # 0
    /\ IF SameVersion(r)
       THEN deployed' = declared[r] /\ version' = version + 1 /\ Goto(r, "ready")
       ELSE UNCHANGED <<deployed, version>> /\ Goto(r, "failed")
    /\ UNCHANGED <<additive, declared, fence, plan, seen>>

\* The writers that do not compare: CREATE TABLE IF NOT EXISTS ... AS SELECT
\* from the staging table.
CreateAsSelect(r) ==
    /\ Warehouse = "bigquery" /\ ~Reconciles
    /\ pc[r] = "claimed"
    /\ deployed' = IF deployed = Absent THEN Nullable(declared[r]) ELSE deployed
    /\ version' = IF deployed = Absent THEN version + 1 ELSE version
    /\ plan' = [plan EXCEPT ![r] = declared[r]]
    /\ Goto(r, "adding")
    /\ UNCHANGED <<additive, declared, fence, seen>>

\* _apply_schema_evolution: nothing for a strict target; a required column is
\* refused; then ADD COLUMN IF NOT EXISTS for every declared column.
ApplyEvolution(r) ==
    LET column == CHOOSE column \in plan[r] : TRUE
    IN  /\ Warehouse = "bigquery" /\ ~Reconciles
        /\ pc[r] = "adding"
        /\ \/ /\ additive[r] /\ \E field \in declared[r] : field.required
              /\ Goto(r, "failed") /\ UNCHANGED <<deployed, version, plan>>
           \/ /\ ~additive[r] \/ plan[r] = {}
              /\ Goto(r, "ready") /\ UNCHANGED <<deployed, version, plan>>
           \/ /\ additive[r] /\ plan[r] # {} /\ \A field \in declared[r] : ~field.required
              /\ deployed' = deployed \union Missing({column}, deployed)
              /\ version' = version + Cardinality(Missing({column}, deployed))
              /\ plan' = [plan EXCEPT ![r] = @ \ {column}]
              /\ UNCHANGED pc
        /\ UNCHANGED <<additive, declared, fence, seen>>

\* The fenced publication of Snowflake and BigQuery.
Publish(r) ==
    /\ Warehouse \in {"snowflake", "bigquery"}
    /\ pc[r] = "ready"
    /\ Goto(r, IF Owns(r) /\ Runnable(r, deployed) THEN "done" ELSE "failed")
    /\ UNCHANGED <<deployed, version, additive, declared, fence, plan, seen>>

Stop == (\A r \in Runs : pc[r] \in {"done", "failed"}) /\ UNCHANGED vars

Next ==
    \/ \E r \in Runs :
        \/ Claim(r) \/ ClaimRejected(r)
        \/ PlanRedshift(r) \/ PublishRedshift(r)
        \/ WritePostgreSQL(r)
        \/ DescribeSnowflake(r) \/ AddSnowflake(r) \/ AddedSnowflake(r)
        \/ GetBigQuery(r) \/ CreateBigQuery(r) \/ UpdateBigQuery(r)
        \/ CreateAsSelect(r) \/ ApplyEvolution(r)
        \/ Publish(r)
    \/ Stop

Spec == Init /\ [][Next]_vars

----------------------------------------------------------------------------
(* Properties. *)
\* A target never loses a column and no column changes; an existing target
\* gains only nullable columns (docs/snowflake.md: "Only declared nullable
\* columns may be added automatically").
OnlyAdds ==
    deployed # Absent =>
           /\ deployed \subseteq deployed'
           /\ \A column \in deployed' \ deployed : ~column.required

\* A run that published did so into columns of the types it declared, and they
\* still have them, whatever runs with other declarations did meanwhile
\* ("type drift ... fail closed").  The BigQuery writers that do not compare
\* promise the columns only, for their types are whoever added them first.
PublishedFits ==
    \A r \in Runs : pc[r] = "done" =>
        IF Reconciles THEN declared[r] \subseteq deployed ELSE Names(declared[r]) \subseteq Names(deployed)

\* Redshift and PostgreSQL: a superseded run never changes the columns, for
\* they change only in a publication that owns the fence.
FencedSchema ==
    deployed' # deployed =>
        \E r \in Runs : r = fence /\ pc[r] # "done" /\ pc'[r] = "done"

=============================================================================
