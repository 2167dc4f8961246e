-------------------------- MODULE TransformBuilds --------------------------
(* The transform stage of a pipeline run: the SQL models of a project are      *)
(* loaded, ordered by their references and materialized one after the other,   *)
(* then their data tests run (transform/project.py, transform/runner.py and    *)
(* providers/{postgresql,snowflake,redshift}/transform.py).                    *)
(*                                                                             *)
(* A model's query returns the union of what it references; rows carry the      *)
(* unique key, the incremental cursor and a further value.  Runs take the       *)
(* pipeline's lease in turn; one whose lease ran out carries on until a check.   *)
EXTENDS Integers, FiniteSets, Sequences, SequencesExt

CONSTANTS
    Models,     \* model names: positive numbers, sorted as the names are
    Setups,     \* pairs of a provider and a project (see Init)
    Keys, Vals, \* unique keys and further values: positive numbers
    MaxCursor,  \* bound: cursors are 1..MaxCursor
    LateRows,   \* may the source deliver older cursors than it had, or withdraw rows?
    MaxRuns,    \* bound: runs started
    MaxRows     \* bound: rows of the raw relation

RawRef == 0     \* the reference raw_<table>

Row == [key : Keys, cursor : 1..MaxCursor, val : Vals]

VARIABLES
    provider,   \* the warehouse
    project,    \* [refs, kind, unique, selected]: the models directory
    raw,        \* rows of the raw relation
    rel,        \* Models -> rows of the materialized relation
    by,         \* Models -> the run that published it last, 0 for none (history)
    fence,      \* Models -> the destination fence: the highest token claimed
    holder,     \* the run that holds the lease, 0 for none
    runs        \* the runs started so far, each a record

vars == <<provider, project, raw, rel, by, fence, holder, runs>>
static == <<provider, project>>

Run == 1..Len(runs)

------------------------------------------------------------------------------
(* TransformProject.ordered: depth first, a model after its references.         *)
RECURSIVE Visit(_, _)
Visit(acc, m) ==
    CASE acc.cycle \/ acc.mark[m] = 2 -> acc
      [] ~ acc.cycle /\ acc.mark[m] = 1 -> [acc EXCEPT !.cycle = TRUE]
      [] OTHER ->
           LET deps  == SelectSeq(project.refs[m], LAMBDA ref : ref \in Models)
               after == FoldLeft(Visit, [acc EXCEPT !.mark[m] = 1], deps)
           IN  IF after.cycle THEN after
               ELSE [after EXCEPT !.mark[m] = 2, !.out = Append(@, m)]

RECURSIVE MutVisit(_, _)
MutVisit(acc, m) ==
    CASE acc.cycle \/ acc.mark[m] # 0 -> acc
      [] OTHER ->
           LET deps == SelectSeq(project.refs[m], LAMBDA ref : ref \in Models)
           IN  FoldLeft(MutVisit, [acc EXCEPT !.mark[m] = 2, !.out = Append(@, m)], deps)

Unvisited == [mark |-> [m \in Models |-> 0], out |-> <<>>, cycle |-> FALSE]

MutTraversal ==
    IF project.graph THEN [Unvisited EXCEPT !.out = project.selected]
    ELSE FoldLeft(MutVisit, Unvisited, project.selected)

(* The targets of a graph are published in the graph's order.                    *)
Traversal ==
    IF project.graph THEN [Unvisited EXCEPT !.out = project.selected]
    ELSE FoldLeft(Visit, Unvisited, project.selected)

(* compile: a model is portable or written for the warehouse.                    *)
Compiles(m) == project.dialect[m] \in {"portable", provider}

(* _model_plan and _graph_plan of the warehouse: what it cannot materialize is     *)
(* refused before the first model is touched; a permanent view's DDL cannot be     *)
(* fenced in Snowflake and Redshift.                                            *)
SnowflakePlans(m) == project.kind[m] # "view"
RedshiftPlans(m) == project.kind[m] # "view"

Supported(m) ==
    /\ provider = "snowflake" => SnowflakePlans(m)
    /\ provider = "redshift" => RedshiftPlans(m)
    /\ Compiles(m)

Preflight ==
    /\ Range(project.selected) \subseteq Models /\ ~ Traversal.cycle
    /\ project.graph => project.selected # <<>>
    /\ \A i \in DOMAIN Traversal.out : Supported(Traversal.out[i])

(* What a reference reads: a view is evaluated, a table holds its rows.          *)
RECURSIVE Read(_)
Read(ref) ==
    IF ref = RawRef THEN raw
    ELSE IF project.kind[ref] = "view" THEN UNION {Read(x) : x \in Range(project.refs[ref])}
    ELSE rel[ref]

Query(m) == UNION {Read(x) : x \in Range(project.refs[m])}

------------------------------------------------------------------------------
(* Incremental materialization.                                                *)
Newer(a, b) == a.cursor > b.cursor \/ (a.cursor = b.cursor /\ a.val >= b.val)

(* ROW_NUMBER or DISTINCT ON: one row per key, by cursor and then by content.    *)
Latest(rows) == {a \in rows : \A b \in rows : a.key = b.key => Newer(a, b)}

Upsert(t, rows) == {b \in t : \A a \in rows : a.key # b.key} \cup rows

(* BigQuery's MERGE and PostgreSQL's INSERT ... ON CONFLICT read again what is at  *)
(* or above the target's maximum cursor.                                        *)
Boundary(rows, t) == {a \in rows : t = {} \/ \A b \in t : a.cursor >= b.cursor}

BigQueryMerge(rows, t) == Upsert(t, Latest(Boundary(rows, t)))

PostgresUpsert(rows, t) == Upsert(t, Latest(Boundary(rows, t)))

(* Snowflake and Redshift stage every row and compare key by key: an older one      *)
(* is neither updated nor, the key being there, inserted.                         *)
Accepted(rows, t) == {a \in rows : \A b \in t : a.key = b.key => a.cursor >= b.cursor}

SnowflakeMerge(staged, t) == Upsert(t, Accepted(staged, t))

RedshiftUpdateInsert(staged, t) ==
    LET updated  == {b \in t : \A a \in Accepted(staged, t) : a.key # b.key}
                      \cup {a \in Accepted(staged, t) : \E b \in t : a.key = b.key}
        inserted == {a \in staged : \A b \in t : a.key # b.key}
    IN  updated \cup inserted

------------------------------------------------------------------------------
Init ==
    /\ \E s \in Setups : provider = s.provider /\ project = s.project
    /\ raw = {} /\ rel = [m \in Models |-> {}]
    /\ by = [m \in Models |-> 0] /\ fence = [m \in Models |-> 0]
    /\ holder = 0 /\ runs = <<>>

(* What each runner does for one model or graph target, in order.                  *)
BigQueryBuild == <<"verify", "publish">>
PostgresBuild == <<"verify", "claim", "publish">>
PostgresGraph == <<"verify", "claim", "verify", "publish">>
SnowflakeBuild == <<"verify", "claim", "verify", "stage", "publish">>
SnowflakeGraph == <<"verify", "claim", "verify", "stage", "publish">>
RedshiftBuild == <<"verify", "claim", "verify", "stage", "publish">>
RedshiftGraph == <<"verify", "claim", "verify", "stage", "publish">>

Path ==
    IF project.graph
    THEN [postgres |-> PostgresGraph, snowflake |-> SnowflakeGraph, redshift |-> RedshiftGraph][provider]
    ELSE [bigquery |-> BigQueryBuild, postgres |-> PostgresBuild,
          snowflake |-> SnowflakeBuild, redshift |-> RedshiftBuild][provider]

NewRun == [pc |-> "ingest", step |-> 1, todo |-> <<>>, built |-> <<>>, staged |-> {}, failing |-> FALSE]
Set(r, rec) == runs' = [runs EXCEPT ![r] = rec]
At(r, pc) == runs[r].pc = pc
Does(r, what) == At(r, "build") /\ Path[runs[r].step] = what
Advance(r) == Set(r, [runs[r] EXCEPT !.step = @ + 1])
End(r, pc) == Set(r, [NewRun EXCEPT !.pc = pc])
Target(r) == Head(runs[r].todo)
Live(r) == runs[r].pc \notin {"done", "failed"}

Start ==
    /\ holder = 0 /\ Len(runs) < MaxRuns
    /\ runs' = Append(runs, NewRun)
    /\ holder' = Len(runs) + 1
    /\ UNCHANGED <<static, raw, rel, by, fence>>

(* The ingestion stage of the run, whose writers only the holder gets through.    *)
Ingest(r) ==
    /\ At(r, "ingest") /\ holder = r
    /\ \/ raw' = raw
       \/ /\ Cardinality(raw) < MaxRows
          /\ \E row \in Row : /\ LateRows \/ \A b \in raw : row.cursor >= b.cursor
                              /\ raw' = raw \cup {row}
       \/ LateRows /\ \E row \in raw : raw' = raw \ {row}
    /\ Set(r, [runs[r] EXCEPT !.pc = "preflight"])
    /\ UNCHANGED <<static, rel, by, fence, holder>>

(* build: the whole selection is compiled before the warehouse is touched.        *)
Plan(r) ==
    /\ At(r, "preflight")
    /\ IF Preflight
       THEN Set(r, [runs[r] EXCEPT !.pc = "build", !.todo = Traversal.out])
       ELSE End(r, "failed")
    /\ UNCHANGED <<static, raw, rel, by, fence, holder>>

(* ownership.verify()                                                           *)
Verify(r) ==
    /\ Does(r, "verify")
    /\ IF holder = r THEN Advance(r) ELSE End(r, "failed")
    /\ UNCHANGED <<static, raw, rel, by, fence, holder>>

(* target_fence.claim: a newer run's claim stands.                               *)
Claim(r) ==
    /\ Does(r, "claim")
    /\ IF fence[Target(r)] <= r
       THEN fence' = [fence EXCEPT ![Target(r)] = r] /\ Advance(r)
       ELSE fence' = fence /\ End(r, "failed")
    /\ UNCHANGED <<static, raw, rel, by, holder>>

(* CREATE TEMP TABLE ... AS: the query's rows, one per key when incremental.      *)
Stage(r) ==
    /\ Does(r, "stage")
    /\ Set(r, [runs[r] EXCEPT !.step = @ + 1,
                 !.staged = IF project.kind[Target(r)] = "incremental"
                            THEN Latest(Query(Target(r))) ELSE Query(Target(r))])
    /\ UNCHANGED <<static, raw, rel, by, fence, holder>>

(* The destination fence's row is checked in the publishing transaction.           *)
Fenced(r) == fence[Target(r)] = r

(* BigQuery: CREATE OR REPLACE is not fenced, a MERGE touches the lease's row.      *)
BigQueryFenced(r) == project.kind[Target(r)] = "incremental" => holder = r

(* The model is done: on to the next one, to the tests, or for a graph to the end.   *)
NextModel(r) ==
    LET rest  == Tail(runs[r].todo)
        built == Append(runs[r].built, Target(r))
        next  == [runs[r] EXCEPT !.staged = {}, !.step = 1, !.built = built, !.todo = rest]
    IN  CASE rest # <<>> -> Set(r, next)
          [] rest = <<>> /\ project.graph -> End(r, "done")
          [] OTHER -> Set(r, [next EXCEPT !.pc = "test", !.todo = built, !.built = <<>>])

Materialize(r, rows) ==
    /\ rel' = [rel EXCEPT ![Target(r)] = rows]
    /\ by' = [by EXCEPT ![Target(r)] = r]
    /\ UNCHANGED <<static, raw, fence, holder>>

PublishBigQuery(r) ==
    /\ provider = "bigquery" /\ Does(r, "publish") /\ BigQueryFenced(r)
    /\ LET t == rel[Target(r)]
       IN  Materialize(r, [view |-> t, table |-> Query(Target(r)),
                           incremental |-> BigQueryMerge(Query(Target(r)), t)][project.kind[Target(r)]])
    /\ NextModel(r)

(* One transaction: create, truncate or upsert, or for a graph stage and replace.     *)
PublishPostgres(r) ==
    /\ provider = "postgres" /\ Does(r, "publish") /\ Fenced(r)
    /\ LET t == rel[Target(r)]
       IN  Materialize(r, [view |-> t, table |-> Query(Target(r)),
                           incremental |-> PostgresUpsert(Query(Target(r)), t)][project.kind[Target(r)]])
    /\ NextModel(r)

(* The staged rows are published in one fenced transaction; dropping the temporary    *)
(* table afterwards may fail, and fails the run although the rows are published.      *)
PublishSnowflake(r) ==
    /\ provider = "snowflake" /\ Does(r, "publish") /\ Fenced(r)
    /\ Materialize(r, IF project.kind[Target(r)] = "table" THEN runs[r].staged
                      ELSE SnowflakeMerge(runs[r].staged, rel[Target(r)]))
    /\ NextModel(r) \/ End(r, "failed")

PublishRedshift(r) ==
    /\ provider = "redshift" /\ Does(r, "publish") /\ Fenced(r)
    /\ Materialize(r, IF project.kind[Target(r)] = "table" THEN runs[r].staged
                      ELSE RedshiftUpdateInsert(runs[r].staged, rel[Target(r)]))
    /\ NextModel(r) \/ End(r, "failed")

(* TargetFenceLostError, or the lease assertion of a BigQuery script.                *)
Lost(r) ==
    /\ Does(r, "publish")
    /\ ~ (IF provider = "bigquery" THEN BigQueryFenced(r) ELSE Fenced(r))
    /\ End(r, "failed")
    /\ UNCHANGED <<static, raw, rel, by, fence, holder>>

Publish(r) == PublishBigQuery(r) \/ PublishPostgres(r) \/ PublishSnowflake(r) \/ PublishRedshift(r)

(* _run_assertions: every test runs, the failures are reported together.           *)
Passes(m) == project.unique[m] => \A a, b \in Read(m) : a.key = b.key => a = b

Test(r) ==
    /\ At(r, "test")
    /\ IF holder # r THEN End(r, "failed")
       ELSE LET failing == runs[r].failing \/ ~ Passes(Target(r))
            IN  IF Len(runs[r].todo) > 1
                THEN Set(r, [runs[r] EXCEPT !.todo = Tail(@), !.failing = failing])
                ELSE End(r, IF failing THEN "failed" ELSE "done")
    /\ UNCHANGED <<static, raw, rel, by, fence, holder>>

(* A statement fails or the process dies: what was published stays.                *)
Crash(r) ==
    /\ Live(r)
    /\ End(r, "failed")
    /\ UNCHANGED <<static, raw, rel, by, fence, holder>>

(* The holder has ended and releases the lease, or its lease runs out.             *)
LoseLease ==
    /\ holder # 0
    /\ holder' = 0
    /\ UNCHANGED <<static, raw, rel, by, fence, runs>>

Next ==
    \/ Start \/ LoseLease
    \/ \E r \in Run : \/ Ingest(r) \/ Plan(r) \/ Verify(r) \/ Claim(r) \/ Stage(r)
                      \/ Publish(r) \/ Lost(r) \/ Test(r) \/ Crash(r)

Spec == Init /\ [][Next]_vars

------------------------------------------------------------------------------
(* Types: an ended run keeps nothing, and one that is building knows its models.  *)
TypeOK ==
    /\ raw \subseteq Row /\ holder \in 0..Len(runs)
    /\ \A m \in Models : rel[m] \subseteq Row /\ by[m] \in 0..Len(runs) /\ fence[m] \in 0..Len(runs)
    /\ \A r \in Run : runs[r].pc \in {"build", "test"}
                        => runs[r].todo # <<>>

Succeeded(r) == runs[r].pc = "done" /\ r = Len(runs)

(* After a build that succeeded and before the next run starts, every model of    *)
(* the selection shows what its query returns now: a table exactly, an            *)
(* incremental model the latest row of every key, unless it holds a newer one.    *)
Current ==
    \A r \in Run : Succeeded(r) =>
        \A i \in DOMAIN Traversal.out :
            LET m == Traversal.out[i]
            IN  /\ project.kind[m] = "table" => rel[m] = Query(m)
                /\ project.kind[m] = "incremental" =>
                     \A a \in Latest(Query(m)) :
                        a \in rel[m] \/ \E b \in rel[m] : b.key = a.key /\ b.cursor > a.cursor

(* The cursor of a key of an incremental model never goes back                     *)
(* (docs/redshift.md: incremental models reject cursor regression).               *)
NeverRegresses ==
    \A m \in Models : project.kind[m] = "incremental" =>
          \A a \in rel[m] : \E b \in rel'[m] : a.key = b.key /\ b.cursor >= a.cursor

(* An incremental model holds one row per key, whichever runs merged into it.       *)
OneRowPerKey ==
    \A m \in Models : project.kind[m] = "incremental" =>
        \A a, b \in rel[m] : a.key = b.key => a = b

(* A relation is never taken back by a run older than the one that published it.     *)
NeverOlder == \A m \in Models : by'[m] >= by[m]

(* A run that succeeded left models that pass their data tests.                     *)
TestsHold ==
    \A r \in Run : Succeeded(r) => \A i \in DOMAIN Traversal.out : Passes(Traversal.out[i])

(* A selection that cannot be built, because of a cycle or of a model its warehouse  *)
(* cannot materialize, publishes none of its models.                               *)
AllOrNothing == ~ Preflight => \A m \in Models : by[m] = 0
=============================================================================
