----------------------------- MODULE MCDataPlane -----------------------------
(***************************************************************************)
(* The data plane: extraction, writing, transformation, repair, metadata,  *)
(* and the graphs that are edited and compiled, checked in two runs (Parts *)
(* says which).  A behaviour is one of one component: `part` names the     *)
(* instance that is at work and never changes, and the component's         *)
(* variables are v1 to v19, as its INSTANCE says; those it does not use    *)
(* are Idle.                                                               *)
(***************************************************************************)
EXTENDS Integers, Sequences, FiniteSets, TLC

CONSTANTS
    Parts,                      \* the instances of a run
    None, Absent, NoKey, OpenEnd, Rejected, NULL,
    t1, t2, x1, x2              \* browser tabs and executions

VARIABLES
    part, v1, v2, v3, v4, v5, v6, v7, v8, v9, v10, v11, v12, v13, v14, v15, v16, v17, v18, v19

rest6 == <<v6, v7, v8, v9, v10, v11, v12, v13, v14, v15, v16, v17, v18, v19>>
rest7 == <<v7, v8, v9, v10, v11, v12, v13, v14, v15, v16, v17, v18, v19>>
rest9 == <<v9, v10, v11, v12, v13, v14, v15, v16, v17, v18, v19>>
rest10 == <<v10, v11, v12, v13, v14, v15, v16, v17, v18, v19>>
rest12 == <<v12, v13, v14, v15, v16, v17, v18, v19>>
rest15 == <<v15, v16, v17, v18, v19>>

suiteVars ==
    <<part, v1, v2, v3, v4, v5, v6, v7, v8, v9, v10, v11, v12, v13, v14, v15, v16, v17, v18, v19>>

-----------------------------------------------------------------------------
(* Executions that write into one target of two keys, as batches or, for     *)
(* Snowflake, one load each, with the run ids in every order: repeated keys  *)
(* in both cursor orders, an older record alone, a record without a key, and *)
(* nothing.                                                                  *)
Rec(k, v, c) == [k |-> k, v |-> v, c |-> c]

SomeLoads == {<< >>,
              <<Rec("k", "y", 2), Rec("k", "x", 1)>>,
              <<Rec("k", "x", 1), Rec("l", "x", 2), Rec("k", "y", 3)>>,
              <<Rec(NoKey, "x", 1)>>}
Older == {<<Rec("k", "y", 1)>>}
Shrinking == {<<Rec("k", "y", 2), Rec("k", "x", 1)>>, <<Rec("k", "y", 2)>>}

WriteParts == [writes_redshift |-> "redshift", writes_direct |-> "redshift", writes_snowflake |-> "snowflake",
               writes_postgresql |-> "postgresql", writes_bigquery |-> "bigquery"]

Writes(p) == INSTANCE DestinationWrites WITH
    Warehouse <- WriteParts[p], Modes <- {"scd1", "scd2", "snapshot", "incremental", "replace"},
    Loads <- CASE p = "writes_snowflake" -> Shrinking
               [] p \in {"writes_bigquery", "writes_redshift"} -> SomeLoads
               [] OTHER -> SomeLoads \union Older,
    Open <- OpenEnd,
    MaxRun <- IF p = "writes_snowflake" THEN 3 ELSE 2, MaxWrites <- 2,
    DirectMaxRows <- IF p = "writes_direct" THEN 1 ELSE 0, RowsPerFile <- 1,
    mode <- v1, table <- v2, history <- v3, fence <- v4, staged <- v5, pc <- v6, load <- v7,
    pending <- v8, writes <- v9, publisher <- v10, clock <- v11, run <- v12, latest <- v13,
    skipped <- v14

(* Three runs with declarations that extend or contradict one another.       *)
Col(name, type, required) == [name |-> name, type |-> type, required |-> required]
Id == Col("id", "text", TRUE)

SchemaParts == [schema_redshift |-> "redshift", schema_snowflake |-> "snowflake",
                schema_postgresql |-> "postgresql", schema_bigquery |-> "bigquery",
                schema_unreconciled |-> "bigquery"]

Schema(p) == INSTANCE SchemaEvolution WITH
    Warehouse <- SchemaParts[p],
    Declarations <- {{Id}, {Id, Col("a", "text", FALSE)}, {Id, Col("a", "int", FALSE)},
                     {Id, Col("a", "text", FALSE), Col("b", "int", FALSE)},
                     {Id, Col("b", "int", TRUE)}}
                    \union IF p # "schema_unreconciled" THEN {}
                           ELSE {{Col("id", "text", FALSE), Col("a", "int", FALSE), Col("b", "int", FALSE)},
                                 {Col("id", "text", FALSE), Col("a", "text", FALSE)}},
    Reconciles <- p # "schema_unreconciled",
    Initial <- {Absent, {Id}, {Id, Col("a", "text", FALSE)}},
    MaxRun <- IF p \in {"schema_bigquery", "schema_unreconciled"} THEN 2 ELSE 3,
    deployed <- v1, version <- v2, additive <- v3, declared <- v4, fence <- v5, pc <- v6,
    plan <- v7, seen <- v8

(* Canonical types at the limits of the warehouses' types.                   *)
Plain(kind) == [kind |-> kind, bits |-> 0, prec |-> 0, scale |-> 0, tz |-> FALSE, frac |-> 0,
                elem |-> "none"]

Limits ==
    {Plain(kind) : kind \in {"boolean", "string", "binary", "date", "json", "record", "time", "timestamp"}}
    \union {[Plain("integer") EXCEPT !.bits = b] : b \in {8, 16, 32, 64}}
    \union {[Plain("float") EXCEPT !.bits = b] : b \in {32, 64}}
    \union {[Plain("decimal") EXCEPT !.prec = p, !.scale = s] :
               p \in {10, 29, 30, 38, 39}, s \in {0, 1, 9, 10}}
    \union {[Plain("time") EXCEPT !.frac = f] : f \in 1..9}
    \union {[Plain("timestamp") EXCEPT !.frac = f, !.tz = z] : f \in {1, 6, 7, 9}, z \in BOOLEAN}
    \union {[Plain("array") EXCEPT !.elem = e] : e \in {"string", "array"}}

TypesOf == INSTANCE ColumnTypes WITH
    Warehouses <- {"redshift", "snowflake", "bigquery", "postgresql"}, Types <- Limits,
    warehouse <- v1, type <- v2, fallback <- v3, column <- v4, pc <- v5

-----------------------------------------------------------------------------
(* Models that are built: a chain with late rows, a chain at the boundary of *)
(* the cursor, and diamonds, cycles and graphs among selections that must be *)
(* refused.                                                                  *)
BuildParts == {"builds_late", "builds_boundary", "builds_shapes"}

ModelsOf(p) == IF p = "builds_shapes" THEN {1, 2, 3} ELSE {1, 2}

Project(refs, kind) ==
    [refs |-> refs, kind |-> kind, unique |-> [m \in DOMAIN refs |-> kind[m] = "incremental"],
     dialect |-> [m \in DOMAIN refs |-> "portable"], selected |-> [i \in DOMAIN refs |-> i],
     graph |-> FALSE]

Tables == <<"table", "table", "table">>
Targets == [Project(<<<<0>>, <<0>>, <<0>>>>, Tables) EXCEPT !.graph = TRUE]

In(w, projects) == {[provider |-> w, project |-> q] : q \in projects}

\* Model 1 reads model 2, which reads the raw relation.
Back == <<<<2>>, <<0>>>>
Diamond == <<<<2, 3>>, <<0>>, <<2>>>>
Cycle == <<<<2>>, <<3, 0>>, <<1>>>>

SetupsOf(p) ==
    CASE p = "builds_late" ->
            In("snowflake", {Project(Back, <<"incremental", "table">>)})
            \union In("redshift", {Project(Back, <<"incremental", "incremental">>)})
      [] p = "builds_boundary" ->
            In("postgres", {Project(Back, <<"incremental", "view">>)})
            \union In("bigquery", {Project(Back, <<"incremental", "view">>)})
      [] OTHER ->
            In("postgres", {Project(Cycle, Tables),
                            [Project(Diamond, Tables) EXCEPT !.selected = <<3>>, !.unique[2] = TRUE],
                            [Project(Diamond, Tables) EXCEPT !.kind[2] = "view"],
                            [Project(Diamond, Tables) EXCEPT !.selected = <<4>>],
                            [Targets EXCEPT !.selected = <<>>], [Targets EXCEPT !.dialect[3] = "bigquery"]})
            \union In("redshift", {[Project(Diamond, Tables) EXCEPT !.dialect[3] = "postgres"],
                                   [Project(Diamond, Tables) EXCEPT !.kind[2] = "view"],
                                   Targets})

Builds(p) == INSTANCE TransformBuilds WITH
    Models <- ModelsOf(p), Setups <- SetupsOf(p),
    Keys <- IF p = "builds_boundary" THEN {1, 2} ELSE {1},
    Vals <- IF p = "builds_late" THEN {1} ELSE {1, 2},
    MaxCursor <- IF p = "builds_shapes" THEN 1 ELSE 2, LateRows <- p # "builds_boundary",
    MaxRuns <- IF p = "builds_late" THEN 3 ELSE 2, MaxRows <- 2,
    provider <- v1, project <- v2, raw <- v3, rel <- v4, by <- v5, fence <- v6,
    holder <- v7, runs <- v8

(* Repairs: one output over rows whose keys move between dates, and two      *)
(* outputs with every way their relations may overlap.                       *)
RepairParts == {"repair_moves", "repair_outputs"}

Bound == [connector |-> "shop", inline |-> FALSE, endpoint |-> "orders",
          fields |-> {"id", "day"}, cursor |-> "day"]

\* Bound to another connector, an unknown endpoint or column, another cursor,
\* or to a request of its own.
Unbound ==
    {[Bound EXCEPT !.connector = "crm"], [Bound EXCEPT !.endpoint = "items"],
     [Bound EXCEPT !.fields = {"id", "secret"}], [Bound EXCEPT !.cursor = "val"],
     [Bound EXCEPT !.inline = TRUE]}

RepairTarget(d, p, k, m) == [dest |-> d, partition |-> p, keyed |-> k, mode |-> m]
Good(d) == RepairTarget(d, "DATE", TRUE, "replace")
Repaired(s, ts) == [sources |-> s, targets |-> ts]

RepairGraphs(p) ==
    IF p = "repair_moves" THEN {Repaired({Bound}, <<Good("out")>>)}
    ELSE {Repaired({Bound}, <<Good(a), Good(b)>>) : a \in {"out", "other"}, b \in {"out", "other", "raw"}}
         \union {Repaired({Bound}, <<Good("out"), RepairTarget("other", q, k, m)>>) :
                    q \in {"DATE", "NONE"}, k \in BOOLEAN, m \in {"replace", "scd1"}}
         \union {Repaired({s}, <<Good("out")>>) : s \in Unbound}
         \union {Repaired({}, <<Good("out")>>), Repaired({Bound}, <<>>)}

RawRow(day, val) == [key |-> 1, day |-> day, val |-> val]

\* At most two rows of a key, one of them perhaps undated, or a row without a
\* key; at most one row, dated.
RawSets(p) ==
    IF p = "repair_moves"
    THEN {{}, {[key |-> 0, day |-> 1, val |-> 1]}, {RawRow(1, 1)}, {RawRow(2, 1)}}
         \union {{RawRow(1, 2), RawRow(b, 1)} : b \in {0, 1, 2}}
    ELSE {{}, {RawRow(1, 1)}, {RawRow(1, 2)}, {RawRow(2, 1)}}

Repair(p) == INSTANCE OutputRepair WITH
    Connector <- "shop", Endpoints <- [orders |-> [fields |-> {"id", "day", "val"}, cursor |-> "day"]],
    Graphs <- RepairGraphs(p), Raw <- "raw", Relations <- {"raw", "out", "other"}, Keys <- {1},
    Days <- {1, 2}, Vals <- {1, 2}, RawStates <- RawSets(p),
    MaxRuns <- IF p = "repair_moves" THEN 3 ELSE 2, MaxIngests <- IF p = "repair_moves" THEN 2 ELSE 1,
    graph <- v1, rel <- v2, asof <- v3, ingests <- v4, holder <- v5, runs <- v6

(* Metadata of two assets, one of which loses a column and gains another     *)
(* between the releases of the runs.                                         *)
CatalogParts == {"glue", "dataplex"}

Metadata(p) == INSTANCE MetadataPublication WITH
    Catalog <- p, MaxRuns <- IF p = "glue" THEN 2 ELSE 3, Tags <- {"t1"},
    Columns <- [r \in 1 .. (IF p = "glue" THEN 2 ELSE 3) |->
                  [a \in {"orders", "people"} |->
                     IF a = "people" THEN {"id"} ELSE IF r = 1 THEN {"id", "old"} ELSE {"id", "new"}]],
    Assets <- [r \in 1 .. (IF p = "glue" THEN 2 ELSE 3) |-> <<"orders", "people">>],
    MaxLosses <- IF p = "glue" THEN 1 ELSE 2, MaxCrashes <- 1, EditsAnytime <- p = "dataplex",
    holder <- v1, pc <- v2, verified <- v3, todo <- v4, seen <- v5, snapshot <- v6,
    files <- v7, database <- v8, entries <- v9, late <- v10, faults <- v11

-----------------------------------------------------------------------------
(* Two extractions of a table that changes while its pages are read.         *)
EngineOf == [pages_workday |-> "workday", pages_suiteql |-> "suiteql",
             pages_odoo |-> "odoo", pages_servicenow |-> "servicenow"]

Pages(p) == INSTANCE PagedExtraction WITH
    Engine <- EngineOf[p], Ids <- 1 .. (IF p = "pages_odoo" THEN 3 ELSE 4),
    Initial <- 1 .. (IF p = "pages_odoo" THEN 2 ELSE 3),
    PageSize <- IF p = "pages_odoo" THEN 1 ELSE 2, MaxClock <- 3, MaxRuns <- 2,
    MaxRetries <- IF p = "pages_odoo" THEN 0 ELSE 1, Ties <- p = "pages_odoo",
    table <- v1, clock <- v2, pc <- v3, runs <- v4, since <- v5, offset <- v6,
    attempt <- v7, more <- v8, got <- v9, largest <- v10, target <- v11, start <- v12,
    moved <- v13, ever <- v14

Salesforce == INSTANCE SalesforceJobs WITH
    Ids <- {1, 2}, PageSize <- 1, MaxClock <- 2, MaxRuns <- 2, MaxRetries <- 1, MaxPolls <- 2,
    MaxJobs <- 2, Faults <- {"lost", "truncated", "loop", "failed"},
    table <- v1, clock <- v2, jobs <- v3, pc <- v4, job <- v5, attempt <- v6, polls <- v7,
    locator <- v8, seen <- v9, rows <- v10, count <- v11, largest <- v12, ok <- v13,
    since <- v14, target <- v15, start <- v16, runs <- v17, yielded <- v18,
    unanswered <- v19

(* Two tabs and an editor on one graph, two other parts of the project.      *)
ServeParts == {"saves", "previews"}

Serve(p) == INSTANCE GraphServe WITH
    Tabs <- {t1, t2}, OtherParts <- IF p = "saves" THEN {} ELSE {"models", "infra"},
    Executions <- IF p = "saves" THEN {x1, x2} ELSE {x1},
    MaxWrites <- IF p = "saves" THEN 4 ELSE 3,
    Requests <- {"save"} \union IF p = "saves" THEN {"run"} ELSE {"preview"},
    file <- v1, parts <- v2, invalid <- v3, written <- v4, storeLock <- v5, runLock <- v6,
    previewLock <- v7, tab <- v8, execution <- v9, submitted <- v10, lostAnswer <- v11

-----------------------------------------------------------------------------
(* Graphs that are compiled: all sets of edges of three nodes, a dangling    *)
(* edge, a repeated id, cycles through four nodes; and pipelines of a source,*)
(* a transform of it, a third node that is a source or another transform, a  *)
(* fourth that joins or projects, and the target.                            *)
Same == [f \in {"a", "b"} |-> f]
Swap == ("a" :> "b") @@ ("b" :> "a")
OnlyA == ("a" :> "a")
OnlyB == ("b" :> "b")
BFromA == ("b" :> "a")

Edge(m, n, map) == [source |-> m, target |-> n, map |-> map]

Pairs == [i \in 1 .. 16 |-> <<((i - 1) \div 4) + 1, ((i - 1) % 4) + 1>>]
Structure(ids, E) ==
    LET pairs == SelectSeq(Pairs, LAMBDA p : p \in E) IN
    [ids |-> ids, edges |-> [i \in DOMAIN pairs |-> Edge(pairs[i][1], pairs[i][2], Same)],
     type |-> [n \in 1 .. 5 |-> "task"], join |-> [n \in 1 .. 5 |-> None],
     fields |-> [n \in 1 .. 5 |-> {"a", "b"}], ops |-> [n \in 1 .. 5 |-> <<>>]]

Structures ==
    {Structure(ids, E) : ids \in {<<1, 2, 3>>, <<3, 1, 2>>, <<1, 2, 1>>},
                         E \in SUBSET ((1 .. 3) \X (1 .. 3) \union {<<1, 4>>})}
    \union
    {Structure(<<1, 2, 3, 4>>, E) : E \in SUBSET {<<1, 2>>, <<1, 3>>, <<2, 4>>, <<3, 4>>, <<4, 1>>, <<4, 2>>}}

Third == {<<>>, <<Edge(1, 3, Same)>>, <<Edge(2, 3, Swap)>>}
Fourth ==
    {[edges |-> <<Edge(m, 4, f)>>, join |-> None] : m \in 1 .. 3, f \in {Same, Swap, OnlyA}}
    \union {[edges |-> <<Edge(1, 4, OnlyA), Edge(2, 4, OnlyB)>>, join |-> None]}
    \union
    {[edges |-> <<Edge(q[1], 4, f), Edge(q[2], 4, h)>>,
      join |-> [left |-> IF left THEN q[1] ELSE q[2], right |-> IF left THEN q[2] ELSE q[1], type |-> t]] :
        q \in {r \in (1 .. 3) \X (1 .. 3) : r[1] < r[2]}, f \in {Same, OnlyA}, h \in {OnlyB, BFromA},
        left \in BOOLEAN, t \in {"inner", "left", "right", "full"}}

Pipelines ==
    {[ids |-> <<5, 4, 3, 2, 1>>,
      edges |-> <<Edge(1, 2, Same)>> \o third \o fourth.edges \o <<Edge(4, 5, Same)>>,
      type |-> 1 :> "source" @@ 2 :> "transform" @@ 3 :> (IF third = <<>> THEN "source" ELSE "transform")
               @@ 4 :> "transform" @@ 5 :> "target",
      join |-> [n \in 1 .. 5 |-> IF n = 4 THEN fourth.join ELSE None],
      fields |-> [n \in 1 .. 5 |-> IF n = 3 /\ third = <<>> THEN three ELSE {"a", "b"}],
      ops |-> [n \in 1 .. 5 |-> CASE n = 2 -> two [] n = 4 -> four [] OTHER -> <<>>]] :
        third \in Third, fourth \in Fourth, three \in {{"a"}, {"a", "b"}},
        two \in {<<"default", "filter">>, <<"filter", "default">>},
        four \in {<<>>, <<"default">>}}

CompileParts == {"structures", "queries"}

Compile(p) == INSTANCE GraphCompilation WITH
    Graphs <- IF p = "structures" THEN Structures ELSE Pipelines,
    Target <- IF p = "structures" THEN 3 ELSE 5,
    Rows <- 1 :> {("a" :> 0) @@ ("b" :> 1), ("a" :> 1) @@ ("b" :> NULL), ("a" :> NULL) @@ ("b" :> 0)}
         @@ 3 :> {("a" :> 1) @@ ("b" :> 0), ("a" :> NULL) @@ ("b" :> 1)},
    g <- v1, phase <- v2, why <- v3, color <- v4, order <- v5, path <- v6, ctes <- v7,
    alias <- v8, frames <- v9

-----------------------------------------------------------------------------
Idle == "idle"
IdleFrom15 == v15 = Idle /\ v16 = Idle /\ v17 = Idle /\ v18 = Idle /\ v19 = Idle
IdleFrom12 == v12 = Idle /\ v13 = Idle /\ v14 = Idle /\ IdleFrom15
IdleFrom10 == v10 = Idle /\ v11 = Idle /\ IdleFrom12
IdleFrom9 == v9 = Idle /\ IdleFrom10
IdleFrom7 == v7 = Idle /\ v8 = Idle /\ IdleFrom9
IdleFrom6 == v6 = Idle /\ IdleFrom7

Init ==
    /\ part \in Parts
    /\ \/ \E p \in DOMAIN WriteParts : part = p /\ Writes(p)!Init /\ IdleFrom15
       \/ \E p \in DOMAIN SchemaParts : part = p /\ Schema(p)!Init /\ IdleFrom9
       \/ part = "columns" /\ TypesOf!Init /\ IdleFrom6
       \/ \E p \in BuildParts : part = p /\ Builds(p)!Init /\ IdleFrom9
       \/ \E p \in RepairParts : part = p /\ Repair(p)!Init /\ IdleFrom7
       \/ \E p \in CatalogParts : part = p /\ Metadata(p)!Init /\ IdleFrom12
       \/ \E p \in DOMAIN EngineOf : part = p /\ Pages(p)!Init /\ IdleFrom15
       \/ part = "salesforce" /\ Salesforce!Init
       \/ \E p \in ServeParts : part = p /\ Serve(p)!Init /\ IdleFrom12
       \/ \E p \in CompileParts : part = p /\ Compile(p)!Init /\ IdleFrom10

Next ==
    \/ \E p \in DOMAIN WriteParts : part = p /\ Writes(p)!Next /\ UNCHANGED <<part, rest15>>
    \/ \E p \in DOMAIN SchemaParts : part = p /\ Schema(p)!Next /\ UNCHANGED <<part, rest9>>
    \/ part = "columns" /\ TypesOf!Next /\ UNCHANGED <<part, rest6>>
    \/ \E p \in BuildParts : part = p /\ Builds(p)!Next /\ UNCHANGED <<part, rest9>>
    \/ \E p \in RepairParts : part = p /\ Repair(p)!Next /\ UNCHANGED <<part, rest7>>
    \/ \E p \in CatalogParts : part = p /\ Metadata(p)!Next /\ UNCHANGED <<part, rest12>>
    \/ \E p \in DOMAIN EngineOf : part = p /\ Pages(p)!Next /\ UNCHANGED <<part, rest15>>
    \/ part = "salesforce" /\ Salesforce!Next /\ UNCHANGED part
    \/ \E p \in ServeParts : part = p /\ Serve(p)!Next /\ UNCHANGED <<part, rest12>>
    \/ \E p \in CompileParts : part = p /\ Compile(p)!Next /\ UNCHANGED <<part, rest10>>

Spec == Init /\ [][Next]_suiteVars

\* What each component asks of its constants.
ASSUME InstancesAssumption ==
    /\ \A p \in DOMAIN WriteParts : Writes(p)!WritesAssumption
    /\ \A p \in DOMAIN SchemaParts : Schema(p)!SchemaAssumption
    /\ TypesOf!TypesAssumption
    /\ \A p \in CatalogParts : Metadata(p)!CatalogAssumption /\ Metadata(p)!AssetsAssumption
    /\ \A p \in DOMAIN EngineOf : Pages(p)!EngineAssumption

-----------------------------------------------------------------------------
(***************************************************************************)
(* Properties of the warehouses.                                           *)
(***************************************************************************)

\* A write that returned has taken effect, through retries, lost answers and
\* superseding runs; an scd2 history never overlaps or repeats itself; and no
\* staging is left (providers/*/writer.py).
WritesTakeEffect ==
    \A p \in DOMAIN WriteParts : part = p =>
        /\ Writes(p)!TypeOK /\ Writes(p)!TakesEffect /\ Writes(p)!OneHistory
        /\ p # "writes_postgresql" => Writes(p)!NoLitter

\* Once a newer run has published, no older run changes the target again, and
\* no publication loses a version, a snapshot row or a newer cursor.
NoOlderPublication ==
    [][\A p \in DOMAIN WriteParts : part = p =>
         Writes(p)!NothingLost /\ Writes(p)!NoOlderPublication]_suiteVars

\* A target only gains nullable columns, and where the columns change inside
\* the publication a superseded run changes none (providers/*/schema.py).
ColumnsOnlyGrow ==
    [][\A p \in DOMAIN SchemaParts : part = p =>
         /\ Schema(p)!OnlyAdds
         /\ p \in {"schema_redshift", "schema_postgresql"} => Schema(p)!FencedSchema]_suiteVars

\* What a run published still has the columns it declared, whatever runs with
\* other declarations did meanwhile; a column that a writer created is
\* recognised by its next write and is large enough for its declared type.
PublishedFits ==
    /\ \A p \in DOMAIN SchemaParts : part = p => Schema(p)!TypeOK /\ Schema(p)!PublishedFits
    /\ part = "columns" => TypesOf!NoFalseDrift /\ TypesOf!NoSilentLoss

\* After a build that succeeded every selected model shows what its query
\* returns and passes its tests, a selection that cannot be built publishes
\* nothing; and each output of a repair that is done is, in its window, what
\* its query returns (transforms, output repair).
BuildsAreCurrent ==
    /\ \A p \in BuildParts : part = p =>
         /\ Builds(p)!TypeOK /\ Builds(p)!OneRowPerKey /\ Builds(p)!Current
         /\ Builds(p)!TestsHold /\ Builds(p)!AllOrNothing
    /\ \A p \in RepairParts : part = p => Repair(p)!TypeOK /\ Repair(p)!RepairedAgrees

\* No relation is taken back by an older run, and no cursor goes back; a repair
\* touches nothing outside its window, makes no key appear twice, deletes no
\* key that only moved, and keeps the raw rows.
NothingGoesBack ==
    [][/\ \A p \in BuildParts : part = p =>
            /\ Builds(p)!NeverRegresses
            /\ p = "builds_shapes" => Builds(p)!NeverOlder
       /\ \A p \in RepairParts : part = p =>
            /\ Repair(p)!NeverOlder /\ Repair(p)!RawKept /\ Repair(p)!NeverMakesDuplicates
            /\ Repair(p)!NoKeyVanishes /\ Repair(p)!OutsideUntouched]_suiteVars

\* What other tools attached to an entry is kept; a run that lost its lease
\* makes at most one more publication, readers find one run's whole registry,
\* and when a run records success no later run has published anything.
MetadataIsHonest ==
    /\ [](\A p \in CatalogParts : part = p =>
            /\ Metadata(p)!TypeOK /\ Metadata(p)!RegistryIsWhole
            /\ Metadata(p)!OnePublicationAfterLoss)
    /\ [][\A p \in CatalogParts : part = p =>
            /\ Metadata(p)!UnrelatedIsKept
            /\ p = "dataplex" => Metadata(p)!SuccessIsCurrent]_suiteVars

-----------------------------------------------------------------------------
(***************************************************************************)
(* Properties of the sources and of the graphs.                            *)
(***************************************************************************)

\* When an extraction completes, the target has every record as it was when the
\* extraction began, or newer; a Salesforce extraction yielded its job's
\* snapshot, each row once, and the job it knows of is deleted.
CaughtUp ==
    /\ [](part = "salesforce" => Salesforce!TypeOK /\ Salesforce!KnownJobDeleted)
    /\ [][/\ \A p \in DOMAIN EngineOf : part = p => Pages(p)!CaughtUp
          /\ part = "salesforce" => Salesforce!WholeResult /\ Salesforce!CaughtUp]_suiteVars

\* A save replaces the content its author opened and no other; two tabs never
\* have two executions of the job at once; and a preview that is returned was
\* built from one state of the project (dander serve).
EditsAreSafe ==
    /\ [](\A p \in ServeParts : part = p =>
            /\ Serve(p)!TypeOK /\ Serve(p)!PreviewOfOneProject
            /\ p = "saves" => Serve(p)!OneActiveExecution)
    /\ [][\A p \in ServeParts : part = p => Serve(p)!NoSilentOverwrite]_suiteVars

\* The compiler refuses exactly the graphs with a cycle, orders the others
\* topologically, and the finished query computes what the graph says.
QueryMeansGraph ==
    /\ part = "structures" => /\ Compile("structures")!TypeOK /\ Compile("structures")!CyclesReported
                              /\ Compile("structures")!OrderIsTopological
    /\ part = "queries" => Compile("queries")!NamesResolve /\ Compile("queries")!QueryMeansGraph
=============================================================================
