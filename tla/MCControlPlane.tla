--------------------------- MODULE MCControlPlane ---------------------------
(* Small instances of ControlPlane for TLC, in two runs: Parts says which. *)
EXTENDS ControlPlane, TLC

CONSTANTS
    c1, c2, c3,                     \* processes of Control and their clients
    k1, k2, x1, x2, d, d1, d2,      \* idempotency keys and documents
    r1, n1,                         \* a repair and a normal run
    p1, p2, p3, e1, e2, near, far   \* plans, environments, localities

Two == {c1, c2}
Symmetric == Permutations(Two) \union Permutations({k1, k2}) \union Permutations({d1, d2})

-----------------------------------------------------------------------------
(* Schedules: one trigger whose definition changes its minutes and its plan  *)
(* while leadership changes; redelivery of what is due.                      *)
Scheduled(minutes, plan) == [minutes |-> minutes, enabled |-> TRUE, plan |-> plan]

OfSchedule(last, specs, deliveries, due, faults, skew) ==
    [Controls |-> Two, Triggers |-> {1}, Specs |-> specs, MaxDeliveries |-> deliveries,
     BatchSize |-> 2, MaxScan |-> 2, MaxDue |-> due, MaxMinute |-> last, MaxSkew |-> skew,
     MaxFaults |-> faults]

Schedules ==
    [leader |-> OfSchedule(2, {Scheduled({1, 2}, "planA"), Scheduled({2}, "planB")}, 1, 1, 1, 1),
     redelivery |-> OfSchedule(2, {Scheduled({1, 2}, "planA")}, 2, 2, 2, 0),
     sqs |-> OfSchedule(3, {Scheduled({1, 3}, "planA")}, 2, 2, 1, 0)]

OfStore == [Keys |-> {k1, k2}, Docs |-> {d1, d2}, MaxRevision |-> 4, MaxCrashes |-> 2]

OfListing(store) ==
    [Store |-> store, MaxGraph |-> 4, Limit |-> 1, MaxRounds |-> 3, MaxWrites |-> 2]

Stores ==
    [journal |-> [Workers |-> Two, CreateKeys |-> {k1, k2}, DeleteKeys |-> {x1, x2}, Docs |-> {d},
                  MaxVersion |-> 9, MaxCrashes |-> 1, MaxRequests |-> 4],
     memory |-> OfStore, postgresql |-> OfStore, local |-> OfStore,
     read_s3 |-> [Provider |-> "s3", MaxVersion |-> 6],
     read_gcs |-> [Provider |-> "gcs", MaxVersion |-> 6],
     list_memory |-> OfListing("memory"), list_s3 |-> OfListing("s3"),
     list_gcs |-> OfListing("gcs"), list_azure |-> OfListing("azure"),
     list_oci |-> OfListing("oci")]

-----------------------------------------------------------------------------
(* HTTP requests: two editors of a graph, and one client of every role with  *)
(* every flaw of a request.                                                  *)
Roles ==
    [viewer |-> {"viewer"}, editor |-> {"editor"}, operator |-> {"operator", "viewer"},
     admin |-> {"admin"}, stranger |-> {"admin"}, other |-> {"admin", "owner"}]

AllRoutes ==
    {"create", "put", "delete", "start", "repair", "cancel", "replay", "validate", "changes",
     "deployment", "repair-preview", "run", "explanation", "logs", "capabilities", "get"}

Edits ==
    [Clients |-> Two, Principals |-> {"admin"}, RolesOf |-> Roles, Allowlist |-> {},
     Hosted |-> TRUE, Wired |-> {"lifecycle"},
     Used |-> {"get", "create", "put", "delete", "start"}, Flaws |-> {"none"},
     Keys |-> {1}, Docs |-> {1}, MaxRevision |-> 2, MaxLost |-> 1]

Rights ==
    [Clients |-> {c1}, Principals |-> DOMAIN Roles, RolesOf |-> Roles,
     Allowlist |-> {"viewer", "editor", "operator", "admin"},
     Hosted |-> TRUE, Wired |-> {"lifecycle", "repairs"}, Used |-> AllRoutes,
     Flaws |-> {"none", "expired", "token_in_url", "origin", "no_header", "media_type",
                "large_body", "bad_body", "project", "bad_etag", "oversized"},
     Keys |-> {1}, Docs |-> {1}, MaxRevision |-> 1, MaxLost |-> 0]

(* Three plans: a small and a large one in the first environment, and one in *)
(* the second; every combination of candidates and defaults, or             *)
(* two clients whose retries find that the tables have outgrown a class.     *)
MCPlans == {p1, p2, p3}
EnvOfPlan == (p1 :> e1) @@ (p2 :> e1) @@ (p3 :> e2)
LocalityOf == (p1 :> near) @@ (p2 :> near) @@ (p3 :> far)
ClassMax == ("small" :> 1) @@ ("large" :> 2)

Partial(S, T) == UNION {[D -> T] : D \in SUBSET S}
Places(costs) == {[p \in DOMAIN f |-> [locality |-> LocalityOf[p], cost |-> f[p]]] :
                    f \in Partial(MCPlans, costs)}
Sizes == {[p \in DOMAIN f |-> [class |-> f[p], max |-> ClassMax[f[p]]]] :
            f \in Partial(MCPlans, {"small", "large"})}

EveryConfiguration ==
    [environment : {AnyEnvironment, e1}, places : Places({1, 3}), preferred : {near},
     maxCost : {2}, sizes : Sizes, default : {"small", None}, estimators : {{e1}}]

Measured ==
    [environment : {AnyEnvironment}, places : {[p \in MCPlans |-> [locality |-> LocalityOf[p], cost |-> 1]]},
     preferred : {near}, maxCost : {2},
     sizes : {(p1 :> [class |-> "small", max |-> 1]) @@ (p2 :> [class |-> "large", max |-> 2])},
     default : {"small"}, estimators : {{e1}}]

OfSelection(repairs, built, revisions, configurations, bytes, clients) ==
    [Plans |-> MCPlans, EnvOf |-> EnvOfPlan, Order |-> (p1 :> 1) @@ (p2 :> 2) @@ (p3 :> 3),
     Repairs |-> repairs, BuiltFor |-> built, Revisions |-> revisions,
     Configurations |-> configurations, Bytes |-> bytes, Clients |-> clients, Keys |-> {1}]

Services ==
    [edits |-> Edits, rights |-> Rights,
     configurations |-> OfSelection({p1}, [q \in MCPlans |-> 1], {1}, EveryConfiguration, {1, 2}, {c1}),
     retries |-> OfSelection({p1}, (p1 :> 1) @@ (p2 :> 2) @@ (p3 :> 1), {1, 2}, Measured, {3}, Two)]

-----------------------------------------------------------------------------
(* One Cloud Run Job: a repair that two processes observe and a normal run;  *)
(* one attempt of the other backends under two processes.                    *)
OfBackend == [Workers |-> Two, Retries |-> 1, MaxLines |-> 1, PageSize |-> 4, MaxPages |-> 2,
              MaxFaults |-> 2]

OfOci(attempts, cancel) ==
    [Procs |-> Two, Runs |-> {r1}, MaxAttempts |-> attempts, MaxClock |-> 0, MaxCrashes |-> 0,
     MaxLost |-> 0, CanCancel |-> cancel]

Executions ==
    [job |-> [Attempts |-> {r1, n1}, Repairs |-> {r1}, Workers |-> {c1, c2, c3},
              AttemptOf |-> (c1 :> r1) @@ (c2 :> r1) @@ (c3 :> n1),
              Images |-> {"new", "old"}, Image |-> "old", MaxFaults |-> 1, MaxDeploys |-> 1],
     fargate |-> OfBackend, cloud_run |-> OfBackend, dataproc |-> OfBackend,
     oci_retry |-> OfOci(2, FALSE), oci_cancel |-> OfOci(1, TRUE)]

-----------------------------------------------------------------------------
(* The Spark driver: nodes s, l and r are sources, t and u transforms and o  *)
(* the target, with fields a and b of two types.                             *)
FieldNames == {"a", "b"}
AsIs == [a |-> "INT64", b |-> "STRING"]
Swapped == [a |-> "STRING", b |-> "INT64"]
Alike == [a |-> "INT64", b |-> "INT64"]
Mappings == SUBSET (FieldNames \X FieldNames)

MixedRow(i, x) == [id |-> i, row |-> [a |-> <<"INT64", x>>, b |-> <<"STRING", i>>]]
AlikeRow(i) == [id |-> i, row |-> [a |-> <<"INT64", i>>, b |-> <<"INT64", 0>>]]

Document(schema, graph) ==
    [schema |-> schema, identity |-> TRUE, writer |-> "replace", bound |-> graph.source,
     graph |-> graph]

Linear(types, into, out) ==
    [source |-> {"s"}, transform |-> {"t"}, target |-> {"o"}, join |-> None,
     types |-> [s |-> AsIs, t |-> types[1], o |-> types[2]],
     maps |-> (<<"s", "t">> :> into) @@ (<<"t", "o">> :> out)]

\* The chain with an edge too few or too many, unbound, or of another identity.
Spoiled ==
    LET straight == {<<"a", "a">>, <<"b", "b">>}
        doc == Document("linear", Linear(<<AsIs, AsIs>>, straight, straight))
    IN  {[doc EXCEPT !.identity = FALSE], [doc EXCEPT !.bound = {}], [doc EXCEPT !.writer = "append"],
         [doc EXCEPT !.schema = "multistage"], [doc EXCEPT !.schema = "join"],
         [doc EXCEPT !.graph.maps = (<<"s", "t">> :> straight)],
         [doc EXCEPT !.graph.maps = @ @@ (<<"s", "o">> :> straight)]}

LinearDocuments ==
    {Document("linear", Linear(types, into, out)) :
        types \in {AsIs, Swapped} \X {AsIs, Swapped}, into \in Mappings, out \in Mappings}
    \union Spoiled

\* s -> t -> u -> o, or s -> u -> t -> o
Multistage(c, maps) ==
    [source |-> {"s"}, transform |-> {"t", "u"}, target |-> {"o"}, join |-> None,
     types |-> [n \in {"s", "t", "u", "o"} |-> Alike],
     maps |-> (<<"s", c[1]>> :> maps[1]) @@ (c :> maps[2]) @@ (<<c[2], "o">> :> maps[3])]

Chains == {<<"t", "u">>, <<"u", "t">>}

\* Crossed, from one field to both, and from both to one.
SomeMappings ==
    {{<<"a", "b">>, <<"b", "a">>}, {<<"a", "a">>, <<"a", "b">>}, {<<"a", "a">>, <<"b", "a">>}}

MultistageDocuments ==
    {Document("multistage", Multistage(c, <<x, y, z>>)) :
        c \in Chains, x \in SomeMappings, y \in SomeMappings, z \in SomeMappings}

Joined(k, left, right, out) ==
    [source |-> {"l", "r"}, transform |-> {"t"}, target |-> {"o"},
     join |-> [left |-> "l", right |-> "r", leftKey |-> k[1], rightKey |-> k[2]],
     types |-> [n \in {"l", "r", "t", "o"} |-> IF n = "o" THEN Swapped ELSE AsIs],
     maps |-> (<<"l", "t">> :> left) @@ (<<"r", "t">> :> right) @@ (<<"t", "o">> :> out)]

JoinDocuments ==
    {Document("join", Joined(k, x, y, z)) :
        k \in FieldNames \X FieldNames,
        x \in {m \in Mappings : Cardinality(m) <= 2}, y \in {m \in Mappings : Cardinality(m) <= 2},
        z \in {{<<"a", "b">>, <<"b", "a">>}, {<<"a", "a">>, <<"b", "b">>}}}

\* The plans that the contract has for a graph.
Contract == INSTANCE SparkDriver WITH
    Documents <- {}, Plans <- {}, Tables <- {}, Executors <- {}, MaxAttempts <- 0, MaxChanges <- 0,
    doc <- v1, plan <- v2, sources <- v3, exchange <- v4, target <- v5, attempt <- v6,
    pc <- v7, counted <- v8, expected <- v9, failure <- v10, pending <- v11,
    reports <- v12, changes <- v13

LinearPlans == {Contract!LinearPlan(Linear(<<AsIs, AsIs>>, {}, {}), n) : n \in {1, 2, 3}}
MultistagePlans == {Contract!MultistageLinearPlan(Multistage(c, <<{}, {}, {}>>), 2) : c \in Chains}
JoinPlans == {Contract!KeyedJoinPlan(Joined(k, {}, {}, {}), 2) : k \in FieldNames \X FieldNames}

OfSpark(documents, plans, tables, executors, attempts) ==
    [Documents |-> documents, Plans |-> plans, Tables |-> tables, Executors |-> executors,
     MaxAttempts |-> attempts, MaxChanges |-> 1]

Drivers ==
    [spark_linear |->
        OfSpark(LinearDocuments, LinearPlans, {{MixedRow(1, 1)}, {MixedRow(1, 1), MixedRow(2, 2)}},
                {2, 3}, 2),
     spark_multistage |->
        OfSpark(MultistageDocuments, MultistagePlans, {{AlikeRow(1)}, {AlikeRow(1), AlikeRow(2)}},
                {2}, 2),
     spark_join |->
        OfSpark(JoinDocuments, JoinPlans,
                {{MixedRow(1, 1), MixedRow(2, 2)}, {MixedRow(1, 1), MixedRow(2, 1)}}, {2}, 1)]

-----------------------------------------------------------------------------
Setups == Schedules @@ Stores @@ Services @@ Executions @@ Drivers
MCSetup == Setups
=============================================================================
