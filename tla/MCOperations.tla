---------------------------- MODULE MCOperations ----------------------------
(***************************************************************************)
(* How Dander is deployed and started, and what must come to an end.  Two  *)
(* runs (Parts says which): the deployment tools and the startup of        *)
(* Control, for safety; and, under fairness, every component that promises *)
(* an end.  A behaviour is one of one component: `part` names the instance *)
(* that is at work and never changes, and the component's variables are v1 *)
(* to v19, as its INSTANCE says; those it does not use are IdleSlot.       *)
(***************************************************************************)
EXTENDS Integers, Sequences, FiniteSets, TLC

CONSTANTS
    Parts,                          \* the instances of a run
    None, NULL, NoResource, IdleSlot,
    o1, o2,                         \* operators
    d1, d2, p1, p2,                 \* deployments and pipelines
    reviewed, other, broken,        \* wheels
    bucket, role, policy,           \* resources of stage zero
    c1, r1, n1, t1, t2, x1          \* processes, runs, browser tabs, an execution

VARIABLES
    part, v1, v2, v3, v4, v5, v6, v7, v8, v9, v10, v11, v12, v13, v14, v15, v16, v17, v18, v19

suiteVars ==
    <<part, v1, v2, v3, v4, v5, v6, v7, v8, v9, v10, v11, v12, v13, v14, v15, v16, v17, v18, v19>>

Symmetric == Permutations({o1, o2})

-----------------------------------------------------------------------------
(* Two inputs of a hosted Control, applied twice and verified meanwhile.     *)
ProviderOf == [rollout_aws |-> "aws", rollout_gcp |-> "gcp", rollout_kubernetes |-> "kubernetes"]

Rollout(p) == INSTANCE HostedRollout WITH
    Provider <- ProviderOf[p], Inputs <- {1, 2},
    MaxApplies <- IF p = "rollout_kubernetes" THEN 1 ELSE 2,
    disk <- v1, writing <- v2, preflight <- v3, applying <- v4, applies <- v5, spec <- v6,
    running <- v7, rollout <- v8, resource <- v9, ready <- v10, verify <- v11

(* Images: somebody else pushes the same tags, two operators publish the     *)
(* same tree, or one repeats a promotion that was interrupted.               *)
CloudOf == [images_foreign |-> "oci", images_two |-> "aws", images_alone |-> "azure"]

ImagesOf(p) == INSTANCE RuntimeImages WITH
    Operators <- IF p = "images_two" THEN {o1, o2} ELSE {o1}, Cloud <- CloudOf[p],
    MaxTree <- IF p = "images_two" THEN 1 ELSE 2, MaxBuild <- 2,
    MaxCrashes <- IF p = "images_alone" THEN 2 ELSE 1,
    Foreign <- p = "images_foreign", Rewrites <- p # "images_alone",
    tree <- v1, built <- v2, gar <- v3, garIndexes <- v4, dest <- v5, destIndexes <- v6,
    repository <- v7, accepted <- v8, promoted <- v9, cmd <- v10, crashes <- v11

Controller == INSTANCE ControllerImages WITH
    Operators <- {o1, o2}, Reviewed <- reviewed, Wheels <- {reviewed, other, broken},
    Complete <- {reviewed, other}, MaxBuild <- 3, MaxCrashes <- 2,
    wheel <- v1, repository <- v2, tag <- v3, images <- v4, record <- v5, cmd <- v6,
    built <- v7, crashes <- v8

-----------------------------------------------------------------------------
(* Saved Terraform plans: inputs that differ in deployment, release and      *)
(* pipelines, and inputs that each check of the plan commands must refuse.   *)
ForAws(d, ps, release) ==
    [deployment |-> d, pipelines |-> ps, release |-> release, image |-> d,
     profile |-> "gcp", project |-> TRUE, guarded |-> TRUE, role |-> FALSE]

AwsInputs ==
    LET native == [ForAws(d2, {p1, p2}, 1) EXCEPT !.profile = "native", !.project = FALSE,
                                                  !.guarded = FALSE, !.role = TRUE]
    IN  {ForAws(d1, {p1, p2}, 1), ForAws(d1, {p1}, 2), native,
         ForAws(d1, {}, 1), [ForAws(d1, {p1}, 1) EXCEPT !.image = d2],
         [ForAws(d1, {p1}, 1) EXCEPT !.project = FALSE],
         [native EXCEPT !.guarded = TRUE], [native EXCEPT !.role = FALSE]}

ForAzure(d, ps, release, foundation) ==
    [deployment |-> d, pipelines |-> ps, release |-> release, image |-> d,
     profile |-> "canonical", project |-> FALSE, vault |-> {p1}, subnet |-> d,
     foundation |-> foundation]

AzureInputs ==
    {ForAzure(d1, {p1, p2}, 1, TRUE), ForAzure(d1, {p1, p2}, 1, FALSE),
     [ForAzure(d1, {p2}, 1, TRUE) EXCEPT !.subnet = NoResource],
     [ForAzure(d2, {p2}, 2, FALSE) EXCEPT !.profile = "gcp", !.project = TRUE, !.subnet = NoResource],
     [ForAzure(d1, {p1}, 1, FALSE) EXCEPT !.subnet = NoResource],
     [ForAzure(d1, {p1}, 1, FALSE) EXCEPT !.subnet = d2],
     [ForAzure(d1, {p1}, 1, FALSE) EXCEPT !.project = TRUE],
     [ForAzure(d1, {p1}, 1, FALSE) EXCEPT !.image = d2]}

ForOci(d, ps, release, parts) ==
    [deployment |-> d, manifest |-> d, pipelines |-> ps, release |-> release,
     image |-> d, controller |-> parts]

OciInputs ==
    LET whole == {"image", "digest", "projections"}
    IN  {ForOci(d1, {}, 1, {}), ForOci(d1, {p1}, 1, whole), ForOci(d2, {p1}, 2, whole),
         ForOci(d1, {p1}, 1, {"image"}), [ForOci(d1, {p1}, 1, whole) EXCEPT !.manifest = d2],
         [ForOci(d2, {p1}, 1, whole) EXCEPT !.image = d1]}

Goal == ForAws(d1, {p1, p2}, 1)

PlanParts == {"plans_aws", "plans_azure", "plans_oci", "plans_again"}

Saved(p) == INSTANCE SavedPlans WITH
    Cloud <- CASE p = "plans_azure" -> "azure" [] p = "plans_oci" -> "oci" [] OTHER -> "aws",
    Operators <- IF p = "plans_oci" THEN {o1, o2} ELSE {o1},
    Dir <- (o1 :> o1) @@ (o2 :> o2), Absent <- NoResource,
    Deployments <- IF p = "plans_again" THEN {d1} ELSE {d1, d2},
    Pipelines <- IF p = "plans_oci" THEN {p1} ELSE {p1, p2},
    Inputs <- CASE p = "plans_aws" -> AwsInputs [] p = "plans_azure" -> AzureInputs
                [] p = "plans_oci" -> OciInputs [] OTHER -> {Goal},
    MaxSerial <- CASE p = "plans_aws" -> 6 [] p = "plans_azure" -> 5 [] p = "plans_oci" -> 3
                   [] OTHER -> 8,
    MaxFailures <- IF p \in {"plans_azure", "plans_again"} THEN 2 ELSE 1,
    MaxDrift <- CASE p = "plans_oci" -> 0 [] p = "plans_again" -> 2 [] OTHER -> 1,
    CanBeKilled <- p = "plans_aws",
    selected <- v1, saved <- v2, command <- v3, told <- v4, live <- v5, serial <- v6,
    lock <- v7, faults <- v8

(* Stage zero of each provider with commands that fail, and dander init.     *)
StageOf == [stage_aws |-> "aws", stage_azure |-> "azure", stage_oci |-> "oci"]

Stage(p) == INSTANCE StageZero WITH
    Provider <- StageOf[p], Resources <- {bucket, role}, Upgrades <- {policy},
    StateBucket <- bucket, MaxFailures <- 3, Attempts <- 2,
    world <- v1, wanted <- v2, state <- v3, plan <- v4, record <- v5, backendFile <- v6,
    initialized <- v7, authorized <- v8, cmd <- v9, failures <- v10

InitOf == INSTANCE InitApply WITH
    MaxFailures <- 3, Polls <- 3,
    bucket <- v1, admin <- v2, identity <- v3, image <- v4, platform <- v5,
    savedPlan <- v6, cmd <- v7, failures <- v8

-----------------------------------------------------------------------------
(* The startup of Control: every combination of options, or the resources of *)
(* one of them.                                                              *)
Stores == {None, "s3", "postgresql"}

Every ==
    [runStore : Stores, bucket : BOOLEAN, schedule : {None, "sqs", "postgresql"},
     queueUrl : BOOLEAN, ephemeral : BOOLEAN, graphStore : BOOLEAN, plans : BOOLEAN,
     triggers : BOOLEAN]

Option(store, schedule) ==
    [runStore |-> store, bucket |-> FALSE, schedule |-> schedule, queueUrl |-> FALSE,
     ephemeral |-> FALSE, graphStore |-> FALSE, plans |-> TRUE, triggers |-> schedule # None]

StartParts == {"start_options", "start_postgresql", "start_sqs", "start_stop"}

Startup(p) == INSTANCE ControlStartup WITH
    Backends <- IF p \in {"start_options", "start_stop"} THEN {"fargate"} ELSE {"fargate", "cloud_run"},
    Options <- CASE p = "start_options" -> Every [] p = "start_sqs" -> {Option("s3", "sqs")}
                 [] OTHER -> {Option("postgresql", "postgresql"), Option("postgresql", None)},
    MaxRefusals <- IF p \in {"start_options", "start_stop"} THEN 1 ELSE 2,
    opts <- v1, pc <- v2, open <- v3, closed <- v4, refused <- v5, refusals <- v6,
    worker <- v7, lock <- v8, stop <- v9, life <- v10, source <- v11, closer <- v12,
    failed <- v13

(* Physical plans: chains, two-transform chains and joins with each way to   *)
(* be refused, and plans of another origin.                                  *)
Graph(types, edges, join) == [type |-> types, edges |-> edges, join |-> join]

Chain == Graph(<<"source", "transform", "target">>, {<<1, 2>>, <<2, 3>>}, {})

Inner == [kind |-> "inner", keys |-> 1, operations |-> FALSE, left |-> 1, right |-> 2,
          leftType |-> "INT64", rightType |-> "INT64"]

Join(j) == Graph(<<"source", "source", "transform", "target">>, {<<1, 3>>, <<2, 3>>, <<3, 4>>}, {j})

\* The second transform by name comes first in the chain.
Reversed == Graph(<<"source", "transform", "transform", "target">>, {<<1, 3>>, <<3, 2>>, <<2, 4>>}, {})
Forked == Graph(<<"source", "transform", "transform", "target">>,
                {<<1, 2>>, <<1, 3>>, <<2, 4>>, <<3, 4>>}, {})

PlannedGraphs ==
    {Chain, Reversed, Forked, [Chain EXCEPT !.edges = {<<1, 2>>}], [Chain EXCEPT !.join = {Inner}],
     Graph(<<"source", "target">>, {<<1, 2>>}, {}), Graph(<<>>, {}, {}),
     Graph(<<"source", "python", "target">>, {<<1, 2>>, <<2, 3>>}, {})}
    \union {Join(j) : j \in {Inner, [Inner EXCEPT !.kind = "left"], [Inner EXCEPT !.keys = 2],
                             [Inner EXCEPT !.operations = TRUE], [Inner EXCEPT !.left = 3],
                             [Inner EXCEPT !.rightType = "STRING"]}}

Template(n, b) == [parallelism |-> n, bound |-> b]

Request(g, mode, n, template, sizes) ==
    [graph |-> g, mode |-> mode, partitions |-> n, template |-> template, sizes |-> sizes]

Size(name, ceiling, count, cpu, memory) ==
    [name |-> name, ceiling |-> ceiling, count |-> count, cpu |-> cpu, memory |-> memory]

MostPartitions == 3

SizeSets ==
    {{Size("small", 10, 2, 4000, 4096)},
     {Size("small", 10, 2, 4000, 4096), Size("large", 20, MostPartitions, 16000, 118799)},
     {Size("small", 10, 2, 4000, 4095)}, {Size("small", 10, 2, 8000, 59400)},
     {Size("small", 10, 2, 4000, 4096), Size("small", 20, 3, 4000, 4096)},
     {Size("small", 10, 2, 4000, 4096), Size("large", 10, 3, 4000, 4096)},
     {Size("small", 10, MostPartitions + 1, 4000, 4096)}}

PlanRequests ==
    {Request(g, mode, n, Template(2, FALSE), {}) :
        g \in PlannedGraphs, mode \in {"fused", "distributed"}, n \in {0, 2}}
    \union {Request(Join(Inner), "distributed", n, Template(k, b), {}) :
              n \in {1, MostPartitions, MostPartitions + 1}, k \in {2, MostPartitions}, b \in BOOLEAN}
    \union {Request(Chain, "distributed", n, Template(1, FALSE), z) : n \in {0, 2}, z \in SizeSets}

\* The plans of the contract, for those of another origin: two stages in
\* memory, a ring of two, a shared operator.
Contract == INSTANCE PhysicalPlanning WITH
    Requests <- {}, Foreign <- {}, RowKeys <- {}, MaxDistributed <- MostPartitions,
    MaxPartitions <- 15,
    phase <- v1, req <- v2, plan <- v3, running <- v4, finished <- v5, placed <- v6,
    out <- v7

Memory(from, to) == [Contract!Exchange(from, to, "single", 1, {}) EXCEPT !.transport = "memory"]
OneTask(name, ops, after) == Contract!Stage(name, ops, 1, after)

ForeignPlans ==
    {[mode |-> "fused", parallelism |-> 1, exchanges |-> {Memory("a", "b")},
      stages |-> {OneTask("a", {1, 2}, {}), OneTask("b", {3}, {"a"})}],
     [mode |-> "distributed", parallelism |-> 1, exchanges |-> {Memory("a", "b"), Memory("b", "a")},
      stages |-> {OneTask("a", {1, 2}, {"b"}), OneTask("b", {3}, {"a"})}],
     [mode |-> "distributed", parallelism |-> 2, exchanges |-> {},
      stages |-> {OneTask("a", {1, 2}, {}), OneTask("b", {2, 3}, {})}]}

Planning == INSTANCE PhysicalPlanning WITH
    Requests <- PlanRequests, Foreign <- ForeignPlans, RowKeys <- {1, 2},
    MaxDistributed <- MostPartitions, MaxPartitions <- 15,
    phase <- v1, req <- v2, plan <- v3, running <- v4, finished <- v5, placed <- v6,
    out <- v7

-----------------------------------------------------------------------------
(* The smaller instances of components whose safety other modules check.     *)
Hosted == INSTANCE ControlRuns WITH
    Runs <- {1, 2}, Controls <- {c1}, RunStore <- "s3", Backend <- "dataproc", PageSize <- 2,
    MaxRequests <- 2, MaxFaults <- 2, MaxAttempts <- 2,
    record <- v1, entry <- v2, attempts <- v3, claims <- v4, told <- v5, execution <- v6,
    op <- v7, page <- v8, fresh <- v9, scan <- v10, old <- v11, requests <- v12,
    faults <- v13

Hourly(on) == [minutes |-> 1 .. 2, enabled |-> on, plan |-> "planA"]

Schedule == INSTANCE ScheduleQueue WITH
    Controls <- {c1}, NoProcess <- None, Triggers <- {1}, Specs <- {Hourly(TRUE), Hourly(FALSE)},
    Queue <- "postgresql", MaxDeliveries <- 2, BatchSize <- 2, MaxScan <- 2, MaxDue <- 1,
    MaxSkew <- 1, MaxMinute <- 3, MaxFaults <- 1,
    now <- v1, config <- v2, leader <- v3, session <- v4, first <- v5, tick <- v6,
    cursor <- v7, row <- v8, held <- v9, acking <- v10, runs <- v11, adopted <- v12,
    faults <- v13

Jobs == INSTANCE CloudRunJobs WITH
    Attempts <- {r1, n1}, Repairs <- {r1}, Workers <- {1, 2},
    AttemptOf <- <<r1, n1>>, Images <- {"new", "old"}, Image <- "old",
    MaxFaults <- 1, MaxDeploys <- 0,
    job <- v1, execs <- v2, pc <- v3, seen <- v4, late <- v5, cleaned <- v6,
    outcome <- v7, faults <- v8, deploys <- v9

Fargate == INSTANCE BackendExecutions WITH
    Backend <- "fargate", Workers <- {c1}, Retries <- 1, MaxLines <- 1, PageSize <- 4,
    MaxPages <- 2, MaxFaults <- 2,
    exec <- v1, starts <- v2, canceling <- v3, tasks <- v4, log <- v5, shown <- v6,
    late <- v7, pc <- v8, page <- v9, summary <- v10, report <- v11, faults <- v12

Oci == INSTANCE OciLifecycle WITH
    Procs <- {c1}, Runs <- {r1, n1}, MaxAttempts <- 1, MaxClock <- 0, MaxCrashes <- 1,
    MaxLost <- 0, CanCancel <- FALSE,
    active <- v1, history <- v2, instance <- v3, late <- v4, clock <- v5, proc <- v6,
    crashes <- v7, lost <- v8

Pages == INSTANCE PagedExtraction WITH
    Engine <- "servicenow", Ids <- 1 .. 3, Initial <- {1, 2}, PageSize <- 1, MaxClock <- 3,
    MaxRuns <- 1, MaxRetries <- 1, Ties <- FALSE,
    table <- v1, clock <- v2, pc <- v3, runs <- v4, since <- v5, offset <- v6,
    attempt <- v7, more <- v8, got <- v9, largest <- v10, target <- v11, start <- v12,
    moved <- v13, ever <- v14

Salesforce == INSTANCE SalesforceJobs WITH
    Ids <- {1, 2}, PageSize <- 1, MaxClock <- 1, MaxRuns <- 1, MaxRetries <- 1, MaxPolls <- 2,
    MaxJobs <- 2, Faults <- {"lost", "truncated", "loop", "failed"},
    table <- v1, clock <- v2, jobs <- v3, pc <- v4, job <- v5, attempt <- v6, polls <- v7,
    locator <- v8, seen <- v9, rows <- v10, count <- v11, largest <- v12, ok <- v13,
    since <- v14, target <- v15, start <- v16, runs <- v17, yielded <- v18,
    unanswered <- v19

ServeOf == INSTANCE GraphServe WITH
    Tabs <- {t1, t2}, OtherParts <- {}, Executions <- {x1}, MaxWrites <- 1,
    Requests <- {"save", "run"},
    file <- v1, parts <- v2, invalid <- v3, written <- v4, storeLock <- v5, runLock <- v6,
    previewLock <- v7, tab <- v8, execution <- v9, submitted <- v10, lostAnswer <- v11

Metadata == INSTANCE MetadataPublication WITH
    Absent <- NoResource,
    Catalog <- "glue", MaxRuns <- 5, Tags <- {},
    Columns <- [r \in 1 .. 5 |-> [a \in {"orders"} |-> IF r = 1 THEN {"id", "old"} ELSE {"id"}]],
    Assets <- [r \in 1 .. 5 |-> <<"orders">>], MaxLosses <- 1, MaxCrashes <- 1,
    EditsAnytime <- TRUE,
    holder <- v1, pc <- v2, verified <- v3, todo <- v4, seen <- v5, snapshot <- v6,
    files <- v7, database <- v8, entries <- v9, late <- v10, faults <- v11

Edge(m, n) == [source |-> m, target |-> n, map |-> [f \in {"a"} |-> f]]

\* Chains and cycles of up to three nodes, in any order of their edges.
Compile == INSTANCE GraphCompilation WITH
    Graphs <- {[ids |-> <<1, 2, 3>>, edges |-> es,
                type |-> <<"source", "transform", "target">>, join |-> <<None, None, None>>,
                fields |-> <<{"a"}, {"a"}, {"a"}>>, ops |-> <<<<>>, <<"default", "filter">>, <<>>>>] :
                 es \in {<<Edge(1, 2), Edge(2, 3)>>, <<Edge(2, 3), Edge(1, 2)>>,
                         <<Edge(1, 2), Edge(2, 1), Edge(2, 3)>>, <<Edge(1, 3)>>, <<Edge(2, 2)>>}},
    Target <- 3, Rows <- 1 :> {[f \in {"a"} |-> 1]},
    g <- v1, phase <- v2, why <- v3, color <- v4, order <- v5, path <- v6, ctes <- v7,
    alias <- v8, frames <- v9

-----------------------------------------------------------------------------
IdleFrom15 == v15 = IdleSlot /\ v16 = IdleSlot /\ v17 = IdleSlot /\ v18 = IdleSlot /\ v19 = IdleSlot
IdleFrom14 == v14 = IdleSlot /\ IdleFrom15
IdleFrom12 == v12 = IdleSlot /\ v13 = IdleSlot /\ IdleFrom14
IdleFrom10 == v10 = IdleSlot /\ v11 = IdleSlot /\ IdleFrom12
IdleFrom9 == v9 = IdleSlot /\ IdleFrom10
IdleFrom8 == v8 = IdleSlot /\ IdleFrom9

Init ==
    /\ part \in Parts
    /\ \/ \E p \in DOMAIN ProviderOf : part = p /\ Rollout(p)!Init /\ IdleFrom12
       \/ \E p \in DOMAIN CloudOf : part = p /\ ImagesOf(p)!Init /\ IdleFrom12
       \/ part = "controller" /\ Controller!Init /\ IdleFrom9
       \/ \E p \in PlanParts : part = p /\ Saved(p)!Init /\ IdleFrom9
       \/ \E p \in DOMAIN StageOf : part = p /\ Stage(p)!Init /\ v11 = IdleSlot /\ IdleFrom12
       \/ part = "init" /\ InitOf!Init /\ IdleFrom9
       \/ \E p \in StartParts : part = p /\ Startup(p)!Init /\ IdleFrom14
       \/ part = "planning" /\ Planning!Init /\ IdleFrom8
       \/ part = "runs" /\ Hosted!Init /\ IdleFrom14
       \/ part = "schedule" /\ Schedule!Init /\ IdleFrom14
       \/ part = "job" /\ Jobs!Init /\ IdleFrom10
       \/ part = "fargate" /\ Fargate!Init /\ v13 = IdleSlot /\ IdleFrom14
       \/ part = "oci" /\ Oci!Init /\ IdleFrom9
       \/ part = "pages" /\ Pages!Init /\ IdleFrom15
       \/ part = "salesforce" /\ Salesforce!Init
       \/ part = "serve" /\ ServeOf!Init /\ IdleFrom12
       \/ part = "metadata" /\ Metadata!Init /\ IdleFrom12
       \/ part = "compile" /\ Compile!Init /\ IdleFrom10

\* What a step of a component leaves alone.
Keeps ==
    /\ part' = part
    /\ IF v8 = IdleSlot THEN v8' = IdleSlot ELSE TRUE
    /\ IF v9 = IdleSlot THEN v9' = IdleSlot ELSE TRUE
    /\ IF v10 = IdleSlot THEN v10' = IdleSlot /\ v11' = IdleSlot ELSE TRUE
    /\ IF v10 # IdleSlot /\ v11 = IdleSlot THEN v11' = IdleSlot ELSE TRUE
    /\ IF v12 = IdleSlot THEN v12' = IdleSlot ELSE TRUE
    /\ IF v13 = IdleSlot THEN v13' = IdleSlot ELSE TRUE
    /\ IF v14 = IdleSlot THEN v14' = IdleSlot ELSE TRUE
    /\ IF v15 = IdleSlot THEN UNCHANGED <<v15, v16, v17, v18, v19>> ELSE TRUE

Next ==
    /\ \/ \E p \in DOMAIN ProviderOf : part = p /\ Rollout(p)!Next
       \/ \E p \in DOMAIN CloudOf : part = p /\ ImagesOf(p)!Next
       \/ part = "controller" /\ Controller!Next
       \/ \E p \in PlanParts : part = p /\ Saved(p)!Next
       \/ \E p \in DOMAIN StageOf : part = p /\ Stage(p)!Next
       \/ part = "init" /\ InitOf!Next
       \/ \E p \in StartParts : part = p /\ Startup(p)!Next
       \/ part = "planning" /\ Planning!Next
       \/ part = "runs" /\ Hosted!Next
       \/ part = "schedule" /\ Schedule!Next
       \/ part = "job" /\ Jobs!Next
       \/ part = "fargate" /\ Fargate!Next
       \/ part = "oci" /\ Oci!Next
       \/ part = "pages" /\ Pages!Next
       \/ part = "salesforce" /\ Salesforce!Next
       \/ part = "serve" /\ ServeOf!Next
       \/ part = "metadata" /\ Metadata!Next
       \/ part = "compile" /\ Compile!Next
    /\ Keeps

Spec == Init /\ [][Next]_suiteVars

-----------------------------------------------------------------------------
(***************************************************************************)
(* Fairness.  Only one component is at work, so that a condition on the    *)
(* k-th step of the component at work is one on that component.            *)
(***************************************************************************)

\* What goes on by itself: threads and loops of a process nothing kills, the
\* steps of a command, a provider that works on what it accepted, deadlines
\* and leases that run out.
Goes(k) ==
    CASE part = "runs" ->
            \/ k = 1 /\ Hosted!Operate(c1)
            \/ k = 2 /\ Hosted!Scan(c1)
            \/ k \in {3, 4} /\ \E a \in {1, 2} : Hosted!Provider(k - 2, a)
      [] part = "schedule" ->
            \/ k = 1 /\ Schedule!Advance
            \/ k = 2 /\ Schedule!Produce(c1)
            \/ k = 3 /\ Schedule!Consume(c1)
            \/ k = 4 /\ \E o \in Schedule!Occurrences : Schedule!Expire(o)
      [] part = "start_stop" ->
            LET S(w) == Startup("start_stop")!FreeLock(w) \/ Startup("start_stop")!EndRound(w)
                        \/ Startup("start_stop")!Exit(w)
            IN  \/ k = 1 /\ Startup("start_stop")!Closing
                \/ k = 2 /\ Startup("start_stop")!Close
                \/ k = 3 /\ S("reconciler")
                \/ k = 4 /\ S("consumer")
                \/ k = 5 /\ S("producer")
                \/ k = 6 /\ S("request")
      [] part = "job" ->
            \/ k \in {1, 2} /\ (Jobs!Step(k) \/ Jobs!Cancel(k))
            \/ k = 3 /\ (Jobs!Progress(r1) \/ Jobs!Finish(r1))
            \/ k = 4 /\ (Jobs!Progress(n1) \/ Jobs!Finish(n1))
      [] part = "fargate" ->
            \/ k = 1 /\ Fargate!Step(c1)
            \/ k = 2 /\ Fargate!EndEarly("timed_out")
            \/ k = 3 /\ Fargate!Deliver
            \/ k = 4 /\ Fargate!StopTask
      [] part = "oci" ->
            \/ k = 1 /\ Oci!Step(c1)
            \/ k = 2 /\ \E t \in Oci!Attempts : Oci!Exit(t)
            \/ k = 3 /\ \E r \in {r1, n1} : Oci!Expire(r)
      [] part = "images_alone" ->
            \/ k = 1 /\ \E i \in v4 : ImagesOf("images_alone")!StartPromote(o1, i)
            \/ k = 2 /\ ImagesOf("images_alone")!PublishStep(o1)
            \/ k = 3 /\ ImagesOf("images_alone")!PromoteStep(o1)
      [] part = "plans_again" -> k = 1 /\ Saved("plans_again")!Step(o1)
      [] part \in DOMAIN StageOf ->
            \E p \in DOMAIN StageOf :
                part = p /\ ((k = 1 /\ Stage(p)!Step) \/ (k = 2 /\ Stage(p)!Propagate))
      [] part = "init" -> (k = 1 /\ InitOf!Step) \/ (k = 2 /\ InitOf!Propagate)
      [] part = "planning" ->
            k = 1 /\ (Planning!StartTask \/ Planning!Shuffle \/ Planning!FinishTask \/ Planning!Finish)
      [] part = "pages" -> k = 1 /\ (Pages!Receive \/ Pages!NextPage \/ Pages!Complete)
      [] part = "salesforce" ->
            k = 1 /\ \/ Salesforce!Create \/ Salesforce!Poll \/ Salesforce!OpenPage
                     \/ Salesforce!Yield \/ Salesforce!ClosePage \/ Salesforce!DeleteJob
      [] part = "serve" ->
            LET S(t) == \/ ServeOf!WriteTemporary(t) \/ ServeOf!CheckAgain(t) \/ ServeOf!Replace(t)
                        \/ ServeOf!Reload(t) \/ ServeOf!RunRefused(t) \/ ServeOf!RunExecute(t)
            IN  \/ k = 1 /\ ServeOf!Lists(x1)
                \/ k = 2 /\ ServeOf!Finishes(x1)
                \/ k = 3 /\ S(t1)
                \/ k = 4 /\ S(t2)
      [] part = "metadata" -> k \in 1 .. 5 /\ (Metadata!Step(k) \/ Metadata!Acquire(k))
      [] part = "compile" -> k = 1 /\ Compile!Next
      [] OTHER -> FALSE

\* What somebody does again and again, though it is not always possible: an
\* operator repeats a command, the service sends events, a tab asks.
Repeated(k) ==
    CASE part = "oci" -> k = 1 /\ Oci!Invoke(c1, "reconcile", None, None)
      [] part = "plans_again" ->
            \/ k = 1 /\ Saved("plans_again")!StartPlan(o1, Goal)
            \/ k = 2 /\ Saved("plans_again")!StartApply(o1)
      [] part \in DOMAIN StageOf ->
            \E p \in DOMAIN StageOf : part = p /\
                \/ k = 1 /\ Stage(p)!Start("plan", Stage(p)!Right)
                \/ k = 2 /\ Stage(p)!Start("apply", Stage(p)!Right)
      [] part = "init" -> k = 1 /\ \E o \in InitOf!Options :
            InitOf!Administers(o) /\ ~InitOf!Refused(o) /\ InitOf!Start(o)
      [] part = "serve" ->
            \E t \in {t1, t2} : (k = 1 /\ ServeOf!RunValidate(t)) \/ (k = 2 /\ ServeOf!Status(t))
      [] OTHER -> FALSE

Fairness ==
    /\ \A k \in 1 .. 6 : WF_suiteVars(Goes(k) /\ Keeps)
    /\ \A k \in 1 .. 2 : SF_suiteVars(Repeated(k) /\ Keeps)

FairSpec == Spec /\ Fairness

\* What each component asks of its constants.
ASSUME InstancesAssumption ==
    /\ \A p \in DOMAIN ProviderOf : Rollout(p)!RolloutAssumption
    /\ \A p \in DOMAIN CloudOf : ImagesOf(p)!CloudAssumption
    /\ Controller!WheelAssumption
    /\ \A p \in PlanParts : Saved(p)!CloudAssumption /\ Saved(p)!DirAssumption
    /\ \A p \in DOMAIN StageOf : Stage(p)!StageZeroAssumption
    /\ InitOf!InitAssumption /\ Planning!BoundsAssumption
    /\ \A p \in StartParts : Startup(p)!StartupAssumption

-----------------------------------------------------------------------------
(***************************************************************************)
(* Safety.                                                                 *)
(***************************************************************************)

\* What is deployed was reviewed: a verification that passed means the selected
\* image and configuration run, a rollback changes images only, a promotion
\* record names the accepted image, a controller record its own build, and an
\* apply carries out the plan that was shown, on its own deployment's resources
\* and with each job's own secrets only.
DeployedIsReviewed ==
    /\ \A p \in DOMAIN ProviderOf : part = p =>
         /\ Rollout(p)!TypeOK /\ Rollout(p)!RollbackChangesImagesOnly
         /\ p # "rollout_kubernetes" => Rollout(p)!VerifiedIsRunning
    /\ \A p \in DOMAIN CloudOf : part = p =>
         /\ ImagesOf(p)!TypeOK /\ ImagesOf(p)!PromotedIsAccepted
         /\ p = "images_alone" => ImagesOf(p)!RecordDescribesItsIndex
    /\ part = "controller" => Controller!TypeOK /\ Controller!OwnBuild
    /\ \A p \in PlanParts : part = p =>
         /\ Saved(p)!TypeOK /\ Saved(p)!AppliedWasReviewed /\ Saved(p)!OwnResources
         /\ p = "plans_aws" => Saved(p)!LeastScope

\* A stage zero whose commands fail anywhere loses track of no resource, and
\* init applies the platform on firm ground; a failed startup of Control holds
\* nothing and no thread uses what a close released; and the planner's plans
\* are ones the containers accept, whose execution writes what the graph says.
StartsSafely ==
    /\ \A p \in DOMAIN StageOf : part = p => Stage(p)!TypeOK /\ Stage(p)!NothingLost
    /\ part = "init" => InitOf!TypeOK /\ InitOf!PlatformOnFirmGround
    /\ \A p \in StartParts : part = p =>
         /\ Startup(p)!TypeOK /\ Startup(p)!AssertionsHold /\ Startup(p)!FailedStartupHoldsNothing
         /\ Startup(p)!NothingUsedAfterClose
    /\ part = "planning" =>
         /\ Planning!TypeOK /\ Planning!PlannedIsValid /\ Planning!RunsWhatWasCompiled
         /\ Planning!WritesTheGraph /\ Planning!EdgesInOrder /\ Planning!SizesBind

\* A plan the operator was told of stays until that directory plans again, a
\* foundation plan changes nothing that exists and a verdict of no drift is
\* true; the local state of stage zero is frozen once it has moved; and the
\* pool of Control outlives its lifecycle.
PlansAreKept ==
    [][/\ \A p \in PlanParts : part = p =>
            /\ Saved(p)!PlanIsKept
            /\ p = "plans_azure" => Saved(p)!FoundationIsAdditive
            /\ p = "plans_oci" => Saved(p)!VerdictIsHonest
       /\ \A p \in DOMAIN StageOf : part = p => Stage(p)!LocalIsFrozen
       /\ \A p \in StartParts : part = p => Startup(p)!PoolOutlivesLifecycle]_suiteVars

-----------------------------------------------------------------------------
(***************************************************************************)
(* Liveness.                                                               *)
(***************************************************************************)

Waiting(i) ==
    CASE part = "runs" -> v1[i] # Hosted!Absent
      [] part = "schedule" -> Schedule!Phase(<<1, "planA", i>>) = "pending"
      [] part = "start_stop" -> v12 # None
      [] part = "job" -> v3[i] = "submitted" /\ v2[<<r1, n1>>[i]].state \in Jobs!Terminal
      [] part = "fargate" -> v1 \in Fargate!Closed /\ v8[c1] # "submit"
      [] part = "oci" -> v1 # None
      [] part = "images_alone" -> v8[o1] # None /\ v7.uri /\ v7.private
      [] part = "planning" -> v1 = "running"
      [] part = "pages" -> v3 # "idle"
      [] part = "salesforce" -> v4 # "idle"
      [] part = "serve" -> v10 # None
      [] OTHER -> FALSE

Settled(i) ==
    CASE part = "runs" -> v1[i].state = "terminal"
      [] part = "schedule" -> Schedule!Phase(<<1, "planA", i>>) \in {"started", "abandoned"}
      [] part = "start_stop" -> v2 \in {"down", "failed"}
      [] part = "job" -> <<r1, n1>>[i] \in v6
      [] part = "fargate" -> v11 # None
      [] part = "oci" -> v1 = None
      [] part = "images_alone" -> v9[o1] # None
      [] part = "planning" -> v1 = "done"
      [] part = "pages" -> v3 = "idle"
      [] part = "salesforce" -> v4 = "idle"
      [] part = "serve" -> v10 = None
      [] OTHER -> TRUE

\* What somebody waits for comes: an accepted run ends, a message is handed over
\* or set aside, a shutdown comes down, an execution that is over is reported
\* and its selection removed from the Job, the OCI lock is released, an accepted
\* image is promoted, a plan that runs is done, an extraction ends and the
\* graph service forgets an execution: whatever calls fail and processes die.
Settles == \A i \in {1, 2} : Waiting(i) ~> Settled(i)

\* What is repeated arrives: the producer of schedules within its skew of the
\* clock, planning and applying at the wanted resources, stage zero at a migrated
\* state, init at a platform, runs at published metadata, and the compiler at its
\* verdict.
Converges ==
    <>[](CASE part = "schedule" -> v7[1].stored /\ v1 - v7[1].at \in 0 .. 1
           [] part = "plans_again" -> v5[d1] = Saved("plans_again")!Wanted(Goal)
           [] part \in DOMAIN StageOf -> v5 # None /\ v2 \subseteq v1
           [] part = "init" -> v5 # InitOf!NoPlan /\ v1.versioned
           [] part = "metadata" -> \E r \in 1 .. 5 : v2[r] = "succeeded"
           [] part = "compile" -> v2 \in {"done", "failed"}
           [] OTHER -> TRUE)
=============================================================================
