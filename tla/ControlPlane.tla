---------------------------- MODULE ControlPlane ----------------------------
(***************************************************************************)
(* The components of Control beside the run lifecycle.  A behaviour is one *)
(* of one component: `part` names the instance that is at work and never   *)
(* changes, and the component's variables are v1 to v13, as its INSTANCE   *)
(* says; those it does not use are Idle.  Setup[p] has the constants of    *)
(* part p, by their names in the component's module: MCControlPlane gives  *)
(* them small values, the proof modules take any.                          *)
(***************************************************************************)
EXTENDS Integers, Sequences, FiniteSets

CONSTANTS
    Parts,                          \* the instances of a run
    Setup,                          \* Setup[p]: the constants of part p
    None, AnyEnvironment, Unavailable

VARIABLES part, v1, v2, v3, v4, v5, v6, v7, v8, v9, v10, v11, v12, v13

suiteVars == <<part, v1, v2, v3, v4, v5, v6, v7, v8, v9, v10, v11, v12, v13>>

-----------------------------------------------------------------------------
(***************************************************************************)
(* Schedules: leadership of the producer, redelivery from the table, and   *)
(* from SQS.                                                               *)
(***************************************************************************)
Leader == INSTANCE ScheduleQueue WITH
    Controls <- Setup["leader"].Controls, NoProcess <- None,
    Triggers <- Setup["leader"].Triggers, Specs <- Setup["leader"].Specs,
    Queue <- "postgresql", MaxDeliveries <- Setup["leader"].MaxDeliveries,
    BatchSize <- Setup["leader"].BatchSize, MaxScan <- Setup["leader"].MaxScan,
    MaxDue <- Setup["leader"].MaxDue, MaxMinute <- Setup["leader"].MaxMinute,
    MaxSkew <- Setup["leader"].MaxSkew, MaxFaults <- Setup["leader"].MaxFaults,
    now <- v1, config <- v2, leader <- v3, session <- v4, first <- v5, tick <- v6,
    cursor <- v7, row <- v8, held <- v9, acking <- v10, runs <- v11, adopted <- v12,
    faults <- v13

Redelivery == INSTANCE ScheduleQueue WITH
    Controls <- Setup["redelivery"].Controls, NoProcess <- None,
    Triggers <- Setup["redelivery"].Triggers, Specs <- Setup["redelivery"].Specs,
    Queue <- "postgresql", MaxDeliveries <- Setup["redelivery"].MaxDeliveries,
    BatchSize <- Setup["redelivery"].BatchSize, MaxScan <- Setup["redelivery"].MaxScan,
    MaxDue <- Setup["redelivery"].MaxDue, MaxMinute <- Setup["redelivery"].MaxMinute,
    MaxSkew <- Setup["redelivery"].MaxSkew, MaxFaults <- Setup["redelivery"].MaxFaults,
    now <- v1, config <- v2, leader <- v3, session <- v4, first <- v5, tick <- v6,
    cursor <- v7, row <- v8, held <- v9, acking <- v10, runs <- v11, adopted <- v12,
    faults <- v13

Sqs == INSTANCE ScheduleQueue WITH
    Controls <- Setup["sqs"].Controls, NoProcess <- None,
    Triggers <- Setup["sqs"].Triggers, Specs <- Setup["sqs"].Specs,
    Queue <- "sqs", MaxDeliveries <- Setup["sqs"].MaxDeliveries,
    BatchSize <- Setup["sqs"].BatchSize, MaxScan <- Setup["sqs"].MaxScan,
    MaxDue <- Setup["sqs"].MaxDue, MaxMinute <- Setup["sqs"].MaxMinute,
    MaxSkew <- Setup["sqs"].MaxSkew, MaxFaults <- Setup["sqs"].MaxFaults,
    now <- v1, config <- v2, leader <- v3, session <- v4, first <- v5, tick <- v6,
    cursor <- v7, row <- v8, held <- v9, acking <- v10, runs <- v11, adopted <- v12,
    faults <- v13

-----------------------------------------------------------------------------
(***************************************************************************)
(* The graph stores: the journaled ones of the object stores, the three    *)
(* simple ones, a reader of one object that is rewritten, and a client     *)
(* that pages through graphs that come and go.                             *)
(***************************************************************************)
Journal == INSTANCE JournaledGraphStore WITH
    Workers <- Setup["journal"].Workers, CreateKeys <- Setup["journal"].CreateKeys,
    DeleteKeys <- Setup["journal"].DeleteKeys, Docs <- Setup["journal"].Docs,
    MaxVersion <- Setup["journal"].MaxVersion, MaxCrashes <- Setup["journal"].MaxCrashes,
    MaxRequests <- Setup["journal"].MaxRequests,
    graph <- v1, cj <- v2, dj <- v3, version <- v4, stack <- v5, made <- v6,
    removed <- v7, answers <- v8, crashes <- v9, requests <- v10

StoreParts == {"memory", "postgresql", "local"}

StoreOf(p) == INSTANCE GraphStores WITH
    Adapter <- p, Keys <- Setup[p].Keys, Docs <- Setup[p].Docs, MaxRevision <- Setup[p].MaxRevision, MaxCrashes <- Setup[p].MaxCrashes,
    graph <- v1, cj <- v2, dj <- v3, revision <- v4, work <- v5, created <- v6,
    replaced <- v7, removed <- v8, answers <- v9, crashes <- v10

ReadParts == {"read_s3", "read_gcs"}

Read(p) == INSTANCE ObjectReads WITH
    Provider <- Setup[p].Provider, MaxVersion <- Setup[p].MaxVersion,
    object <- v1, version <- v2, pc <- v3, tries <- v4, head <- v5, first <- v6,
    result <- v7, seen <- v8

ListParts == {"list_memory", "list_s3", "list_gcs", "list_azure", "list_oci"}

Listing(p) == INSTANCE GraphListing WITH
    Store <- Setup[p].Store, MaxGraph <- Setup[p].MaxGraph, Limit <- Setup[p].Limit,
    MaxRounds <- Setup[p].MaxRounds, MaxWrites <- Setup[p].MaxWrites,
    objects <- v1, writes <- v2, pc <- v3, pos <- v4, skip <- v5, entries <- v6,
    more <- v7, rounds <- v8, tries <- v9, items <- v10, listed <- v11, stable <- v12,
    visible <- v13

-----------------------------------------------------------------------------
(***************************************************************************)
(* HTTP requests, and the plans they select.                               *)
(***************************************************************************)
RequestParts == {"edits", "rights"}

Requests(p) == INSTANCE ControlRequests WITH
    Clients <- Setup[p].Clients, Principals <- Setup[p].Principals, RolesOf <- Setup[p].RolesOf,
    Allowlist <- Setup[p].Allowlist, Hosted <- Setup[p].Hosted, Wired <- Setup[p].Wired,
    Used <- Setup[p].Used, Flaws <- Setup[p].Flaws, Keys <- Setup[p].Keys,
    Docs <- Setup[p].Docs, MaxRevision <- Setup[p].MaxRevision, MaxLost <- Setup[p].MaxLost,
    graph <- v1, revision <- v2, created <- v3, deleted <- v4, runs <- v5, req <- v6,
    phase <- v7, status <- v8, pinned <- v9, etag <- v10, listed <- v11, shown <- v12,
    lost <- v13

SelectParts == {"configurations", "retries"}

Select(p) == INSTANCE PlanSelection WITH
    Plans <- Setup[p].Plans, EnvOf <- Setup[p].EnvOf, Order <- Setup[p].Order,
    Repairs <- Setup[p].Repairs, BuiltFor <- Setup[p].BuiltFor, Revisions <- Setup[p].Revisions,
    Configurations <- Setup[p].Configurations, Bytes <- Setup[p].Bytes, Clients <- Setup[p].Clients,
    Keys <- Setup[p].Keys,
    config <- v1, graph <- v2, metadata <- v3, runs <- v4, lock <- v5, client <- v6

-----------------------------------------------------------------------------
(***************************************************************************)
(* Executions: a shared Cloud Run Job, one attempt of the other backends   *)
(* under several processes, the OCI controller, and the Spark driver.      *)
(***************************************************************************)
Jobs == INSTANCE CloudRunJobs WITH
    Attempts <- Setup["job"].Attempts, Repairs <- Setup["job"].Repairs,
    Workers <- Setup["job"].Workers, AttemptOf <- Setup["job"].AttemptOf,
    Images <- Setup["job"].Images, Image <- Setup["job"].Image,
    MaxFaults <- Setup["job"].MaxFaults, MaxDeploys <- Setup["job"].MaxDeploys,
    job <- v1, execs <- v2, pc <- v3, seen <- v4, late <- v5, cleaned <- v6,
    outcome <- v7, faults <- v8, deploys <- v9

BackendParts == {"fargate", "cloud_run", "dataproc"}

Execution(p) == INSTANCE BackendExecutions WITH
    Backend <- p, Workers <- Setup[p].Workers, Retries <- Setup[p].Retries, MaxLines <- Setup[p].MaxLines,
    PageSize <- Setup[p].PageSize, MaxPages <- Setup[p].MaxPages, MaxFaults <- Setup[p].MaxFaults,
    exec <- v1, starts <- v2, canceling <- v3, tasks <- v4, log <- v5, shown <- v6,
    late <- v7, pc <- v8, page <- v9, summary <- v10, report <- v11, faults <- v12

OciRetry == INSTANCE OciLifecycle WITH
    Procs <- Setup["oci_retry"].Procs, Runs <- Setup["oci_retry"].Runs,
    MaxAttempts <- Setup["oci_retry"].MaxAttempts, MaxClock <- Setup["oci_retry"].MaxClock,
    MaxCrashes <- Setup["oci_retry"].MaxCrashes, MaxLost <- Setup["oci_retry"].MaxLost,
    CanCancel <- Setup["oci_retry"].CanCancel,
    active <- v1, history <- v2, instance <- v3, late <- v4, clock <- v5, proc <- v6,
    crashes <- v7, lost <- v8

OciCancel == INSTANCE OciLifecycle WITH
    Procs <- Setup["oci_cancel"].Procs, Runs <- Setup["oci_cancel"].Runs,
    MaxAttempts <- Setup["oci_cancel"].MaxAttempts, MaxClock <- Setup["oci_cancel"].MaxClock,
    MaxCrashes <- Setup["oci_cancel"].MaxCrashes, MaxLost <- Setup["oci_cancel"].MaxLost,
    CanCancel <- Setup["oci_cancel"].CanCancel,
    active <- v1, history <- v2, instance <- v3, late <- v4, clock <- v5, proc <- v6,
    crashes <- v7, lost <- v8

SparkParts == {"spark_linear", "spark_multistage", "spark_join"}

Spark(p) == INSTANCE SparkDriver WITH
    Documents <- Setup[p].Documents, Plans <- Setup[p].Plans, Tables <- Setup[p].Tables,
    Executors <- Setup[p].Executors, MaxAttempts <- Setup[p].MaxAttempts, MaxChanges <- Setup[p].MaxChanges,
    doc <- v1, plan <- v2, sources <- v3, exchange <- v4, target <- v5, attempt <- v6,
    pc <- v7, counted <- v8, expected <- v9, failure <- v10, pending <- v11,
    reports <- v12, changes <- v13

-----------------------------------------------------------------------------
Idle == "idle"
IdleFrom13 == v13 = Idle
IdleFrom11 == v11 = Idle /\ v12 = Idle /\ IdleFrom13
IdleFrom9 == v9 = Idle /\ v10 = Idle /\ IdleFrom11
IdleFrom7 == v7 = Idle /\ v8 = Idle /\ IdleFrom9

Init ==
    /\ part \in Parts
    /\ \/ part = "leader" /\ Leader!Init
       \/ part = "redelivery" /\ Redelivery!Init
       \/ part = "sqs" /\ Sqs!Init
       \/ part = "journal" /\ Journal!Init /\ IdleFrom11
       \/ \E p \in StoreParts : part = p /\ StoreOf(p)!Init /\ IdleFrom11
       \/ \E p \in ReadParts : part = p /\ Read(p)!Init /\ IdleFrom9
       \/ \E p \in ListParts : part = p /\ Listing(p)!Init
       \/ \E p \in RequestParts : part = p /\ Requests(p)!Init
       \/ \E p \in SelectParts : part = p /\ Select(p)!Init /\ IdleFrom7
       \/ part = "job" /\ Jobs!Init /\ v10 = Idle /\ IdleFrom11
       \/ \E p \in BackendParts : part = p /\ Execution(p)!Init /\ IdleFrom13
       \/ part = "oci_retry" /\ OciRetry!Init /\ IdleFrom9
       \/ part = "oci_cancel" /\ OciCancel!Init /\ IdleFrom9
       \/ \E p \in SparkParts : part = p /\ Spark(p)!Init

Next ==
    \/ part = "leader" /\ Leader!Next /\ UNCHANGED part
    \/ part = "redelivery" /\ Redelivery!Next /\ UNCHANGED part
    \/ part = "sqs" /\ Sqs!Next /\ UNCHANGED part
    \/ part = "journal" /\ Journal!Next /\ UNCHANGED <<part, v11, v12, v13>>
    \/ \E p \in StoreParts : part = p /\ StoreOf(p)!Next /\ UNCHANGED <<part, v11, v12, v13>>
    \/ \E p \in ReadParts : part = p /\ Read(p)!Next /\ UNCHANGED <<part, v9, v10, v11, v12, v13>>
    \/ \E p \in ListParts : part = p /\ Listing(p)!Next /\ UNCHANGED part
    \/ \E p \in RequestParts : part = p /\ Requests(p)!Next /\ UNCHANGED part
    \/ \E p \in SelectParts :
         part = p /\ Select(p)!Next /\ UNCHANGED <<part, v7, v8, v9, v10, v11, v12, v13>>
    \/ part = "job" /\ Jobs!Next /\ UNCHANGED <<part, v10, v11, v12, v13>>
    \/ \E p \in BackendParts : part = p /\ Execution(p)!Next /\ UNCHANGED <<part, v13>>
    \/ part = "oci_retry" /\ OciRetry!Next /\ UNCHANGED <<part, v9, v10, v11, v12, v13>>
    \/ part = "oci_cancel" /\ OciCancel!Next /\ UNCHANGED <<part, v9, v10, v11, v12, v13>>
    \/ \E p \in SparkParts : part = p /\ Spark(p)!Next /\ UNCHANGED part

Spec == Init /\ [][Next]_suiteVars

\* What each component asks of its constants.
ASSUME InstancesAssumption ==
    /\ Leader!ScheduleAssumption /\ Redelivery!ScheduleAssumption /\ Sqs!ScheduleAssumption
    /\ Journal!JournaledAssumption /\ \A p \in StoreParts : StoreOf(p)!StoresAssumption
    /\ \A p \in ReadParts : Read(p)!ReadsAssumption
    /\ \A p \in ListParts : Listing(p)!ListingAssumption
    /\ \A p \in RequestParts : Requests(p)!PortsAssumption
    /\ \A p \in SelectParts : Select(p)!SelectionAssumption
    /\ Jobs!JobsAssumption /\ \A p \in BackendParts : Execution(p)!BackendAssumption
    /\ OciRetry!OciAssumption /\ OciCancel!OciAssumption
    /\ \A p \in SparkParts : Spark(p)!SparkAssumption

-----------------------------------------------------------------------------
(***************************************************************************)
(* Properties of the stores and schedules.                                 *)
(***************************************************************************)

\* Schedules keep the promise of ScheduledRuns (schedule_consumer.py,
\* postgresql_schedule_queue.py): redelivery, retries, leaders in turn whose
\* clocks disagree and late handlers start one run per occurrence and drop none;
\* and a cursor goes back only with its definition.
OneRunPerOccurrence ==
    /\ part = "leader" => Leader!Promise!Init
    /\ part = "redelivery" => Redelivery!Promise!Init
    /\ part = "sqs" => Sqs!Promise!Init
    /\ [][/\ part = "leader" => Leader!KeepsPromise /\ Leader!CursorHeld
          /\ part = "redelivery" => Redelivery!KeepsPromise /\ Redelivery!CursorHeld
          /\ part = "sqs" => Sqs!KeepsPromise /\ Sqs!CursorHeld]_suiteVars

\* Every occurrence that the present spec of a trigger has yielded since it
\* took over is queued, set aside or has its run, whichever leader died between
\* computing it and enqueueing it (postgresql_scheduler.py); and none is there
\* before its minute by more than a clock may be fast.
NothingLost ==
    /\ part = "leader" => Leader!NothingLost /\ Leader!NeverEarly
    /\ part = "redelivery" => Redelivery!NothingLost /\ Redelivery!NeverEarly
    /\ part = "sqs" => Sqs!NothingLost /\ Sqs!NeverEarly

\* The journaled object stores, the in-memory store and PostgreSQL keep the
\* promise of GraphCatalog over races, helpers, crashes and lost answers: no
\* update is lost, a delete removes the revision it was asked to, and each
\* successful answer is about a change that happened.
GraphsAreCatalogs ==
    /\ part = "journal" => Journal!Catalog!Init
    /\ \A p \in {"memory", "postgresql"} : part = p => StoreOf(p)!Catalog!Init
    /\ [][/\ part = "journal" => Journal!KeepsCatalog
          /\ \A p \in {"memory", "postgresql"} : part = p => StoreOf(p)!KeepsCatalog]_suiteVars

\* A key is good for one result, whoever completed the request; a failed
\* precondition does not use it up; and what the local store says of a create
\* or a put is true over crashes at any of its durable writes.
ReplayIsExact ==
    /\ part = "journal" => Journal!TypeOK /\ Journal!ReplayIsExact
    /\ part = "postgresql" => StoreOf("postgresql")!TypeOK /\ StoreOf("postgresql")!KeysAreResults
    /\ part = "local" => StoreOf("local")!ChangesAreTrue

\* Unversioned reads (s3_graph_store.py and its siblings) return one version of
\* the object, and a client that pages through the graphs sees each one that
\* stayed once and none that was not there.
ReadsAreWhole ==
    /\ \A p \in ReadParts : part = p => Read(p)!ReadsOneVersion /\ Read(p)!GivesUpWhenOvertaken
    /\ \A p \in ListParts : part = p => Listing(p)!ListsWhatStays /\ Listing(p)!ShowsWhatWas

-----------------------------------------------------------------------------
(***************************************************************************)
(* Properties of requests and executions.                                  *)
(***************************************************************************)

\* No editor's work is destroyed unseen, only a client whose roles allow it
\* changes anything, and an answer is honest about what happened, though
\* several editors interleave and answers are lost; a repeated start is
\* answered with the run it started, though the estimate that chose its plan
\* has changed (http_surface.py, application.py).
AnswersAreHonest ==
    [][/\ \A p \in RequestParts : part = p =>
            /\ Requests(p)!EditsWereSeen /\ Requests(p)!OnlyCapable
            /\ Requests(p)!AnswersAreHonest /\ Requests(p)!ListedIsHonoured
            /\ Requests(p)!RunsAreWhatWasAsked
       /\ part = "retries" => Select("retries")!AnsweredWithItsRun]_suiteVars

\* A request starts one run of the plan it asked for, however often it is sent
\* while tables grow and graphs are edited; and whatever configuration is
\* accepted, its decisions are ones the decision records accept and no plan
\* is shadowed (PlanRunSubmissionResolver).
OneRunPerRequest ==
    /\ part = "retries" => /\ Select("retries")!TypeOK /\ Select("retries")!OneRunPerRequest
                           /\ Select("retries")!OverrideIsHonoured
    /\ part = "configurations" => /\ Select("configurations")!DecisionsAccepted
                                  /\ Select("configurations")!NoPlanShadowed

\* An execution of a shared Cloud Run Job runs its own attempt's selection, a
\* handle is of an execution that was accepted, a confirmed cleanup stays, and
\* the outcome reported is the outcome (cloud_run backend).
OwnSelection ==
    part = "job" => /\ Jobs!TypeOK /\ Jobs!OwnSelection /\ Jobs!HandleIsReal
                    /\ Jobs!CleanedStaysClean /\ Jobs!TrueOutcome

\* An attempt is one execution, whichever calls were lost or came late; a
\* confirmed cleanup means that no task runs; and the result is the record of
\* the last task (the Fargate, Cloud Run and Dataproc backends).
OneExecution ==
    \A p \in BackendParts : part = p =>
        /\ Execution(p)!TypeOK /\ Execution(p)!OneExecution /\ Execution(p)!ResultOfLastTask
        /\ p = "fargate" => Execution(p)!ConfirmedMeansStopped

\* An attempt of the OCI controller is created only after the one before it has
\* ended, and a run preserved as succeeded has a container that exited with 0.
OneAttemptAtATime ==
    /\ part = "oci_retry" =>
         OciRetry!TypeOK /\ OciRetry!OneAttemptAtATime /\ OciRetry!SuccessIsReal
    /\ part = "oci_cancel" =>
         OciCancel!TypeOK /\ OciCancel!OneAttemptAtATime /\ OciCancel!SuccessIsReal

\* What the Spark driver wrote is what the graph maps from its sources, of the
\* types the target declares; an attempt's exchanges are its own, and success
\* is reported only when they are gone (scripts/spark_driver.py).
TargetMeansGraph ==
    \A p \in SparkParts : part = p =>
        /\ Spark(p)!TypeOK /\ Spark(p)!TargetMeansGraph /\ Spark(p)!TargetWellTyped
        /\ Spark(p)!ExchangesAreFresh /\ Spark(p)!SuccessIsClean

\* Nothing is undone behind another's back: a late patch neither reverts a
\* deployment nor takes a selection in use, preserved OCI history never
\* changes, and an attempt's exchanges are removed by no other attempt.
NothingIsUndone ==
    [][/\ part = "job" => Jobs!NoStalePatch
       /\ part = "oci_retry" => OciRetry!HistoryImmutable
       /\ part = "oci_cancel" => OciCancel!HistoryImmutable
       /\ \A p \in SparkParts : part = p => Spark(p)!OthersExchangesKept]_suiteVars
=============================================================================
