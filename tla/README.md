# A TLA+ model of Dander

Dander is a Python data platform. Its *pipeline runtime* extracts records from
business systems, publishes them to a warehouse, builds transforms there and
publishes metadata. Its always-on *Control plane* keeps pipeline graphs,
schedules and hosted runs, and dispatches those runs to managed compute. Its
*bootstrap and deployment tools* bring both into a cloud account. All three are
built from small conditional updates of durable rows, objects and cloud
resources, made by processes that stall, die or overlap. That is what tests
hardly reach, and it is what is modelled here. Paths are relative to
`src/src/dander/` of the repository unless they start with `docs/`, `scripts/`
or `README.md`.

## 1. Inventory

### Pipeline runtime

| Part | State | Operations |
| --- | --- | --- |
| Lease (`state/lease.py`, `providers/postgresql/state.py`) | a row per pipeline: run id, fencing token, expiry; a handle and the sticky lost flag in memory | acquire, heartbeat, verify, release |
| Run ledger (`state/run_history.py`, `state/failure.py`) | a row per run id | start, restart_retryable, checkpoint, finish, reconcile_interrupted |
| Watermarks (`state/watermark.py`) | a cursor per endpoint | get, compare_and_set |
| Target fence (`concurrency.py`, `providers/*/fence.py`) | a row per target and pipeline: run id, token | claim, touch, commit |
| Executor and runner (`executor.py`, `runtime.py`) | locals of one process | execute, `_run_endpoint` |
| Writers (`writer/`, `providers/*/writer.py`) | target, staging, load history | the five write modes, schema evolution |
| Sources (`ingestion/`) | none that survives an extraction | paged reads, Salesforce query jobs |
| Transforms (`transform/`, `providers/*/transform.py`) | warehouse relations | select, order, build, test |
| Graphs and repair (`pipeline/`, `providers/bigquery/graph.py`) | the graph file, output relations | save, preview, run, compile, repair a date window |
| Metadata (`catalog/`, `providers/glue`, `providers/dataplex`) | snapshot, registry file, catalog entries | publish |

Hard here: a verify and the write after it are not atomic; leases expire under
a stalled process which then goes on; BigQuery learns its token in a second
statement; batches, cursor and ledger are separate commits; answers are lost
after a commit; pages of one extraction are read from a table that changes. It
is correct when the destination never goes back, the cursor never passes a
change that was not published, a recorded success is true, a write that returned
took effect, and a pipeline always becomes runnable again.

### Control plane

| Part | State | Operations |
| --- | --- | --- |
| Run record, run stores, lifecycle (`control/orchestration.py`, `control/*_run_store.py`, `control/run_lifecycle.py`) | snapshots with revisions, idempotency keys; scan position and readiness in memory | start, replay, cancel, reconcile, ready |
| Execution backends (`control/*_execution_backend.py`, `control/execution_results.py`) | the shared Cloud Run Job; the provider keeps executions and logs | submit_or_adopt, observe, cancel, restore |
| Schedules (`control/postgresql_scheduler.py`, `control/postgresql_schedule_queue.py`, `control/sqs_schedule_queue.py`, `control/schedule_consumer.py`) | leader lock, cursors, leased messages, dead letters | tick, enqueue_due, receive, delete |
| Graph stores (`control/*_graph_store.py`, `control/object_graph_*.py`) | graphs with revisions, mutation journals | create, put, delete, get, list |
| HTTP surface, plan selection, planning (`control/http.py`, `control/application.py`, `control/physical_planner.py`) | none that outlives a request | requests, resolution of a start, physical plans |
| Startup (`control/startup_factory.py`, `control/run_composition.py`) | pool, threads, clients | open, close |
| OCI controller (`providers/oci_container_instances/`), Spark driver (`scripts/spark_driver.py`) | active and history objects; exchanges | start, reconcile, cancel, replay; one batch |

Hard here: snapshots that were overtaken, a provider call that took effect
before the save failed, cancellation racing dispatch, two processes during a
replacement, a redelivered message, helpers that finish each other's requests.
It is correct when a record never goes back, a run has one execution, an
occurrence starts one run and none is dropped, no editor loses an update, a key
has one result, and every accepted run ends.

### Bootstrap and deployment

Images and their promotion (`bootstrap/project.py`, `bootstrap/*_image.py`),
saved Terraform plans (`bootstrap/*_terraform.py`), stage zero
(`bootstrap/*_admin.py`), `dander init` (`cli/init_command.py`) and the hosted
profile (`deployment/`). Each command is a sequence of calls to external tools
and may be killed after any of them. It is correct when what is applied is what
was reviewed, a repeated command converges, and no resource loses the state
that tracks it.

`PROJECT.json` lists every component with its status, and every hazard with its
line and the properties that watch it.

## 2. Modules

| Module | Models |
| --- | --- |
| `PipelineLease`, `RunHistory` | the lease and the ledger row a run works with |
| `PipelineExecution` | composes them with target fence, watermark, destination and source under the control flow of `execute` and `_run_endpoint`; implements `Replication` |
| `RunRecord`, `ControlRuns` | the snapshot of a hosted run; lifecycle, run store and backend; implements `HostedRun` |
| `ScheduleQueue` | producer, queue and consumer of schedules; implements `ScheduledRuns` |
| `JournaledGraphStore`, `GraphStores` | S3, Azure, OCI and GCS; memory, PostgreSQL and local files; implement `GraphCatalog` |
| `ObjectReads`, `GraphListing` | unversioned reads of one object; listings in pages |
| `CloudRunJobs`, `BackendExecutions` | the shared Cloud Run Job; Fargate, Cloud Run and Dataproc executions and their results |
| `OciLifecycle`, `SparkDriver` | the OCI Function's controller; the Dataproc driver |
| `ControlRequests`, `PlanSelection`, `PhysicalPlanning`, `ControlStartup` | routes, roles and ETags; choice of plan and environment; physical plans; opening and closing |
| `DestinationWrites`, `SchemaEvolution`, `ColumnTypes` | write modes behind the fence; columns; type tables |
| `TransformBuilds`, `OutputRepair`, `MetadataPublication` | the stages after extraction |
| `PagedExtraction`, `SalesforceJobs` | reads of changing tables |
| `GraphServe`, `GraphCompilation` | `dander serve`; order and meaning of a graph |
| `HostedRollout`, `RuntimeImages`, `ControllerImages`, `SavedPlans`, `StageZero`, `InitApply` | bootstrap and deployment |
| `ControlPlane` | the suite of Control's components beside the run lifecycle, over any constants: their union and its properties |
| `MCControlPlane` | small constants for `ControlPlane` |
| `MCDataPlane`, `MCOperations` | suites of small instances, see section 3 |
| `PipelineExecutionProofs`, `ControlRunsProofs`, `ControlStoresProofs`, `ControlWorkProofs` | theorems; those of `ScheduleQueue`, `JournaledGraphStore`, `OciLifecycle` and `DestinationWrites` stand at the end of these modules |

### Correspondence to the code

A process has a `pc` for the call it makes next; a call to a store or service is
one action, with the guard the code's condition and, where the call may fail or
lose its answer, a disjunct for it. A crash drops the memory of a process and
leaves everything durable. Names of operators are the code's, and `map` in
`PROJECT.json` gives the lines: one entry per operation; a helper or an
environment action whose lines lie within another entry's, or that stands for
code outside the repository, is not listed again.

*PipelineExecution.* An exception is `Fail` before a call (nothing happened) or
after it (applied, answer lost). `Expire` may happen at any moment, so lease
time is one bit. `Destination = "lease"` is BigQuery DML that touches the lease
row in the same script, `"target"` a writer with its own commit ledger. One
extraction is one read, one endpoint, one target; transforms and metadata are
stages whose content the other modules model. Cursors are integers where the
code compares strings, and the MERGE that starts a ledger row is taken to find at
most one row, although BigQuery has no primary key. `seen` is history.

*ControlRuns.* `op[p]` is the mutation that holds the lock, `page[p]` the
snapshots the reconciler read outside it. A revision is opaque: a snapshot only
carries whether it is still current. Identities, plans, timestamps and logs are
left out.

*Stores.* `JournaledGraphStore` has a worker's stack of frames, since a reader
finishes pending requests of others; reads are atomic there because of
`ObjectReads`. Its retry loops are unbounded where the code bounds them.
`ObjectReads` leaves out size limits.

*Backends.* `CloudRunJobs`: the execution is accepted with the patch that
carries its token. `OciLifecycle`: run and attempt are the identity of an
instance (its retry token), an ETag is a version nobody holds, a call that
raises is a crash. `SparkDriver`: rows have identities; digests and argument
parsing are left out.

*Schedules.* `now` is true time; every tick reads a clock that is off by at most
`MaxSkew` minutes either way (`Readings`), so successive leaders disagree.

*Requests.* `ControlRequests` has one graph and one flaw per request; a wired
profile may answer a start, a repair or a route of a run with the refusals of
`PlanRefusals` and `RepairRefusals`, whose conditions are those of
`PlanSelection`. `PlanSelection` has one process and a fixed configuration.
`PhysicalPlanning` takes canonical orders for sets, executes plans with an
external engine and leaves out the refusal of joins in the legacy form of edges.
`ControlStartup` leaves out thread creation that fails and
assumes that a close that timed out is called again; `Uses` is what the worker
threads use under the mutation lock, and reads of a run (get, list, logs), which
take no lock, are not among its requests.

*Data.* In `DestinationWrites` a table is a set: copies of one row are not
counted. Its `r` is a fencing token, and `run[r]` the run id that holds it: a
retried run id takes a new token, possibly after a newer run's, and extracts
anew; a batched writer gets several loads behind one claim. `SchemaEvolution`
has BigQuery's two routines, the reconciliation of scd1 and incremental targets
and the creation and alteration of snapshot, scd2 and Storage Write targets;
replace, which truncates with its own schema, is not in it. `TransformBuilds` covers four providers; `CREATE OR REPLACE` of BigQuery
is not fenced (hazard at `transform/runner.py:130`) and its instances build
BigQuery incremental models and views; late and withdrawn rows (`LateRows`) are
in the instances of Snowflake and Redshift, while those of PostgreSQL and
BigQuery incremental models have rows in cursor order. `OutputRepair` abstracts queries to their
result; `MetadataPublication` verifies synchronously and takes an asset with its
database for one publication. `PagedExtraction` and `SalesforceJobs` read from
the simulators of `dander.dev`, which are external to the connector.
`GraphCompilation` takes rows as sets and leaves out casts; `GraphServe` numbers
contents by their write.

*Bootstrap.* Terraform, gcloud, docker and registries are external: a saved plan
remembers backend and serial and is refused when the state moved on; an apply
may stop after any resource; an image index is its digest; tags can be pushed by
others. In `HostedRollout` a revision is an image and the input of its
configuration; a profile is deployed at first, and that the operator runs one
command at a time (`Unoccupied`) is an assumption, for the code has no lock. In
`InitApply` the options are those that select steps: `--apply`,
`--bootstrap-service-account` (no administration), `--no-runtime` and
`--container-image` (no publication), and the cost guard; commands with different
options follow one another in any order, and a plan remembers how it was made.

## 3. Runs

A suite module instantiates many components over the same variables `v1`,
`v2`, ...: `part` names the instance a behaviour belongs to and never changes,
and `Parts` in the cfg says which instances a run has. The components are
independent, so this is the union of their state spaces and not the product.
Each property of a suite is a conjunction over its parts; `InstancesAssumption`
evaluates every component's assumption on its constants. `ControlPlane` takes
the constants of part `p` from `Setup[p]`, which the runs fill in from
`MCControlPlane` and the proofs leave arbitrary.

| Run | Instance | Shows |
| --- | --- | --- |
| `pipeline_bigquery` | 2 runs, 2 records that change and disappear, full reads, BigQuery state and lease fence | destination and watermark never go back, the watermark is backed, a success covers what was extracted |
| `pipeline_retries` | 2 runs with 2 processes each, filtered source, PostgreSQL state, target fence | `ExecutionInv`, nothing goes back, success is final |
| `pipeline_liveness` | all stages | every process ends, the lease is freed |
| `control_recovery` | 1 process, 2 runs in 2 pages, 3 requests, 2 faults, PostgreSQL, Fargate | the promises of `HostedRun`; ready means recovered |
| `control_overlap` | 2 processes, 1 run, 2 faults, S3, Cloud Run | one execution; `ControlInv` |
| `control_canceled` | violation | a run is recorded as canceled while its execution is to come |
| `control_stores` | schedules (three instances), journal, three simple stores, reads, listings, requests, selection | one run per occurrence, none lost; catalogs; exact replay; whole reads; honest answers; one run per request |
| `control_work` | Cloud Run Job, three backends, OCI, Spark | own selection; one execution; one attempt at a time; the target means the graph; nothing undone |
| `warehouse` | four writers (Redshift also with direct loads), four schemas and BigQuery's unreconciled one, types, builds, repairs, two catalogs | writes take effect; no older publication; columns only grow; published fits; builds are current; nothing goes back; metadata is honest |
| `sources_graphs` | four paged sources, Salesforce, serve, compiler | caught up; edits are safe; the query means the graph |
| `deployment` | rollouts, images, plans, stage zero, init, startup, planner | deployed is reviewed; starts safely; plans are kept |
| `progress` | eighteen instances under fairness | what somebody waits for comes; what is repeated arrives |

Every property of a passing run has a mutant in `PROJECT.json`: an operator that
changes the model the way a plausible bug would change the code, with which TLC
finds the property violated.

### Bounds

*Pipeline.* Two records and two changes with cursor values 1 and 2 give a record
two versions, two records one cursor value, a change after an extraction with
the value about to be committed, and deletions that lower the largest value
read. `BatchRows` 1 puts a failure between two batches. `MaxAttempts` 2 lets a
retry meet a late effect of its predecessor. `MaxToken` refuses acquisitions
only after every run had one. With two runs a stale run meets one successor; a
third would repeat the takeover, and the theorems hold for any number.

*Control.* Two runs with `PageSize` 1 give a scan with a page that fails and one
that does not. Two faults are a lost answer followed by a crash, or a crash in
the recovery from one.

*Suites.* Two or three actors, two keys, one or two of each fault; the instances
stand in the suite modules with a sentence on what they are for. Where two
bounds compete the instances split them: `leader` has a trigger whose spec
changes, leaders whose clocks are a minute off either way and one delivery,
`redelivery` two deliveries and two faults. Two executions under one run id, or
under two, write two batches each; Snowflake, whose replay guard works by file,
has three executions and loads that shrink, so that an older run id can return
after a newer one. A listing
has four graphs and pages of one, so that a page can be empty, short and full.

### Fairness

Pipeline: weak fairness of each live process's next step (every call returns or
raises) and of the expiry of a lease whose process is gone. Nothing of launches,
crashes, the source or the heartbeat.

The schedule of `progress` arrives when its cursor is within the skew of the
present minute. `MCOperations` gives each instance up to six weakly fair actions (`Goes`) and two
strongly fair ones (`Repeated`). Weakly fair: a thread or a process goes on, the
service answers, lists, delivers or expires. Strongly fair is what somebody
repeats although it is not always possible: the OCI Function's schedule, an
operator who plans and applies again (a lock or a stale plan may be in the way),
stage zero run again, init run again with its administration (an init that is
refused or that names an account need not build the platform), a browser that
asks for the status. A close of Control that timed out is called again. Faults are
bounded, as usual when termination is claimed. Deadlock is not checked in the
suites: an instance stops when its bounds are used up or everything is done.

## 4. Proofs

TLAPS checks the theorems for every set of runs and records and every value of
the other constants.

*Lease* (`PipelineExecutionProofs`). `LeaseInv` is inductive: no handle is ahead
of the row, a handle with the row's token belongs to the run the row names, and
so no two runs share a token (`LeaseSafety`, `TokensAreUnique`). The middle
conjunct is what makes it inductive over BigQuery's separate SELECT, which
trusts the run id alone. `ExecutionLeaseSafety` shows that every step of the
executor is a lease operation or leaves the lease alone.

*Execution.* `WatermarkBacked` is not inductive: a commit is justified by what
the run extracted earlier and has written since. `ExecutionInv` adds
`ExtractionComplete` (every change below the cursor about to be committed is in
the destination or among the rows still to write), `FreshRows` (rows that the
fence would still accept are not older than the destination, because the fence
was claimed before the extraction and a later claimant takes it away),
`SeenAccountedFor`, `CursorObserved`, `RowsOnlyWhileWriting`, `NothingAhead`
and `SucceededIsOver`. Steps that touch neither data nor extraction are treated
once in `QuietStep`; `ExtractStep`, `WriteStep`, `CommitStep` and `SourceStep`
are the four that matter. From it follow `WatermarkIsBacked`, `SuccessCovers`,
the refinement `ExecutionRefinesReplication` and `SuccessStays`. None of them
rests on the fence of the watermark, which PostgreSQL state does not have.

*Control* (`ControlRunsProofs`). Neither `OneExecution` nor
`ReadyMeansRecovered` nor the refinement is inductive: each depends on what a
mutation read earlier and on how far the scan has come. `ControlInv` is the
conjunction of `TypeOK` and four parts. `RunsSound`: a record with a handle
belongs to attempt 1, whose execution exists, and a terminal one says what is
true of that execution; no other attempt has one. `OperationsSound`: the
snapshot of a mutation is not ahead of its record, equals it while its revision
is current, and fits the call that is made next. `PagesSound` says the same of
the reconciler's pages. `RecoverySound`: a run that an earlier process left is
ahead of the scan, in its page, or the scan has been marked failed. The steps
are grouped by what they move: `QuietMutation`, `ExecutionChanged` and
`SaveStep`. From `ControlCorrect` follow `TypeCorrect`, `AtMostOneExecution`,
`ReadyAfterRecovery` and, with one lemma per action, `ControlRefinesHostedRun`.

*The suite of Control* (`ControlStoresProofs`, `ControlWorkProofs`). All theorems
about `ControlPlane` are about `Spec` as the runs check it, for every `Setup`
that satisfies `InstancesAssumption`. A behaviour is one of one part, so the
inductive invariant of a suite property is, part by part, that of the component;
`StepOfPart` and its like say that a step of the suite is one of its part. Every
property of `control_stores` and `control_work` except `TargetMeansGraph` is
such a theorem.

*Graph stores.* `GraphStores` (memory, PostgreSQL, local): `StoreInv` says that
every stored revision is known, every recorded key stands for a change that was
made or, in the local store, for a planned one, and that the revision of a
planned create is never made by a put, which is what keeps a resumed create
truthful. `JournaledGraphStore` (the object stores): every object a frame has
read is a past value of that object, and equals it if the version still matches,
so a conditional write either applies to what the frame has seen or fails;
`StackIsRight` relates a helper's frame to the one that called it, which leaves
room for any depth of helping. `Evolves` collects what a step may do to the
objects, so that the frames of the other workers are treated once. From both
follow `StoresAreCatalogs` (the refinement of `GraphCatalog`; the local store is
not part of it, see section 5) and `ReplaysAreExact`.

*Reads and listings.* `ReadInv` counts: a reader that is in its n-th round has
met n - 1 versions other than the present one, each stored while it was reading
(`Passed`), and a write only ever adds to those; so it gives up only after that
many writes, and what it returns is one of them. `ListInv` says of a client in the middle of its
pages that what it was shown is in order, below its position and was visible
(`Past`, `WasListed`), that every graph that has been there all along and lies
below the position was shown (`Behind`), and what the page in hand still owes
(`PageOK`, `EntriesOK`, `Left`): the page is the first few of the names above
the position, so what it does not name lies above its last name. `FirstFew`,
`Smallest` and `Largest` give that for any finite set of names. With both,
`ReadsAreOfOneVersion`.

*Requests.* `RequestInv` says of each client what its request has passed when it has
come this far (the authorization of its route, the ETag it was shown), and that
what a principal was told of its operations is what its roles and the profile
give. A listed operation is never forbidden, and is answered with 501 only on the
routes that need a plan or a backend. `AnswersAreHonest` is an action property: each handler is one lemma
(`GetGraphKeeps`, `PutGraphKeeps`, `StartRunKeeps`, ...), and `TablesAgree`,
`HandlerAgrees` and `AuthorizerAgrees` show that the route table, the handlers
and the authorizer decide alike.

*Plan selection.* `SelectInv`: a stored run is one that its request may select
(`GoodRun`), a key has one run in an environment, and a client that is about to
start holds such a run and has found none, under the lock. `OneSelected` shows
that the cheapest affordable plan is one plan, because the configuration's order
decides between equals; so a repeated start finds the run it started although
the estimate has changed. `NobodyShadowed` is about configurations alone.

*Backends.* `BackendInv` of the Fargate, Cloud Run and Dataproc executions: a name
is used once, only the last task can run, only the last task of an execution
that succeeded has a record of success, and what a worker knows is over is over.
Logs only grow and ends are final (`BackendForward`), so what a worker has read
stays true.

*Cloud Run Jobs* (`CloudRunJobs`). `JobsInv`: a Job that a worker has read, or
that a patch was built on, is the deployed one unless the deployed one has a
newer etag; a token on the Job is one of an accepted execution. `SelectionsAreOwn`
and the first part of `UndoneByNobody` are what the etag then buys. The
assumption that `None` is not an attempt is part of `JobsAssumption`. For the
Spark driver `UndoneByNobody` needs only that an exchange bears the number of
its attempt.

*OCI lifecycle* (`OciLifecycle`). An exit code is final, and every record,
stored or held by an invocation, says only what the exit codes say: earlier
attempts ended with a retry, a success exited 0 (`AttemptsAreReal`,
`HistoryIsPreserved`, and in the suite `AttemptsTakeTurns`). An object never gets back an ETag that an invocation
still holds; `FreshVersion` gets this from the finite number of invocations,
hence `IsFiniteSet(Procs)` in `OciAssumption`.

*Schedules* (`ScheduleQueue`). `ProducerInv`: an open session is the leader's,
and the horizon of a tick is at most `MaxSkew` ahead of true time. Nothing ties
it to the stored cursors, for the clocks of two leaders disagree; a cursor ahead
of the horizon is refused, unless the definition changed, hence
`CursorsFollowTheirSpec`. `QueueInv`: what a consumer holds is stored or has run,
what it acknowledges has run, and a key has one run. With both,
`SchedulesKeepTheirPromise` (the refinement of `ScheduledRuns`),
`NoOccurrenceIsLost` and `NobodyIsEarly`; the suite's theorems `SchedulesKeepTheirPromise` and
`SchedulesLoseNothing` cite its lemmas for the three instances.

*Destination writes* (`DestinationWrites`). First the data, with no state: what
each mode's statements make of any table and any batch. `Scd2Follow`,
`Scd2Holds` and `Scd2Keeps` treat close-then-insert; `BigQueryScd2` shows that
comparing first and then closing and inserting is the same if the table has not
changed in between; `PruneThenNewest` shows that Redshift's delete-then-merge
and the others' merge-unless-older are the same rows. So all four warehouses do
one thing, `Applied` (`Publications`). Then the state. `WritesInv`: the last
publisher is not ahead of the fence, staging bears the number of a write that
has begun (`OlderRunsNeverPublish`, `WritesLeaveNoLitter`). `TableInv` adds that
the table is one of its mode and that what BigQuery found changed outside its
transaction is still what is changed while the run holds the fence
(`VersionsFollow`, `PublicationsLoseNothing`). `EffectInv` follows the histories
of Redshift and Snowflake, which are kept by run id while the fence goes by
token. What Snowflake found missing from the history is still missing while the
execution holds the fence (`PendingOK`); the table holds the records that were
applied last, `latest` (`LatestOK`); and it holds the load of the last
publisher, unless the history left some of it out and other records were applied
since (`AbsorbedOK`). Hence `WritesTakeEffect`, with no assumption on what the
source does between batches and retries. The loads are sequences of records with
integer cursors, and `Open` is not a time.
## 5. Where code and documents disagree

`control_canceled` is checked as a violation: `_cancel_once` takes a queued
record for a run that was never submitted; after a dispatch whose save failed it
records `canceled` with cleanup confirmed and the execution runs on.

The following were met while modelling. Either the property states the exception,
or a restriction that the instance states keeps the behaviour out of the passing
runs and lifting it shows the behaviour.

- *Stale cursor.* `README.md:533` says a stale run cannot advance a newer run's
  cursor; with PostgreSQL state the compare-and-set drops its fence
  (`providers/postgresql/state.py:310`). `pipeline_retries` has that state, and
  so has `CommitCursor`; what holds even then is `ExecutionInv`: the cursor such
  a run commits is backed and does not go back.
- *Interrupted runs.* `reconcile_interrupted` is documented to mark older rows;
  its condition has no age (`state/run_history.py:443`).
- *Early answer.* `_cancel` stores its planned answer before it acts and repeats
  it to every retry, `canceled` included (`control/run_lifecycle.py:993`).
- *Graph stores.* A journaled create can be finished by a helper after the graph
  it made was deleted, and a local create is resumed after a restart although
  others changed the graph meanwhile; so deletes of the local store are not
  claimed to be true (`ChangesAreTrue` excepts them).
- *Replay guards.* Redshift and Snowflake recognise a replay by run id and
  content (`providers/redshift/writer.py:826`, `providers/snowflake/writer.py:900`).
  A batch, or the re-extracted load of a retry, that repeats content which the
  run id recorded before other records were applied is left out too, as is the
  part of a shrinking replace that Snowflake has loaded before: the write
  returns and the table holds the other records. All of this is in the
  instances; `TakesEffect` excepts exactly these writes.
- *Schedule clocks.* A comment says that a changed definition "must not be
  projected backward across the old definition's durable cursor"
  (`control/postgresql_schedule_queue.py:181`). The cut-over takes the horizon
  of the leader's own clock (`control/postgresql_scheduler.py:210`) before the
  cursor is compared with it, so a leader whose clock is behind moves the cursor
  back. This is in the instance; `CursorHeld` claims the rest, and no occurrence
  is lost or starts twice for it.
- *Schema drift.* `docs/known-limitations.md:130` says that type or mode changes
  and undeclared drift fail before loading. BigQuery snapshot, scd2 and Storage
  Write targets go through `_apply_schema_evolution` (`writer/bigquery.py:578`),
  which compares nothing: `PublishedFits` promises the columns of these writers
  and not their types.
- *Listed operations.* A capability is listed when its ports are wired; a start,
  a repair and the routes of a run are refused later with 409, 422 or 501 when
  no registered plan, backend or output fits (`control/run_lifecycle.py:153`,
  `514`, `661`; `control/application.py:353`). `ListedIsHonoured` allows it on
  `PlanRoutes` alone.
- *Init with a named account.* `dander init --apply --bootstrap-service-account`
  does no administration (`cli/init_command.py:139`), so its platform may lie in
  a bucket that nobody tracks or versions, and is applied whether or not the
  grant has propagated, as `infra/README.md:75` intends;
  `PlatformOnFirmGround` speaks of commands that administer. With
  `--container-image` the image is the operator's word, and an image without a
  runtime is refused only after the administration
  (`bootstrap/terraform.py:166`).
- *Long logs.* A completion record beyond the pages that are read is never found
  (`MaxPages * PageSize` is larger than a log here).
- *Plans.* The plan file of a directory shared by two operators is replaced
  between review and apply (`Dir` gives each its own); a killed foundation plan
  is left unchecked under its final name (`CanBeKilled` is FALSE for Azure), and so
  is an Azure plan whose `_secure_plan` fails after Terraform wrote it
  (`bootstrap/azure_terraform.py:270`).
- *Glue.* A get and an update race with other tools' edits (`EditsAnytime` is
  FALSE for Glue); joined database names of two catalogs can coincide.
- *Kubernetes.* The verifier may pass on pods of the old revision
  (`VerifiedIsRunning` excepts it).
- *OCI.* Two invocations that finish a run with different records leave the lock
  taken; a cancel that reads a pending record leaves the container that the
  launch is creating (`CanCancel` has one attempt and no crash).
- *Images.* Digest and manifests are read through a movable tag; a wheel may be
  rebuilt between its hash and its copy; the state bucket of a killed init is
  taken for a hardened one on the next run.
- *BigQuery DDL* is not fenced, as `docs/known-limitations.md:155` says.

## 6. Only model-checked, and not modelled

Only TLC: liveness (`LeaseIsFreed`, `ProcessEnds`, `Settles`, `Converges`), since
fairness and ENABLED are out of the prover's reach. The modules with recursive
operators (`GraphCompilation`, `TransformBuilds`, `PhysicalPlanning`), whose
results would need induction over data, and with them the suites of the data
plane and of the operations, which contain them; of the data plane,
`DestinationWrites` has theorems of its own for every value of its constants.
`TargetMeansGraph` of the Spark driver, whose rows are the result of joins and
mappings over any graph; that no attempt removes another's exchanges is proved.
The bound of `clock` in `DestinationWrites`' `TypeOK`, which counts over all
runs.

Not modelled: several endpoints in sequence, telemetry, the signing-key cache of
`control/auth.py`, the composition of Glue names, migrations and readiness
probes, request bodies, explanations, static bundle; identity, secrets,
configuration files, evidence and qualification, which keep no state that
several steps share. The launchers other than OCI's render manifests.


## 7. Order of work

Modelled in this order: pipeline runtime, run lifecycle, schedules, graph stores,
backends, writers, transforms and metadata, requests and planning, bootstrap.
Proved in this order: pipeline runtime, run lifecycle, graph stores, schedules,
Cloud Run Jobs, OCI lifecycle, destination writes, backends, plan selection,
requests, object reads, listings.
