-------------------------- MODULE PipelineExecution --------------------------
(***************************************************************************)
(* PipelineExecutor.execute with PipelineRunner._run_endpoint inside it:   *)
(* the runs of one pipeline, each a process that may stall, fail or crash  *)
(* between any two store calls, over the shared lease, run ledger, target  *)
(* fence, watermark and destination table of one incremental endpoint.     *)
(*                                                                         *)
(* A store call is one atomic step.  A call that raises is Fail from the   *)
(* step before it (no effect) or from the step after it (the effect was    *)
(* applied and its answer lost).                                           *)
(***************************************************************************)
EXTENDS PipelineLease, RunHistory, FiniteSets, TLC

CONSTANTS
    Keys,           \* source records of the endpoint
    Deletable,      \* records the source may delete
    MaxChanges,     \* bound: changes the source makes
    MaxClock,       \* bound: distinct cursor values
    MaxAttempts,    \* bound: processes started for one run id
    BatchRows,      \* PipelineRunner batch_rows
    BuildModels,    \* PipelineExecutor build_models
    PublishesMetadata,  \* PipelineExecutor._publishes_metadata
    Filtered,       \* the source filters by the stored cursor
    Destination     \* "lease": BigQuery DML fenced by the lease row;
                    \* "target": a writer with requires_publication_fence

ASSUME ExecutionAssumption ==
    /\ Deletable \subseteq Keys
    /\ MaxChanges \in Nat /\ MaxClock \in Nat /\ MaxAttempts \in Nat
    /\ BatchRows \in Nat \ {0}
    /\ Filtered \in BOOLEAN /\ BuildModels \in BOOLEAN /\ PublishesMetadata \in BOOLEAN
    /\ Destination \in {"lease", "target"}
    \* fencing_touch_sql raises without a BigQuery lease table, and the SQLite
    \* lease carries no FencingToken at all.
    /\ Destination = "lease" => StateStore = "bigquery"
    /\ StateStore # "sqlite"

VARIABLES
    fence,              \* the target's ledger row: run id and token; token 0 is no row
    ver, cur, clock,    \* the source, as in Replication
    dest,               \* dest[k]: version of k in the destination table
    watermark,          \* WatermarkStore: the committed cursor, 0 is None
    pc,                 \* where the process of each run is
    attempt,            \* attempt[r]: processes started for r so far
    boundary,           \* boundary[r]: stored_cursor, 0 is None
    rows,               \* rows[r][k]: extracted version not yet written, 0 if none
    high,               \* high[r]: _RecordObservation.maximum_cursor, 0 is None
    seen,               \* seen[r][k]: version of k the source held at extraction
    failure             \* failure[r]: code of the exception being handled

sourceVars == <<ver, cur, clock>>
storeVars == <<fence, dest, watermark>>
memoryVars == <<attempt, boundary, rows, high, seen, failure>>
vars == <<lease, handle, lost, history, startSeq, fence, ver, cur, clock, dest,
          watermark, pc, attempt, boundary, rows, high, seen, failure>>

\* The control points of execute and _run_endpoint, in program order.
Verifying == {"verifyClaim", "verifyWrite", "verifyCursor", "verifyBuild",
              "verifyPublish", "verifyFinish"}
Working == {"started", "selecting", "skipping", "leased", "reading", "claim",
            "extract", "write", "cursor", "transform", "build", "metadata",
            "publish", "finish"} \union Verifying
Alive == Working \union {"failing", "exiting"}
Extracting == {"verifyWrite", "write", "verifyCursor", "cursor"}
ControlPoint == Alive \union {"idle", "done", "crashed"}

Versions == [Keys -> Nat]
NoRows == [k \in Keys |-> 0]

-----------------------------------------------------------------------------
(***************************************************************************)
(* The destination-side publication fence: the row of                      *)
(* dander_target_commits for one target and one pipeline.  One authority   *)
(* and one authority epoch are modelled (every claim of a deployment       *)
(* carries the same pair), and status and timestamps are left out: no      *)
(* condition of the code reads them.                                       *)
(***************************************************************************)

FenceTypeOK == fence \in [run : Runs \union {NoRun}, token : Nat]

FenceInit == fence = [run |-> NoRun, token |-> 0]

\* The condition of the claim's upsert: a newer token, or an exact replay.
FenceAccepts(r, token) ==
    \/ token > fence.token
    \/ token = fence.token /\ r = fence.run

\* claim: accepted.
ClaimFence(r, token) ==
    /\ FenceAccepts(r, token)
    /\ fence' = [run |-> r, token |-> token]

\* Mutant of FenceMatches: any claim that was ever made still counts.
FenceMatchesAny(r, token) == token # 0 /\ token <= fence.token

\* The match of touch_sql and commit_sql, in the publication's transaction.
FenceMatches(r, token) == fence.run = r /\ fence.token = token

-----------------------------------------------------------------------------
DataTypeOK ==
    /\ ver \in Versions /\ cur \in Versions /\ clock \in Nat
    /\ dest \in Versions
    /\ watermark \in Nat

ProcessTypeOK ==
    /\ pc \in [Runs -> ControlPoint]
    /\ attempt \in [Runs -> Nat]
    /\ boundary \in [Runs -> Nat]
    /\ rows \in [Runs -> Versions]
    /\ high \in [Runs -> Nat]
    /\ seen \in [Runs -> Versions]
    /\ failure \in [Runs -> {"none", "retryable", "final"}]

TypeOK == LeaseTypeOK /\ HistoryTypeOK /\ FenceTypeOK /\ DataTypeOK /\ ProcessTypeOK

Init ==
    /\ LeaseInit /\ HistoryInit /\ FenceInit
    /\ ver = NoRows /\ cur = NoRows /\ clock = 1
    /\ dest = NoRows
    /\ watermark = 0
    /\ pc = [r \in Runs |-> "idle"]
    /\ attempt = [r \in Runs |-> 0]
    /\ boundary = [r \in Runs |-> 0]
    /\ rows = [r \in Runs |-> NoRows]
    /\ high = [r \in Runs |-> 0]
    /\ seen = [r \in Runs |-> NoRows]
    /\ failure = [r \in Runs |-> "none"]

-----------------------------------------------------------------------------
Goto(r, point) == pc' = [pc EXCEPT ![r] = point]

At(r, point) == pc[r] = point

\* Local variables of _run_endpoint go out of scope.
ForgetExtraction(r) ==
    /\ boundary' = [boundary EXCEPT ![r] = 0]
    /\ rows' = [rows EXCEPT ![r] = NoRows]
    /\ high' = [high EXCEPT ![r] = 0]

\* An exception leaves the try block.
Raise(r, code) ==
    /\ Goto(r, "failing")
    /\ failure' = [failure EXCEPT ![r] = code]
    /\ ForgetExtraction(r)
    /\ seen' = [seen EXCEPT ![r] = NoRows]
    /\ UNCHANGED attempt

\* The stages that follow ingestion, as configured.
AfterIngest ==
    IF BuildModels THEN "transform" ELSE IF PublishesMetadata THEN "metadata" ELSE "verifyFinish"

AfterBuild == IF PublishesMetadata THEN "metadata" ELSE "verifyFinish"

-----------------------------------------------------------------------------
(***************************************************************************)
(* The source system (external).                                           *)
(***************************************************************************)

RunsUnchanged ==
    UNCHANGED <<leaseVars, historyVars, storeVars, pc, memoryVars>>

\* The number of changes so far: one for each version of each record.
Changes == Cardinality({c \in Keys \X (1 .. MaxChanges) : c[2] <= ver[c[1]]})

SourceChange(k) ==
    /\ Changes < MaxChanges
    /\ ver' = [ver EXCEPT ![k] = @ + 1]
    /\ cur' = [cur EXCEPT ![k] = clock]
    /\ UNCHANGED clock
    /\ RunsUnchanged

SourceDelete(k) ==
    /\ k \in Deletable
    /\ cur[k] # 0
    /\ cur' = [cur EXCEPT ![k] = 0]
    /\ UNCHANGED <<ver, clock>>
    /\ RunsUnchanged

SourceTick ==
    /\ clock < MaxClock
    /\ clock' = clock + 1
    /\ UNCHANGED <<ver, cur>>
    /\ RunsUnchanged

-----------------------------------------------------------------------------
(***************************************************************************)
(* Starting a process, recording the run, acquiring the lease.             *)
(***************************************************************************)

\* execute(retry = False): history.start, outside the try block.
Start(r) ==
    /\ At(r, "idle")
    /\ \/ HistoryStart(r) /\ Goto(r, "started")
       \/ UNCHANGED historyVars /\ Goto(r, "done")
    /\ attempt' = [attempt EXCEPT ![r] = 1]
    /\ UNCHANGED <<boundary, rows, high, seen, failure>>
    /\ UNCHANGED <<leaseVars, storeVars, sourceVars>>

\* The launcher starts another process for the run id: execute(retry = True).
\* A row that is not a retryable failure makes it raise before anything else.
Retry(r) ==
    /\ pc[r] \in {"done", "crashed"}
    /\ attempt[r] < MaxAttempts
    /\ HistoryRestart(r)
    /\ Goto(r, "started")
    /\ attempt' = [attempt EXCEPT ![r] = @ + 1]
    /\ seen' = [seen EXCEPT ![r] = NoRows]
    /\ UNCHANGED <<boundary, rows, high, failure>>
    /\ UNCHANGED <<leaseVars, storeVars, sourceVars>>

\* SQLite and PostgreSQL acquire.
AcquireLease(r) ==
    /\ At(r, "started")
    /\ AcquireRow(r)
    /\ Goto(r, "leased")
    /\ UNCHANGED <<historyVars, memoryVars, storeVars, sourceVars>>

\* BigQuery acquire: the UPDATE ...
UpdateLeaseRow(r) ==
    /\ At(r, "started")
    /\ UpdateRow(r)
    /\ Goto(r, "selecting")
    /\ UNCHANGED <<historyVars, memoryVars, storeVars, sourceVars>>

\* ... and the SELECT, which may find that the row has moved on.
SelectLeaseRow(r) ==
    /\ At(r, "selecting")
    /\ \/ SelectRow(r) /\ Goto(r, "leased")
       \/ ~SelectsRow(r) /\ UNCHANGED leaseVars /\ Goto(r, "skipping")
    /\ UNCHANGED <<historyVars, memoryVars, storeVars, sourceVars>>

\* acquire returns None: another run owns the pipeline.
AcquireRefused(r) ==
    /\ At(r, "started")
    /\ lease.live
    /\ Goto(r, "skipping")
    /\ UNCHANGED <<leaseVars, historyVars, memoryVars, storeVars, sourceVars>>

FinishSkipped(r) ==
    /\ At(r, "skipping")
    /\ HistoryFinish(r, "skipped", "none")
    /\ Goto(r, "done")
    /\ UNCHANGED <<leaseVars, memoryVars, storeVars, sourceVars>>

Reconcile(r) ==
    /\ At(r, "leased")
    /\ ReconcileInterrupted(r)
    /\ Goto(r, "reading")
    /\ UNCHANGED <<leaseVars, memoryVars, storeVars, sourceVars>>

-----------------------------------------------------------------------------
(***************************************************************************)
(* LeaseHeartbeat: the synchronous verify before every boundary, and the   *)
(* background thread.                                                      *)
(***************************************************************************)

\* What verify protects at each of its call sites.
AfterVerify(point) ==
    CASE point = "verifyClaim"   -> IF Destination = "target" THEN "claim" ELSE "extract"
      [] point = "verifyWrite"   -> "write"
      [] point = "verifyCursor"  -> "cursor"
      [] point = "verifyBuild"   -> "build"
      [] point = "verifyPublish" -> "publish"
      [] point = "verifyFinish"  -> "finish"

Verify(r) ==
    /\ pc[r] \in Verifying
    /\ Renews(r)
    /\ Goto(r, AfterVerify(pc[r]))
    /\ UNCHANGED <<leaseVars, historyVars, memoryVars, storeVars, sourceVars>>

\* verify raises LeaseLostError: the flag was set, no row matched, or the
\* heartbeat call itself failed.
VerifyFails(r) ==
    /\ pc[r] \in Verifying
    /\ LoseOwnership(r)
    /\ \E code \in {"retryable", "final"} : Raise(r, code)
    /\ UNCHANGED <<historyVars, storeVars, sourceVars>>

\* _heartbeat_loop sees no match or an error, and stops.
BackgroundLoss(r) ==
    /\ pc[r] \in Alive
    /\ ~lost[r]
    /\ LoseOwnership(r)
    /\ UNCHANGED <<historyVars, memoryVars, storeVars, sourceVars, pc>>

-----------------------------------------------------------------------------
(***************************************************************************)
(* _run_endpoint.                                                          *)
(***************************************************************************)

ReadWatermark(r) ==
    /\ At(r, "reading")
    /\ boundary' = [boundary EXCEPT ![r] = watermark]
    /\ Goto(r, "verifyClaim")
    /\ UNCHANGED <<attempt, rows, high, seen, failure>>
    /\ UNCHANGED <<leaseVars, historyVars, storeVars, sourceVars>>

\* target_fence.claim; TargetFenceLostError is not a retryable failure.
ClaimTarget(r) ==
    /\ At(r, "claim")
    /\ \/ /\ ClaimFence(r, handle[r])
          /\ Goto(r, "extract")
          /\ UNCHANGED memoryVars
       \/ /\ ~FenceAccepts(r, handle[r])
          /\ Raise(r, "final")
          /\ UNCHANGED fence
    /\ UNCHANGED <<leaseVars, historyVars, dest, watermark, sourceVars>>

\* The records extract(since = cursor) yields: the boundary is inclusive.
Extracted(since) == {k \in Keys : cur[k] # 0 /\ (Filtered => cur[k] >= since)}

\* The largest cursor observed among them.
IsMaximumCursor(max, S) ==
    IF S = {} THEN max = 0
    ELSE /\ \E k \in S : cur[k] = max
         /\ \A k \in S : cur[k] <= max

\* One extraction reads the source at one moment (external: a query job or a
\* consistent listing); the rows are then written in bounded batches.
Extract(r) ==
    /\ At(r, "extract")
    /\ LET S == Extracted(boundary[r])
       IN  /\ rows' = [rows EXCEPT ![r] = [k \in Keys |-> IF k \in S THEN ver[k] ELSE 0]]
           /\ \E max \in 0 .. clock :
                /\ IsMaximumCursor(max, S)
                /\ high' = [high EXCEPT ![r] = max]
    /\ seen' = [seen EXCEPT ![r] = [k \in Keys |-> IF cur[k] # 0 THEN ver[k] ELSE 0]]
    /\ Goto(r, "verifyWrite")
    /\ UNCHANGED <<attempt, boundary, failure>>
    /\ UNCHANGED <<leaseVars, historyVars, storeVars, sourceVars>>

Pending(r) == {k \in Keys : rows[r][k] # 0}

\* Mutant of IsBatch: a batch may hold nothing while records are left.
IsBatchOrEmpty(S, r) == S \subseteq Pending(r) /\ Cardinality(S) <= BatchRows

\* The next batch: batch_rows records, or all that are left.
IsBatch(S, r) ==
    \/ S = Pending(r) /\ Cardinality(S) <= BatchRows
    \/ S \subseteq Pending(r) /\ Cardinality(S) = BatchRows

\* Mutant of MayPublish: the DML trusts the in-memory flag, not the lease row.
MayPublishUnfenced(r) ==
    IF Destination = "lease" THEN ~lost[r] ELSE FenceMatches(r, handle[r])

\* What the publication's transaction asks for: the live lease row (fenced_dml)
\* or the exact target claim (execute_statements).
MayPublish(r) ==
    IF Destination = "lease" THEN Owns(r) ELSE FenceMatches(r, handle[r])

\* SCD1 merge of the batch: last record wins, whatever the target held.
Merged(S, r) == [k \in Keys |-> IF k \in S THEN rows[r][k] ELSE dest[k]]

\* Mutant of AfterWrite: the cursor is committed after the first batch.
AfterFirstBatch(S, r) == IF high[r] # 0 THEN "verifyCursor" ELSE AfterIngest

\* After the last batch: commit the cursor if one was observed.
AfterWrite(S, r) ==
    IF Pending(r) \ S # {} THEN "verifyWrite"
    ELSE IF high[r] # 0 THEN "verifyCursor"
    ELSE AfterIngest

\* BigQuery returns before the fenced MERGE when there is nothing to write.
WriteBatch(r) ==
    /\ At(r, "write")
    /\ \E S \in SUBSET Keys :
         /\ IsBatch(S, r)
         /\ MayPublish(r) \/ (Destination = "lease" /\ S = {})
         /\ dest' = Merged(S, r)
         /\ rows' = [rows EXCEPT ![r] = [k \in Keys |-> IF k \in S THEN 0 ELSE rows[r][k]]]
         /\ Goto(r, AfterWrite(S, r))
    /\ UNCHANGED <<attempt, boundary, high, seen, failure>>
    /\ UNCHANGED <<leaseVars, historyVars, fence, watermark, sourceVars>>

\* The fence assertion aborts the publication.
WriteRejected(r) ==
    /\ At(r, "write")
    /\ ~MayPublish(r)
    /\ Destination = "target" \/ Pending(r) # {}
    /\ Raise(r, "final")
    /\ UNCHANGED <<leaseVars, historyVars, storeVars, sourceVars>>

\* A source that is read in full must not move the watermark backward.
CursorToCommit(r) ==
    IF Filtered \/ boundary[r] <= high[r] THEN high[r] ELSE boundary[r]

\* The BigQuery compare_and_set touches the lease row in its transaction;
\* the PostgreSQL one ignores the fence.
CursorFenceHolds(r) == StateStore = "bigquery" => Owns(r)

\* compare_and_set finds the value that _run_endpoint read before extracting.
CommitCursor(r) ==
    /\ At(r, "cursor")
    /\ CursorFenceHolds(r)
    /\ watermark = boundary[r]
    /\ watermark' = CursorToCommit(r)
    /\ Goto(r, AfterIngest)
    /\ ForgetExtraction(r)
    /\ UNCHANGED <<leaseVars, historyVars, attempt, seen, failure, fence, dest, sourceVars>>

\* WatermarkConflictError, or the aborted BigQuery script.
CursorRejected(r) ==
    /\ At(r, "cursor")
    /\ ~CursorFenceHolds(r) \/ watermark # boundary[r]
    /\ Raise(r, IF StateStore = "bigquery" THEN "final" ELSE "retryable")
    /\ UNCHANGED <<leaseVars, historyVars, storeVars, sourceVars>>

-----------------------------------------------------------------------------
(***************************************************************************)
(* The later stages of execute.  Building models and publishing metadata   *)
(* are control points here: their data is outside this module.             *)
(***************************************************************************)

CheckpointTransform(r) ==
    /\ At(r, "transform")
    /\ HistoryCheckpoint(r)
    /\ Goto(r, "verifyBuild")
    /\ UNCHANGED <<leaseVars, memoryVars, storeVars, sourceVars>>

Build(r) ==
    /\ At(r, "build")
    /\ Goto(r, AfterBuild)
    /\ UNCHANGED <<leaseVars, historyVars, memoryVars, storeVars, sourceVars>>

CheckpointMetadata(r) ==
    /\ At(r, "metadata")
    /\ HistoryCheckpoint(r)
    /\ Goto(r, "verifyPublish")
    /\ UNCHANGED <<leaseVars, memoryVars, storeVars, sourceVars>>

PublishMetadata(r) ==
    /\ At(r, "publish")
    /\ Goto(r, "verifyFinish")
    /\ UNCHANGED <<leaseVars, historyVars, memoryVars, storeVars, sourceVars>>

\* The ledger records success; if its answer is lost the except branch runs.
FinishSucceeded(r) ==
    /\ At(r, "finish")
    /\ HistoryFinish(r, "succeeded", "none")
    /\ \/ Goto(r, "exiting") /\ UNCHANGED failure
       \/ /\ Goto(r, "failing")
          /\ \E code \in {"retryable", "final"} : failure' = [failure EXCEPT ![r] = code]
    /\ UNCHANGED <<attempt, boundary, rows, high, seen>>
    /\ UNCHANGED <<leaseVars, storeVars, sourceVars>>

\* Any call of the try block raises.
Fail(r) ==
    /\ pc[r] \in Working
    /\ \E code \in {"retryable", "final"} : Raise(r, code)
    /\ UNCHANGED <<leaseVars, historyVars, storeVars, sourceVars>>

\* The ghost seen is kept for as long as the ledger says succeeded.
KeepSeenIfSucceeded(r) ==
    seen' = [seen EXCEPT ![r] = IF history'[r].status = "succeeded" THEN @ ELSE NoRows]

\* The except branch; a ledger that cannot be written is only logged.
FinishFailed(r) ==
    /\ At(r, "failing")
    /\ \/ HistoryFinish(r, "failed", failure[r])
       \/ UNCHANGED historyVars
    /\ Goto(r, IF handle[r] # 0 THEN "exiting" ELSE "done")
    /\ failure' = [failure EXCEPT ![r] = "none"]
    /\ KeepSeenIfSucceeded(r)
    /\ UNCHANGED <<attempt, boundary, rows, high>>
    /\ UNCHANGED <<leaseVars, storeVars, sourceVars>>

\* Mutant of Exit: the heartbeat thread is joined without being stopped.
ExitWithoutStop(r) ==
    /\ At(r, "exiting")
    /\ lost[r]
    /\ ReleaseRow(r) \/ ForgetHandle(r)
    /\ Goto(r, "done")
    /\ UNCHANGED <<historyVars, memoryVars, storeVars, sourceVars>>

\* LeaseHeartbeat.__exit__; a release that raises is only logged.
Exit(r) ==
    /\ At(r, "exiting")
    /\ ReleaseRow(r) \/ ForgetHandle(r)
    /\ Goto(r, "done")
    /\ UNCHANGED <<historyVars, memoryVars, storeVars, sourceVars>>

\* The process dies without running its handlers.
Crash(r) ==
    /\ pc[r] \in Alive
    /\ Goto(r, "crashed")
    /\ ForgetExtraction(r)
    /\ ForgetHandle(r)
    /\ failure' = [failure EXCEPT ![r] = "none"]
    /\ UNCHANGED <<historyVars, attempt, storeVars, sourceVars>>
    /\ KeepSeenIfSucceeded(r)

Expire ==
    /\ ExpireLease
    /\ UNCHANGED <<historyVars, memoryVars, storeVars, sourceVars, pc>>

-----------------------------------------------------------------------------
\* What a live process does next when nothing kills it.
Step(r) ==
    \/ AcquireLease(r) \/ UpdateLeaseRow(r) \/ SelectLeaseRow(r) \/ AcquireRefused(r)
    \/ FinishSkipped(r) \/ Reconcile(r) \/ Verify(r) \/ VerifyFails(r)
    \/ ReadWatermark(r) \/ ClaimTarget(r) \/ Extract(r)
    \/ WriteBatch(r) \/ WriteRejected(r) \/ CommitCursor(r) \/ CursorRejected(r)
    \/ CheckpointTransform(r) \/ Build(r) \/ CheckpointMetadata(r) \/ PublishMetadata(r)
    \/ FinishSucceeded(r) \/ Fail(r) \/ FinishFailed(r) \/ Exit(r)

Launch(r) == Start(r) \/ Retry(r)

Environment ==
    \/ \E k \in Keys : SourceChange(k) \/ SourceDelete(k)
    \/ SourceTick
    \/ Expire

Next ==
    \/ \E r \in Runs : Step(r) \/ Launch(r) \/ BackgroundLoss(r) \/ Crash(r)
    \/ Environment

Spec == Init /\ [][Next]_vars

\* A process that nothing kills keeps executing, and a lease that no process
\* renews runs out.
ExpireAbandoned == Expire /\ \A r \in Runs : lease.run = r => pc[r] \notin Alive

Fairness ==
    /\ \A r \in Runs : WF_vars(Step(r))
    /\ WF_vars(ExpireAbandoned)

FairSpec == Spec /\ Fairness

-----------------------------------------------------------------------------
\* The endpoint replicates the source (Replication): the destination never
\* goes back to an older version of a record, although a run that lost its
\* lease between verify and write still runs, and the watermark never passes a
\* change that the destination has not received.
Abstract == INSTANCE Replication

ReplicatesSource == Abstract!Spec

\* Every change stamped before the committed watermark is in the destination
\* (runtime.py: "commit each cursor after its successful write").
WatermarkBacked == Abstract!CompleteBelow(watermark)

\* A run recorded as succeeded published everything the source held when it
\* extracted (executor.py: "record one truthful terminal outcome").
SucceededCovers ==
    \A r \in Runs : history[r].status = "succeeded" =>
        \A k \in Keys : seen[r][k] <= dest[k]

\* A run that ended with its row at succeeded keeps it, whatever later runs
\* reconcile and whatever the launcher retries.
SuccessIsFinal ==
    [][\A r \in Runs : pc[r] \in {"done", "crashed"} /\ history[r].status = "succeeded"
         => history'[r].status = "succeeded"]_vars

-----------------------------------------------------------------------------
(***************************************************************************)
(* The inductive strengthening of WatermarkBacked and SucceededCovers.     *)
(***************************************************************************)

\* No cursor, version or boundary is ahead of where it came from.
NothingAhead ==
    /\ watermark <= clock
    /\ \A k \in Keys : dest[k] <= ver[k] /\ cur[k] <= clock
    /\ \A r \in Runs : boundary[r] <= watermark /\ high[r] <= clock
    /\ \A r \in Runs, k \in Keys : rows[r][k] <= ver[k] /\ seen[r][k] <= ver[k]

\* Extracted rows exist only between extraction and the last batch.
RowsOnlyWhileWriting ==
    \A r \in Runs : pc[r] \notin {"verifyWrite", "write"} => rows[r] = NoRows

\* What a run can still publish is at least as new as what the destination
\* holds: its fence was claimed before it extracted, and a later claimant
\* takes the fence away.
FreshRows ==
    \A r \in Runs, k \in Keys :
        MayPublish(r) /\ rows[r][k] # 0 => dest[k] <= rows[r][k]

\* A cursor is held only from extraction to its commit, it is committed only if
\* one was observed, and a filtering source never yields one below the boundary.
CursorObserved ==
    \A r \in Runs :
        /\ pc[r] \notin Extracting => high[r] = 0
        /\ pc[r] \in {"verifyCursor", "cursor"} => high[r] # 0
        /\ Filtered /\ high[r] # 0 => boundary[r] <= high[r]

\* Between extraction and cursor commit, every change below the cursor to be
\* committed is in the destination or about to be written.
ExtractionComplete ==
    \A r \in Runs : pc[r] \in Extracting =>
        \A k \in Keys : cur[k] # 0 /\ cur[k] < high[r] =>
            dest[k] = ver[k] \/ rows[r][k] = ver[k]

\* What a run saw is in the destination or about to be written.
SeenAccountedFor ==
    \A r \in Runs, k \in Keys : seen[r][k] <= dest[k] \/ seen[r][k] <= rows[r][k]

\* A run recorded as succeeded has left the try block.
SucceededIsOver ==
    \A r \in Runs : history[r].status = "succeeded" => pc[r] \notin Working

ExecutionInv ==
    /\ TypeOK
    /\ NothingAhead
    /\ RowsOnlyWhileWriting
    /\ FreshRows
    /\ CursorObserved
    /\ ExtractionComplete
    /\ SeenAccountedFor
    /\ SucceededIsOver
    /\ WatermarkBacked

-----------------------------------------------------------------------------
\* The pipeline never stays leased for ever.
LeaseIsFreed == []<>(~lease.live)

\* A process that started ends, unless it crashes.
ProcessEnds == \A r \in Runs : At(r, "started") ~> pc[r] \in {"done", "crashed"}

\* Runs and keys are interchangeable: the symmetry of the TLC instances.
Symmetric == Permutations(Runs) \union Permutations(Keys)
=============================================================================
