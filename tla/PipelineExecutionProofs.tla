----------------------- MODULE PipelineExecutionProofs -----------------------
(***************************************************************************)
(* Proofs about PipelineExecution, for any sets of runs and records, any   *)
(* batch size, both state stores, both destinations and both kinds of      *)
(* source: the executor implements the lease protocol, ExecutionInv is     *)
(* inductive, and the endpoint implements Replication.                     *)
(***************************************************************************)
EXTENDS PipelineExecution, TLAPS

-----------------------------------------------------------------------------
(***************************************************************************)
(* The lease by itself, for any set of runs and either acquisition.        *)
(***************************************************************************)

\* A row that was never acquired satisfies the invariant.
LEMMA LeaseInvInit == LeaseInit => LeaseInv
  BY LeaseAssumption, ParametersAssumption
  DEF LeaseInit, LeaseInv, LeaseTypeOK, HandlesNotAhead, CurrentHandleIsNamed, UniqueTokens

\* Every operation of LeaseStore and LeaseHeartbeat preserves the invariant.
LEMMA LeaseInvStep == LeaseInv /\ [LeaseNext]_leaseVars => LeaseInv'
<1> SUFFICES ASSUME LeaseInv, [LeaseNext]_leaseVars PROVE LeaseInv'
  OBVIOUS
<1> USE LeaseAssumption, ParametersAssumption
<1> USE DEF LeaseInv, LeaseTypeOK, HandlesNotAhead, CurrentHandleIsNamed, UniqueTokens
<1>1. ASSUME NEW r \in Runs, AcquireRow(r) PROVE LeaseInv'
  BY <1>1 DEF AcquireRow, ClaimRow
<1>2. ASSUME NEW r \in Runs, UpdateRow(r) PROVE LeaseInv'
  BY <1>2 DEF UpdateRow, ClaimRow
<1>3. ASSUME NEW r \in Runs, SelectRow(r) PROVE LeaseInv'
  BY <1>3 DEF SelectRow, SelectsRow
<1>4. ASSUME NEW r \in Runs, LoseOwnership(r) PROVE LeaseInv'
  BY <1>4 DEF LoseOwnership
<1>5. ASSUME NEW r \in Runs, ReleaseRow(r) PROVE LeaseInv'
  <2>1. CASE lease.run = r /\ lease.token = handle[r]
    <3>1. lease' = [run |-> NoRun, token |-> lease.token, live |-> FALSE]
      BY <1>5, <2>1 DEF ReleaseRow
    <3>2. handle' = [handle EXCEPT ![r] = 0] /\ lost' = [lost EXCEPT ![r] = FALSE]
      BY <1>5 DEF ReleaseRow
    <3>3. QED
      BY <3>1, <3>2
  <2>2. CASE ~(lease.run = r /\ lease.token = handle[r])
    BY <1>5, <2>2 DEF ReleaseRow
  <2>3. QED
    BY <2>1, <2>2
<1>6. ASSUME NEW r \in Runs, ForgetHandle(r) PROVE LeaseInv'
  BY <1>6 DEF ForgetHandle
<1>7. CASE ExpireLease
  BY <1>7 DEF ExpireLease
<1>8. CASE UNCHANGED leaseVars
  BY <1>8 DEF leaseVars
<1>9. QED
  BY <1>1, <1>2, <1>3, <1>4, <1>5, <1>6, <1>7, <1>8 DEF LeaseNext

\* Fencing tokens are unique for every number of runs: no two runs ever hold
\* the same one, with the atomic and with the two-statement acquisition.
THEOREM LeaseSafety == LeaseSpec => []LeaseInv
  BY LeaseInvInit, LeaseInvStep, PTL DEF LeaseSpec

\* No two runs ever hold the same fencing token.
COROLLARY TokensAreUnique == LeaseSpec => []UniqueTokens
  BY LeaseSafety, PTL DEF LeaseInv

-----------------------------------------------------------------------------
(***************************************************************************)
(* The lease protocol.                                                     *)
(***************************************************************************)

\* Whatever a process does to the lease is an operation of PipelineLease.
LEMMA StepRefinesLease ==
    ASSUME NEW r \in Runs, Step(r) \/ Launch(r) \/ BackgroundLoss(r) \/ Crash(r)
    PROVE  LeaseNext \/ UNCHANGED leaseVars
  BY DEF Step, Launch, BackgroundLoss, Crash, LeaseNext, leaseVars,
         AcquireLease, UpdateLeaseRow, SelectLeaseRow, AcquireRefused, FinishSkipped,
         Reconcile, Verify, VerifyFails, ReadWatermark, ClaimTarget, Extract, WriteBatch,
         WriteRejected, CommitCursor, CursorRejected, CheckpointTransform, Build,
         CheckpointMetadata, PublishMetadata, FinishSucceeded, Fail, FinishFailed, Exit,
         Start, Retry

\* Every step of the system is a step of the lease or leaves it alone.
LEMMA NextRefinesLease == [Next]_vars => [LeaseNext]_leaseVars
<1>1. Environment => LeaseNext \/ UNCHANGED leaseVars
  BY DEF Environment, LeaseNext, SourceChange, SourceDelete, SourceTick, Expire,
         RunsUnchanged, leaseVars
<1>2. UNCHANGED vars => UNCHANGED leaseVars
  BY DEF vars, leaseVars
<1>3. QED
  BY <1>1, <1>2, StepRefinesLease DEF Next

\* Two runs of a pipeline never hold the same fencing token while they execute.
THEOREM ExecutionLeaseSafety == Spec => []LeaseInv
<1>1. Init => LeaseInv
  BY LeaseInvInit DEF Init
<1>2. LeaseInv /\ [Next]_vars => LeaseInv'
  BY LeaseInvStep, NextRefinesLease
<1>3. QED
  BY <1>1, <1>2, PTL DEF Spec

-----------------------------------------------------------------------------
(***************************************************************************)
(* Types.                                                                  *)
(***************************************************************************)

\* Every operation of the run ledger keeps its rows well formed.
LEMMA HistoryTypes ==
    ASSUME HistoryTypeOK, NEW r \in Runs,
           \/ HistoryStart(r) \/ HistoryRestart(r) \/ HistoryCheckpoint(r)
           \/ ReconcileInterrupted(r)
           \/ \E status \in RunStatus, code \in FailureCode : HistoryFinish(r, status, code)
           \/ UNCHANGED historyVars
    PROVE  HistoryTypeOK'
  BY DEF HistoryTypeOK, HistoryStart, HistoryRestart, HistoryCheckpoint, HistoryFinish,
         ReconcileInterrupted, Interruptible, InsertRunning, SetStatus, RunStatus,
         FailureCode, historyVars

\* The points a process may move to are control points.
LEMMA Points ==
    /\ AfterIngest \in {"transform", "metadata", "verifyFinish"}
    /\ AfterBuild \in {"metadata", "verifyFinish"}
    /\ \A point \in Verifying :
         AfterVerify(point) \in {"claim", "extract", "write", "cursor", "build", "publish", "finish"}
  BY DEF AfterIngest, AfterBuild, AfterVerify, Verifying

\* Initial states are well typed.
LEMMA TypesInit == Init => TypeOK
  BY LeaseInvInit
  DEF Init, TypeOK, LeaseInv, HistoryInit, HistoryTypeOK, NoRow, RunStatus, FailureCode,
      FenceInit, FenceTypeOK, DataTypeOK, ProcessTypeOK, NoRows, Versions, ControlPoint, Alive,
      Working

\* The steps of a process keep its own variables, the ledger, the fence, the
\* destination and the watermark well typed.
LEMMA StepTypes ==
    ASSUME TypeOK, NEW r \in Runs, Step(r) \/ Launch(r) \/ BackgroundLoss(r) \/ Crash(r)
    PROVE  HistoryTypeOK' /\ FenceTypeOK' /\ DataTypeOK' /\ ProcessTypeOK'
<1> USE DEF TypeOK, HistoryTypeOK, FenceTypeOK, DataTypeOK, ProcessTypeOK, Goto, At
<1> USE DEF memoryVars, storeVars, sourceVars, ControlPoint, Alive, Working, Verifying, Versions
<1> DEFINE Typed == HistoryTypeOK' /\ FenceTypeOK' /\ DataTypeOK' /\ ProcessTypeOK'
<1>0. NoRows \in Versions
  BY DEF NoRows
<1>1. CASE Start(r)
  <2>1. HistoryTypeOK'
    BY <1>1, HistoryTypes DEF Start
  <2>2. QED
    BY <1>1, <2>1 DEF Start
<1>2. CASE Retry(r)
  <2>1. HistoryTypeOK'
    BY <1>2, HistoryTypes DEF Retry
  <2>2. FenceTypeOK' /\ DataTypeOK'
    BY <1>2 DEF Retry
  <2>3. ProcessTypeOK'
    <3>1. seen' \in [Runs -> Versions]
      BY <1>0, <1>2 DEF Retry
    <3>2. attempt' \in [Runs -> Nat]
      BY <1>2 DEF Retry
    <3>3. QED
      BY <1>2, <3>1, <3>2 DEF Retry
  <2>4. QED
    BY <2>1, <2>2, <2>3
<1>3. CASE AcquireLease(r) \/ UpdateLeaseRow(r) \/ SelectLeaseRow(r) \/ AcquireRefused(r)
  BY <1>3 DEF AcquireLease, UpdateLeaseRow, SelectLeaseRow, AcquireRefused, historyVars
<1>4. CASE FinishSkipped(r) \/ Reconcile(r)
  <2>1. HistoryTypeOK'
    BY <1>4, HistoryTypes DEF FinishSkipped, Reconcile, RunStatus, FailureCode
  <2>2. QED
    BY <1>4, <2>1 DEF FinishSkipped, Reconcile
<1>5. CASE Verify(r)
  <2>1. AfterVerify(pc[r]) \in ControlPoint
    BY <1>5, Points DEF Verify
  <2>2. QED
    BY <1>5, <2>1 DEF Verify, historyVars
<1>6. ASSUME NEW code \in {"retryable", "final"}, Raise(r, code),
             UNCHANGED <<historyVars, storeVars, sourceVars>>
      PROVE  Typed
  BY <1>0, <1>6 DEF Raise, ForgetExtraction, historyVars
<1>7. CASE VerifyFails(r) \/ WriteRejected(r) \/ CursorRejected(r) \/ Fail(r)
  BY <1>6, <1>7 DEF VerifyFails, WriteRejected, CursorRejected, Fail
<1>8. CASE BackgroundLoss(r)
  BY <1>8 DEF BackgroundLoss, historyVars
<1>9. CASE ReadWatermark(r)
  BY <1>9 DEF ReadWatermark, historyVars
<1>10. CASE ClaimTarget(r)
  <2>1. handle[r] \in Nat
    BY LeaseAssumption DEF LeaseTypeOK
  <2>2. CASE ClaimFence(r, handle[r]) /\ Goto(r, "extract") /\ UNCHANGED memoryVars
    BY <1>10, <2>1, <2>2 DEF ClaimTarget, ClaimFence, historyVars
  <2>3. CASE Raise(r, "final") /\ UNCHANGED fence
    BY <1>6, <1>10, <2>3 DEF ClaimTarget
  <2>4. QED
    BY <1>10, <2>2, <2>3 DEF ClaimTarget
<1>11. CASE Extract(r)
  <2>1. PICK max \in 0 .. clock : high' = [high EXCEPT ![r] = max]
    BY <1>11 DEF Extract
  <2>2. /\ [k \in Keys |-> IF k \in Extracted(boundary[r]) THEN ver[k] ELSE 0] \in Versions
        /\ [k \in Keys |-> IF cur[k] # 0 THEN ver[k] ELSE 0] \in Versions
    OBVIOUS
  <2>3. QED
    BY <1>11, <2>1, <2>2 DEF Extract, historyVars
<1>12. CASE WriteBatch(r)
  <2>1. PICK S \in SUBSET Keys :
          /\ dest' = Merged(S, r)
          /\ rows' = [rows EXCEPT ![r] = [k \in Keys |-> IF k \in S THEN 0 ELSE rows[r][k]]]
          /\ Goto(r, AfterWrite(S, r))
    BY <1>12 DEF WriteBatch
  <2>2. Merged(S, r) \in Versions /\ AfterWrite(S, r) \in ControlPoint
    BY Points DEF Merged, AfterWrite
  <2>3. [k \in Keys |-> IF k \in S THEN 0 ELSE rows[r][k]] \in Versions
    OBVIOUS
  <2>4. QED
    BY <1>12, <2>1, <2>2, <2>3 DEF WriteBatch, historyVars
<1>13. CASE CommitCursor(r)
  BY <1>0, <1>13, Points DEF CommitCursor, CursorToCommit, ForgetExtraction, historyVars
<1>14. CASE CheckpointTransform(r) \/ CheckpointMetadata(r)
  <2>1. HistoryTypeOK'
    BY <1>14, HistoryTypes DEF CheckpointTransform, CheckpointMetadata
  <2>2. QED
    BY <1>14, <2>1 DEF CheckpointTransform, CheckpointMetadata
<1>15. CASE Build(r) \/ PublishMetadata(r)
  BY <1>15, Points DEF Build, PublishMetadata, historyVars
<1>16. CASE FinishSucceeded(r)
  <2>1. HistoryTypeOK'
    BY <1>16, HistoryTypes DEF FinishSucceeded, RunStatus, FailureCode
  <2>2. QED
    BY <1>16, <2>1 DEF FinishSucceeded
<1>17. CASE FinishFailed(r)
  <2>1. HistoryTypeOK'
    BY <1>17, HistoryTypes DEF FinishFailed, RunStatus, FailureCode
  <2>2. QED
    BY <1>0, <1>17, <2>1 DEF FinishFailed, KeepSeenIfSucceeded
<1>18. CASE Exit(r)
  BY <1>18 DEF Exit, historyVars
<1>19. CASE Crash(r)
  BY <1>0, <1>19 DEF Crash, ForgetExtraction, KeepSeenIfSucceeded, historyVars
<1>20. QED
  BY <1>1, <1>2, <1>3, <1>4, <1>5, <1>7, <1>8, <1>9, <1>10, <1>11, <1>12, <1>13, <1>14,
     <1>15, <1>16, <1>17, <1>18, <1>19 DEF Step, Launch

\* Every step preserves the type invariant.
LEMMA TypesStep == LeaseInv /\ TypeOK /\ [Next]_vars => TypeOK'
<1> SUFFICES ASSUME LeaseInv, TypeOK, [Next]_vars PROVE TypeOK'
  OBVIOUS
<1>1. LeaseTypeOK'
  BY LeaseInvStep, NextRefinesLease DEF LeaseInv
<1>2. CASE Environment
  <2>1. HistoryTypeOK' /\ FenceTypeOK' /\ ProcessTypeOK'
    BY <1>2 DEF Environment, SourceChange, SourceDelete, SourceTick, Expire, RunsUnchanged,
       TypeOK, HistoryTypeOK, FenceTypeOK, ProcessTypeOK, historyVars, storeVars, memoryVars
  <2>2. DataTypeOK'
    <3>1. ASSUME NEW k \in Keys, SourceChange(k) PROVE DataTypeOK'
      BY <3>1 DEF SourceChange, RunsUnchanged, storeVars, TypeOK, DataTypeOK, Versions
    <3>2. ASSUME NEW k \in Keys, SourceDelete(k) PROVE DataTypeOK'
      BY <3>2 DEF SourceDelete, RunsUnchanged, storeVars, TypeOK, DataTypeOK, Versions
    <3>3. CASE SourceTick \/ Expire
      BY <3>3 DEF SourceTick, Expire, RunsUnchanged, storeVars, sourceVars, TypeOK, DataTypeOK
    <3>4. QED
      BY <1>2, <3>1, <3>2, <3>3 DEF Environment
  <2>3. QED
    BY <1>1, <2>1, <2>2 DEF TypeOK
<1>3. CASE UNCHANGED vars
  BY <1>1, <1>3 DEF vars, TypeOK, HistoryTypeOK, FenceTypeOK, DataTypeOK, ProcessTypeOK
<1>4. QED
  BY <1>1, <1>2, <1>3, StepTypes DEF Next, TypeOK

\* Every reachable state of every instance is well typed.
THEOREM TypeCorrect == Spec => []TypeOK
  BY TypesInit, TypesStep, ExecutionLeaseSafety, PTL DEF Spec

-----------------------------------------------------------------------------
(***************************************************************************)
(* The inductive invariant.                                                *)
(***************************************************************************)

\* The process of q keeps what it extracted and stays in the same phase.
Kept(q) ==
    /\ boundary'[q] = boundary[q] /\ rows'[q] = rows[q]
    /\ high'[q] = high[q] /\ seen'[q] = seen[q]
    /\ \/ pc[q] \notin Extracting /\ pc'[q] \notin Extracting
       \/ pc[q] \in {"verifyWrite", "write"} /\ pc'[q] \in {"verifyWrite", "write"}
       \/ pc[q] \in {"verifyCursor", "cursor"} /\ pc'[q] \in {"verifyCursor", "cursor"}

\* The process of q is outside an extraction and holds nothing of one.
Forgot(q) ==
    /\ pc'[q] \notin Extracting
    /\ rows'[q] = NoRows /\ high'[q] = 0
    /\ boundary'[q] \in {0, boundary[q], watermark}
    /\ \/ seen'[q] = NoRows
       \/ seen'[q] = seen[q] /\ rows[q] = NoRows

\* No process that still holds rows gains the right to publish.
NoNewPublisher == \A q \in Runs : MayPublish(q)' => MayPublish(q) \/ rows'[q] = NoRows

\* A step that leaves the source, the destination and the watermark alone.
LEMMA QuietStep ==
    ASSUME ExecutionInv, TypeOK', SucceededIsOver', NoNewPublisher,
           UNCHANGED <<ver, cur, clock, dest, watermark>>,
           \A q \in Runs : Kept(q) \/ Forgot(q)
    PROVE  ExecutionInv'
<1> USE DEF ExecutionInv, Kept, Forgot, Extracting
<1> USE DEF TypeOK, DataTypeOK, ProcessTypeOK, Versions, NoRows
<1>1. NothingAhead'
  <2>1. /\ watermark' <= clock'
        /\ \A k \in Keys : dest'[k] <= ver'[k] /\ cur'[k] <= clock'
    BY DEF NothingAhead
  <2>2. ASSUME NEW q \in Runs PROVE boundary'[q] <= watermark' /\ high'[q] <= clock'
    <3>1. boundary'[q] \in {0, boundary[q], watermark} /\ high'[q] \in {0, high[q]}
      OBVIOUS
    <3>2. boundary[q] <= watermark /\ high[q] <= clock /\ watermark \in Nat /\ clock \in Nat
      BY DEF NothingAhead
    <3>3. watermark' = watermark /\ clock' = clock
      OBVIOUS
    <3>4. QED
      BY <3>1, <3>2, <3>3
  <2>3. ASSUME NEW q \in Runs, NEW k \in Keys
        PROVE  rows'[q][k] <= ver'[k] /\ seen'[q][k] <= ver'[k]
    <3>1. rows'[q] = rows[q] \/ rows'[q] = NoRows
      OBVIOUS
    <3>2. seen'[q] = seen[q] \/ seen'[q] = NoRows
      OBVIOUS
    <3>3. /\ rows[q][k] <= ver[k] /\ seen[q][k] <= ver[k]
          /\ NoRows[k] = 0 /\ ver[k] \in Nat /\ ver' = ver
      BY DEF NothingAhead
    <3>4. QED
      BY <3>1, <3>2, <3>3
  <2>4. QED
    BY <2>1, <2>2, <2>3 DEF NothingAhead
<1>2. RowsOnlyWhileWriting'
  BY DEF RowsOnlyWhileWriting
<1>3. FreshRows'
  <2> SUFFICES ASSUME NEW q \in Runs, NEW k \in Keys, MayPublish(q)', rows'[q][k] # 0
               PROVE  dest[k] <= rows'[q][k]
    BY DEF FreshRows
  <2>1. rows'[q] # NoRows /\ MayPublish(q)
    BY DEF NoNewPublisher
  <2>2. rows'[q] = rows[q]
    BY <2>1
  <2>3. QED
    BY <2>1, <2>2 DEF FreshRows
<1>4. CursorObserved'
  BY DEF CursorObserved
<1>5. ExtractionComplete'
  <2> SUFFICES ASSUME NEW q \in Runs, pc'[q] \in Extracting, NEW k \in Keys,
                      cur[k] # 0, cur[k] < high'[q]
               PROVE  dest[k] = ver[k] \/ rows'[q][k] = ver[k]
    BY DEF ExtractionComplete
  <2>1. pc[q] \in Extracting /\ high'[q] = high[q] /\ rows'[q] = rows[q]
    OBVIOUS
  <2>2. QED
    BY <2>1 DEF ExtractionComplete
<1>6. SeenAccountedFor'
  <2> SUFFICES ASSUME NEW q \in Runs, NEW k \in Keys
               PROVE  seen'[q][k] <= dest[k] \/ seen'[q][k] <= rows'[q][k]
    BY DEF SeenAccountedFor
  <2>1. \/ seen'[q] = NoRows
        \/ seen'[q] = seen[q] /\ rows'[q] = rows[q]
    OBVIOUS
  <2>2. seen[q][k] <= dest[k] \/ seen[q][k] <= rows[q][k]
    BY DEF SeenAccountedFor
  <2>3. NoRows[k] = 0 /\ dest[k] \in Nat
    OBVIOUS
  <2>4. QED
    BY <2>1, <2>2, <2>3
<1>7. WatermarkBacked'
  BY DEF WatermarkBacked, Abstract!CompleteBelow
<1>8. QED
  BY <1>1, <1>2, <1>3, <1>4, <1>5, <1>6, <1>7

\* Only one run at a time satisfies the condition of a publication.
LEMMA OnePublisher ==
    ASSUME NEW q \in Runs, NEW r \in Runs, MayPublish(q), MayPublish(r)
    PROVE  q = r
  BY DEF MayPublish, Owns, FenceMatches

\* Success is recorded only by the last step of the try block, and only a row
\* that does not say succeeded is put back to running.
LEMMA SucceededIsOverStep ==
    ASSUME TypeOK, SucceededIsOver, [Next]_vars
    PROVE  SucceededIsOver'
<1> USE DEF SucceededIsOver, TypeOK, HistoryTypeOK, ProcessTypeOK, Goto, At, Working, Verifying
<1>1. ASSUME NEW r \in Runs, Start(r) \/ Retry(r) PROVE SucceededIsOver'
  BY <1>1 DEF Start, Retry, HistoryStart, HistoryRestart, InsertRunning, SetStatus, historyVars
<1>2. ASSUME NEW r \in Runs, pc[r] \in Working, UNCHANGED history,
             \E point : Goto(r, point)
      PROVE  SucceededIsOver'
  BY <1>2
<1>3. ASSUME NEW r \in Runs, AcquireLease(r) \/ UpdateLeaseRow(r) \/ SelectLeaseRow(r)
                               \/ AcquireRefused(r)
      PROVE  SucceededIsOver'
  BY <1>2, <1>3 DEF AcquireLease, UpdateLeaseRow, SelectLeaseRow, AcquireRefused, historyVars
<1>4. ASSUME NEW r \in Runs, FinishSkipped(r) PROVE SucceededIsOver'
  BY <1>4 DEF FinishSkipped, HistoryFinish, SetStatus
<1>5. ASSUME NEW r \in Runs, Reconcile(r) PROVE SucceededIsOver'
  BY <1>5 DEF Reconcile, ReconcileInterrupted
<1>6. ASSUME NEW r \in Runs, Verify(r) PROVE SucceededIsOver'
  BY <1>2, <1>6 DEF Verify, historyVars
<1>7. ASSUME NEW r \in Runs, VerifyFails(r) \/ WriteRejected(r) \/ CursorRejected(r) \/ Fail(r)
      PROVE  SucceededIsOver'
  BY <1>2, <1>7 DEF VerifyFails, WriteRejected, CursorRejected, Fail, Raise, historyVars
<1>8. ASSUME NEW r \in Runs, ReadWatermark(r) \/ ClaimTarget(r) \/ Extract(r)
      PROVE  SucceededIsOver'
  BY <1>2, <1>8 DEF ReadWatermark, ClaimTarget, Raise, Extract, historyVars
<1>9. ASSUME NEW r \in Runs, WriteBatch(r) \/ CommitCursor(r) PROVE SucceededIsOver'
  BY <1>2, <1>9 DEF WriteBatch, CommitCursor, historyVars
<1>10. ASSUME NEW r \in Runs, CheckpointTransform(r) \/ CheckpointMetadata(r)
       PROVE  SucceededIsOver'
  BY <1>10 DEF CheckpointTransform, CheckpointMetadata, HistoryCheckpoint, SetStatus
<1>11. ASSUME NEW r \in Runs, Build(r) \/ PublishMetadata(r) PROVE SucceededIsOver'
  BY <1>2, <1>11 DEF Build, PublishMetadata, historyVars
<1>12. ASSUME NEW r \in Runs, FinishSucceeded(r) PROVE SucceededIsOver'
  BY <1>12 DEF FinishSucceeded, HistoryFinish, SetStatus
<1>13. ASSUME NEW r \in Runs, FinishFailed(r) PROVE SucceededIsOver'
  BY <1>13 DEF FinishFailed, HistoryFinish, SetStatus, historyVars
<1>14. ASSUME NEW r \in Runs, Exit(r) \/ Crash(r) \/ BackgroundLoss(r) PROVE SucceededIsOver'
  BY <1>14 DEF Exit, Crash, BackgroundLoss, historyVars
<1>15. CASE Environment \/ UNCHANGED vars
  BY <1>15 DEF Environment, SourceChange, SourceDelete, SourceTick, Expire, RunsUnchanged,
     historyVars, vars
<1>16. QED
  BY <1>1, <1>3, <1>4, <1>5, <1>6, <1>7, <1>8, <1>9, <1>10, <1>11, <1>12, <1>13, <1>14, <1>15
  DEF Next, Step, Launch

\* Ownership and claims are gained only by processes that have not extracted.
LEMMA LeaseStepsAddNoPublisher ==
    ASSUME TypeOK, RowsOnlyWhileWriting, UNCHANGED <<fence, rows>>, NEW r \in Runs,
           \/ AcquireRow(r) /\ At(r, "started")
           \/ UpdateRow(r) /\ At(r, "started")
           \/ SelectRow(r) /\ At(r, "selecting")
           \/ (ReleaseRow(r) \/ ForgetHandle(r)) /\ At(r, "exiting")
           \/ LoseOwnership(r)
           \/ ExpireLease
           \/ UNCHANGED leaseVars
    PROVE  NoNewPublisher
<1> SUFFICES ASSUME NEW q \in Runs, MayPublish(q)' PROVE MayPublish(q) \/ rows[q] = NoRows
  BY DEF NoNewPublisher
<1> USE DEF MayPublish, Owns, FenceMatches, TypeOK, LeaseTypeOK, RowsOnlyWhileWriting, At
<1>1. CASE UNCHANGED leaseVars \/ LoseOwnership(r)
  BY <1>1 DEF leaseVars, LoseOwnership
<1>2. CASE ExpireLease
  BY <1>2 DEF ExpireLease
<1>3. CASE AcquireRow(r) /\ At(r, "started")
  BY <1>3 DEF AcquireRow, ClaimRow
<1>4. CASE UpdateRow(r) /\ At(r, "started")
  BY <1>4 DEF UpdateRow, ClaimRow
<1>5. CASE SelectRow(r) /\ At(r, "selecting")
  BY <1>5 DEF SelectRow
<1>6. CASE ReleaseRow(r) /\ At(r, "exiting")
  <2>1. CASE q = r
    BY <1>6, <2>1
  <2>2. CASE q # r
    <3>1. handle'[q] = handle[q] /\ (lease' = lease \/ lease'.run = NoRun)
      BY <1>6, <2>2 DEF ReleaseRow
    <3>2. QED
      BY <3>1, ParametersAssumption
  <2>3. QED
    BY <2>1, <2>2
<1>7. CASE ForgetHandle(r) /\ At(r, "exiting")
  BY <1>7 DEF ForgetHandle
<1>8. QED
  BY <1>1, <1>2, <1>3, <1>4, <1>5, <1>6, <1>7

\* The steps that only move a process, the lease or the ledger.
LEMMA ControlSteps ==
    ASSUME ExecutionInv, TypeOK', SucceededIsOver', NEW r \in Runs,
           \/ Start(r) \/ AcquireLease(r) \/ UpdateLeaseRow(r) \/ SelectLeaseRow(r)
           \/ AcquireRefused(r) \/ FinishSkipped(r) \/ Reconcile(r) \/ Verify(r)
           \/ BackgroundLoss(r) \/ CheckpointTransform(r) \/ Build(r)
           \/ CheckpointMetadata(r) \/ PublishMetadata(r) \/ FinishSucceeded(r)
           \/ Exit(r)
    PROVE  ExecutionInv'
<1>1. UNCHANGED <<ver, cur, clock, dest, watermark, fence, boundary, rows, high, seen>>
  BY DEF Start, AcquireLease, UpdateLeaseRow, SelectLeaseRow, AcquireRefused, FinishSkipped,
         Reconcile, Verify, BackgroundLoss, CheckpointTransform, Build, CheckpointMetadata,
         PublishMetadata, FinishSucceeded, Exit, sourceVars, storeVars, memoryVars
<1>2. NoNewPublisher
  BY <1>1, LeaseStepsAddNoPublisher
  DEF ExecutionInv, Start, AcquireLease, UpdateLeaseRow, SelectLeaseRow, AcquireRefused,
      FinishSkipped, Reconcile, Verify, BackgroundLoss, CheckpointTransform, Build,
      CheckpointMetadata, PublishMetadata, FinishSucceeded, Exit
<1>3. ASSUME NEW q \in Runs PROVE Kept(q)
  <2> USE DEF Extracting, Goto, At, ExecutionInv, TypeOK, ProcessTypeOK
  <2>1. CASE Verify(r)
    BY <1>1, <2>1 DEF Kept, Verify, AfterVerify, Verifying
  <2>2. CASE ~Verify(r)
    BY <1>1, <2>2, Points
    DEF Kept, Start, AcquireLease, UpdateLeaseRow, SelectLeaseRow, AcquireRefused, FinishSkipped,
        Reconcile, BackgroundLoss, CheckpointTransform, Build, CheckpointMetadata,
        PublishMetadata, FinishSucceeded, Exit
  <2>3. QED
    BY <2>1, <2>2
<1>4. QED
  BY <1>1, <1>2, <1>3, QuietStep

\* The steps that drop what a process extracted.
LEMMA ForgettingSteps ==
    ASSUME ExecutionInv, TypeOK', SucceededIsOver', NEW r \in Runs,
           \/ Retry(r) \/ VerifyFails(r) \/ ReadWatermark(r) \/ WriteRejected(r)
           \/ CursorRejected(r) \/ Fail(r) \/ FinishFailed(r) \/ Crash(r)
           \/ ClaimTarget(r)
    PROVE  ExecutionInv'
<1> USE DEF ExecutionInv, TypeOK, ProcessTypeOK, Goto, At, Extracting
<1>1. UNCHANGED <<ver, cur, clock, dest, watermark>>
  BY DEF Retry, VerifyFails, ReadWatermark, WriteRejected, CursorRejected, Fail, FinishFailed,
         Crash, ClaimTarget, sourceVars, storeVars
<1>2. ASSUME NEW q \in Runs, q # r PROVE Kept(q)
  BY <1>2
  DEF Kept, Retry, VerifyFails, ReadWatermark, WriteRejected, CursorRejected, Fail, FinishFailed,
      Crash, ClaimTarget, Raise, ForgetExtraction, KeepSeenIfSucceeded, memoryVars
<1>3. Forgot(r)
  <2> USE DEF Forgot, RowsOnlyWhileWriting, CursorObserved
  <2>1. ASSUME NEW code, Raise(r, code) PROVE Forgot(r)
    BY <2>1 DEF Raise, ForgetExtraction
  <2>2. CASE VerifyFails(r) \/ WriteRejected(r) \/ CursorRejected(r) \/ Fail(r)
    BY <2>1, <2>2 DEF VerifyFails, WriteRejected, CursorRejected, Fail
  <2>3. CASE Retry(r) \/ ReadWatermark(r)
    BY <2>3 DEF Retry, ReadWatermark
  <2>4. CASE FinishFailed(r)
    BY <2>4 DEF FinishFailed, KeepSeenIfSucceeded
  <2>5. CASE Crash(r)
    <3>1. history[r].status = "succeeded" => rows[r] = NoRows
      BY DEF SucceededIsOver, Working, Verifying
    <3>2. QED
      BY <2>5, <3>1 DEF Crash, ForgetExtraction, KeepSeenIfSucceeded, historyVars
  <2>6. CASE ClaimTarget(r)
    BY <2>1, <2>6 DEF ClaimTarget, memoryVars
  <2>7. QED
    BY <2>2, <2>3, <2>4, <2>5, <2>6
<1>4. NoNewPublisher
  <2> SUFFICES ASSUME NEW q \in Runs, MayPublish(q)', q # r PROVE MayPublish(q)
    BY <1>3 DEF NoNewPublisher, Forgot
  <2> USE DEF MayPublish, Owns, FenceMatches, LeaseTypeOK
  <2>1. CASE ClaimTarget(r)
    BY <2>1 DEF ClaimTarget, ClaimFence, leaseVars
  <2>2. CASE Crash(r)
    BY <2>2 DEF Crash, ForgetHandle, storeVars
  <2>3. CASE VerifyFails(r)
    BY <2>3 DEF VerifyFails, LoseOwnership, storeVars
  <2>4. CASE ~ClaimTarget(r) /\ ~Crash(r) /\ ~VerifyFails(r)
    BY <2>4 DEF Retry, ReadWatermark, WriteRejected, CursorRejected, Fail, FinishFailed,
                leaseVars, storeVars
  <2>5. QED
    BY <2>1, <2>2, <2>3, <2>4
<1>5. QED
  BY <1>1, <1>2, <1>3, <1>4, QuietStep

\* Extraction: everything below the observed maximum is either extracted or,
\* for a filtering source, below the boundary and already in the destination.
LEMMA ExtractStep ==
    ASSUME ExecutionInv, TypeOK', SucceededIsOver', NEW r \in Runs, Extract(r)
    PROVE  ExecutionInv'
<1> USE DEF ExecutionInv, TypeOK, DataTypeOK, ProcessTypeOK, Versions, Extracting
<1>1. /\ UNCHANGED <<lease, handle, lost, fence, ver, cur, clock, dest, watermark, boundary>>
      /\ pc' = [pc EXCEPT ![r] = "verifyWrite"]
      /\ pc[r] = "extract"
  BY DEF Extract, leaseVars, storeVars, sourceVars, Goto, At
<1>2. PICK max \in 0 .. clock :
        IsMaximumCursor(max, Extracted(boundary[r])) /\ high' = [high EXCEPT ![r] = max]
  BY DEF Extract
<1>3. /\ \A k \in Keys : rows'[r][k] = IF k \in Extracted(boundary[r]) THEN ver[k] ELSE 0
      /\ \A k \in Keys : seen'[r][k] = IF cur[k] # 0 THEN ver[k] ELSE 0
      /\ \A q \in Runs \ {r} : rows'[q] = rows[q] /\ seen'[q] = seen[q] /\ high'[q] = high[q]
  BY <1>2 DEF Extract
<1>4. \A q \in Runs \ {r} : pc'[q] = pc[q]
  BY <1>1
<1>5. pc'[r] = "verifyWrite" /\ high'[r] = max
  BY <1>1, <1>2
<1>6. \A k \in Keys : cur[k] # 0 /\ k \notin Extracted(boundary[r]) => dest[k] = ver[k]
  <2> SUFFICES ASSUME NEW k \in Keys, cur[k] # 0, Filtered, cur[k] < boundary[r]
               PROVE  dest[k] = ver[k]
    BY DEF Extracted
  <2>1. cur[k] < watermark
    BY DEF NothingAhead
  <2>2. QED
    BY <2>1 DEF WatermarkBacked, Abstract!CompleteBelow
<1>7. NothingAhead'
  <2>1. \A q \in Runs : high'[q] <= clock
    BY <1>2, <1>3, <1>5 DEF NothingAhead
  <2>2. ASSUME NEW q \in Runs, NEW k \in Keys
        PROVE  rows'[q][k] <= ver[k] /\ seen'[q][k] <= ver[k]
    <3>1. CASE q = r
      <4>1. rows'[q][k] \in {0, ver[k]} /\ seen'[q][k] \in {0, ver[k]} /\ ver[k] \in Nat
        BY <1>3, <3>1
      <4>2. QED
        BY <4>1
    <3>2. CASE q # r
      BY <1>3, <3>2 DEF NothingAhead
    <3>3. QED
      BY <3>1, <3>2
  <2>3. QED
    BY <1>1, <2>1, <2>2 DEF NothingAhead
<1>8. RowsOnlyWhileWriting'
  BY <1>3, <1>4, <1>5 DEF RowsOnlyWhileWriting
<1>9. FreshRows'
  <2> SUFFICES ASSUME NEW q \in Runs, NEW k \in Keys, MayPublish(q)', rows'[q][k] # 0
               PROVE  dest[k] <= rows'[q][k]
    BY <1>1 DEF FreshRows
  <2>1. MayPublish(q)
    BY <1>1 DEF MayPublish, Owns, FenceMatches
  <2>2. CASE q = r
    BY <1>3, <2>2 DEF NothingAhead
  <2>3. CASE q # r
    BY <1>3, <2>1, <2>3 DEF FreshRows
  <2>4. QED
    BY <2>2, <2>3
<1>10. CursorObserved'
  <2>1. Filtered /\ max # 0 => boundary[r] <= max
    BY <1>2 DEF IsMaximumCursor, Extracted
  <2>2. QED
    BY <1>1, <1>3, <1>4, <1>5, <2>1 DEF CursorObserved
<1>11. ExtractionComplete'
  <2> SUFFICES ASSUME NEW q \in Runs, pc'[q] \in Extracting, NEW k \in Keys,
                      cur[k] # 0, cur[k] < high'[q]
               PROVE  dest[k] = ver[k] \/ rows'[q][k] = ver[k]
    BY <1>1 DEF ExtractionComplete
  <2>1. CASE q = r
    BY <1>3, <1>6, <2>1
  <2>2. CASE q # r
    BY <1>3, <1>4, <2>2 DEF ExtractionComplete
  <2>3. QED
    BY <2>1, <2>2
<1>12. SeenAccountedFor'
  <2> SUFFICES ASSUME NEW q \in Runs, NEW k \in Keys
               PROVE  seen'[q][k] <= dest[k] \/ seen'[q][k] <= rows'[q][k]
    BY <1>1 DEF SeenAccountedFor
  <2>1. CASE q = r
    <3>1. seen'[q][k] \in {0, dest[k], rows'[q][k]}
      BY <1>3, <1>6, <2>1
    <3>2. dest[k] \in Nat /\ rows'[q][k] \in Nat
      OBVIOUS
    <3>3. QED
      BY <3>1, <3>2
  <2>2. CASE q # r
    BY <1>3, <2>2 DEF SeenAccountedFor
  <2>3. QED
    BY <2>1, <2>2
<1>13. WatermarkBacked'
  BY <1>1 DEF WatermarkBacked, Abstract!CompleteBelow
<1>14. QED
  BY <1>7, <1>8, <1>9, <1>10, <1>11, <1>12, <1>13

\* A batch never takes a record back: it is not empty only for the one run that
\* may publish, and what that run holds is fresh.
LEMMA BatchMovesForward ==
    ASSUME ExecutionInv, NEW r \in Runs, WriteBatch(r), NEW k \in Keys
    PROVE  /\ dest[k] <= dest'[k] /\ dest'[k] <= ver[k]
           /\ rows[r][k] # 0 => rows'[r][k] = rows[r][k] \/ dest'[k] = rows[r][k]
           /\ rows'[r][k] # 0 => rows'[r][k] = rows[r][k] /\ dest'[k] = dest[k]
<1> USE DEF ExecutionInv, TypeOK, DataTypeOK, ProcessTypeOK, Versions
<1>1. PICK S \in SUBSET Keys :
        /\ IsBatch(S, r)
        /\ MayPublish(r) \/ (Destination = "lease" /\ S = {})
        /\ dest' = Merged(S, r)
        /\ rows' = [rows EXCEPT ![r] = [j \in Keys |-> IF j \in S THEN 0 ELSE rows[r][j]]]
  BY DEF WriteBatch
<1>2. S \subseteq Pending(r)
  BY <1>1 DEF IsBatch
<1>3. CASE k \in S
  <2>1. rows[r][k] # 0 /\ MayPublish(r)
    BY <1>1, <1>2, <1>3 DEF Pending
  <2>2. dest[k] <= rows[r][k] /\ rows[r][k] <= ver[k]
    BY <2>1 DEF FreshRows, NothingAhead
  <2>3. QED
    BY <1>1, <1>3, <2>2 DEF Merged
<1>4. CASE k \notin S
  BY <1>1, <1>4 DEF Merged, NothingAhead
<1>5. QED
  BY <1>3, <1>4

\* A publication preserves the invariant.
LEMMA WriteStep ==
    ASSUME ExecutionInv, TypeOK', SucceededIsOver', NEW r \in Runs, WriteBatch(r)
    PROVE  ExecutionInv'
<1> USE DEF ExecutionInv, TypeOK, DataTypeOK, ProcessTypeOK, Versions, Extracting
<1>1. /\ UNCHANGED <<lease, handle, fence, ver, cur, clock, watermark, boundary, high, seen>>
      /\ pc[r] = "write"
      /\ \A q \in Runs \ {r} : rows'[q] = rows[q] /\ pc'[q] = pc[q]
  BY DEF WriteBatch, leaseVars, sourceVars, Goto, At
<1>2. \A k \in Keys : /\ dest[k] <= dest'[k] /\ dest'[k] <= ver[k]
                      /\ rows[r][k] # 0 => rows'[r][k] = rows[r][k] \/ dest'[k] = rows[r][k]
                      /\ rows'[r][k] # 0 => rows'[r][k] = rows[r][k] /\ dest'[k] = dest[k]
  BY BatchMovesForward
<1>3. /\ pc'[r] \in {"verifyWrite", "verifyCursor", AfterIngest}
      /\ pc'[r] # "verifyWrite" => rows'[r] = NoRows
      /\ pc'[r] = "verifyCursor" => high[r] # 0
      /\ pc'[r] = AfterIngest => high[r] = 0
  <2>1. PICK S \in SUBSET Keys :
          /\ pc' = [pc EXCEPT ![r] = AfterWrite(S, r)]
          /\ rows' = [rows EXCEPT ![r] = [k \in Keys |-> IF k \in S THEN 0 ELSE rows[r][k]]]
    BY DEF WriteBatch, Goto
  <2>2. pc'[r] = AfterWrite(S, r)
    BY <2>1
  <2>3. Pending(r) \ S = {} => rows'[r] = NoRows
    BY <2>1 DEF Pending, NoRows
  <2>4. QED
    BY <2>2, <2>3, Points DEF AfterWrite
<1>4. NothingAhead'
  <2>1. ASSUME NEW q \in Runs, NEW k \in Keys PROVE rows'[q][k] <= ver[k]
    <3>1. rows'[q][k] \in {0, rows[q][k]}
      BY <1>1, <1>2
    <3>2. rows[q][k] <= ver[k] /\ ver[k] \in Nat
      BY DEF NothingAhead
    <3>3. QED
      BY <3>1, <3>2
  <2>2. QED
    BY <1>1, <1>2, <2>1 DEF NothingAhead
<1>5. RowsOnlyWhileWriting'
  BY <1>1, <1>3 DEF RowsOnlyWhileWriting
<1>6. FreshRows'
  <2> SUFFICES ASSUME NEW q \in Runs, NEW k \in Keys, MayPublish(q)', rows'[q][k] # 0
               PROVE  dest'[k] <= rows'[q][k]
    BY DEF FreshRows
  <2>1. MayPublish(q)
    BY <1>1 DEF MayPublish, Owns, FenceMatches
  <2>2. CASE q = r
    <3>1. rows'[q][k] = rows[q][k] /\ dest'[k] = dest[k]
      BY <1>2, <2>2
    <3>2. QED
      BY <2>1, <3>1 DEF FreshRows
  <2>3. CASE q # r
    <3>1. ~MayPublish(r)
      BY <2>1, <2>3, OnePublisher
    <3>2. dest' = dest
      BY <3>1 DEF WriteBatch, Merged
    <3>3. QED
      BY <1>1, <2>1, <2>3, <3>2 DEF FreshRows
  <2>4. QED
    BY <2>2, <2>3
<1>7. CursorObserved'
  BY <1>1, <1>3, Points DEF CursorObserved
<1>8. ASSUME NEW k \in Keys, dest[k] = ver[k] PROVE dest'[k] = ver[k]
  <2>1. dest[k] <= dest'[k] /\ dest'[k] <= ver[k]
    BY <1>2
  <2>2. dest[k] \in Nat /\ dest'[k] \in Nat /\ ver[k] \in Nat
    OBVIOUS
  <2> HIDE DEF ExecutionInv, TypeOK
  <2>3. QED
    BY <1>8, <2>1, <2>2
<1>9. ExtractionComplete'
  <2> SUFFICES ASSUME NEW q \in Runs, pc'[q] \in Extracting, NEW k \in Keys,
                      cur[k] # 0, cur[k] < high[q]
               PROVE  dest'[k] = ver[k] \/ rows'[q][k] = ver[k]
    BY <1>1 DEF ExtractionComplete
  <2>1. dest[k] = ver[k] \/ rows[q][k] = ver[k]
    BY <1>1 DEF ExtractionComplete
  <2>2. CASE q # r
    BY <1>1, <1>8, <2>1, <2>2
  <2>3. CASE q = r /\ rows[r][k] # 0
    BY <1>2, <1>8, <2>1, <2>3
  <2>4. CASE q = r /\ rows[r][k] = 0
    <3>1. ver[k] = 0 => dest'[k] = ver[k]
      BY <1>2
    <3>2. QED
      BY <1>8, <2>1, <2>4, <3>1
  <2>5. QED
    BY <2>2, <2>3, <2>4
<1>10. SeenAccountedFor'
  <2> SUFFICES ASSUME NEW q \in Runs, NEW k \in Keys
               PROVE  seen[q][k] <= dest'[k] \/ seen[q][k] <= rows'[q][k]
    BY <1>1 DEF SeenAccountedFor
  <2>1. seen[q][k] <= dest[k] \/ seen[q][k] <= rows[q][k]
    BY DEF SeenAccountedFor
  <2>2. dest[k] <= dest'[k]
    BY <1>2
  <2>3. CASE q # r
    BY <1>1, <2>1, <2>2, <2>3
  <2>4. CASE q = r
    <3>1. rows[r][k] \in {0, rows'[r][k], dest'[k]}
      BY <1>2
    <3>2. QED
      BY <2>1, <2>2, <2>4, <3>1
  <2>5. QED
    BY <2>3, <2>4
<1>11. WatermarkBacked'
  BY <1>1, <1>8 DEF WatermarkBacked, Abstract!CompleteBelow
<1>12. QED
  BY <1>4, <1>5, <1>6, <1>7, <1>9, <1>10, <1>11

\* The cursor that is committed is not behind the watermark, and everything
\* below it is in the destination.
LEMMA CommitIsBacked ==
    ASSUME ExecutionInv, NEW r \in Runs, CommitCursor(r)
    PROVE  watermark <= watermark' /\ watermark' <= clock /\ Abstract!CompleteBelow(watermark')
<1> USE DEF ExecutionInv, TypeOK, DataTypeOK, ProcessTypeOK, Versions, Extracting
<1>1. /\ pc[r] = "cursor" /\ watermark = boundary[r] /\ watermark' = CursorToCommit(r)
      /\ rows[r] = NoRows
  BY DEF CommitCursor, At, RowsOnlyWhileWriting
<1>2. \/ watermark' = high[r] /\ boundary[r] <= high[r]
      \/ watermark' = watermark
  BY <1>1 DEF CursorToCommit, CursorObserved
<1>3. ASSUME NEW k \in Keys, cur[k] # 0, cur[k] < high[r] PROVE dest[k] = ver[k]
  <2>1. dest[k] = ver[k] \/ rows[r][k] = ver[k]
    BY <1>1, <1>3 DEF ExtractionComplete
  <2>2. rows[r][k] = 0 /\ dest[k] <= ver[k] /\ dest[k] \in Nat /\ ver[k] \in Nat
    BY <1>1 DEF NoRows, NothingAhead
  <2>3. QED
    BY <2>1, <2>2
<1>4. CASE watermark' = high[r] /\ boundary[r] <= high[r]
  BY <1>1, <1>3, <1>4 DEF NothingAhead, Abstract!CompleteBelow
<1>5. CASE watermark' = watermark
  BY <1>5 DEF NothingAhead, WatermarkBacked, Abstract!CompleteBelow
<1>6. QED
  BY <1>2, <1>4, <1>5

\* A cursor commit preserves the invariant.
LEMMA CommitStep ==
    ASSUME ExecutionInv, TypeOK', SucceededIsOver', NEW r \in Runs, CommitCursor(r)
    PROVE  ExecutionInv'
<1> USE DEF ExecutionInv, TypeOK, DataTypeOK, ProcessTypeOK, Versions, Extracting
<1>1. /\ UNCHANGED <<lease, handle, fence, ver, cur, clock, dest, seen>>
      /\ \A q \in Runs \ {r} : /\ rows'[q] = rows[q] /\ high'[q] = high[q]
                               /\ boundary'[q] = boundary[q] /\ pc'[q] = pc[q]
      /\ pc[r] = "cursor" /\ pc'[r] \notin Extracting
      /\ rows[r] = NoRows /\ rows'[r] = NoRows /\ high'[r] = 0 /\ boundary'[r] = 0
  BY Points DEF CommitCursor, ForgetExtraction, leaseVars, sourceVars, Goto, At,
                RowsOnlyWhileWriting
<1>2. rows' = rows
  BY <1>1
<1>3. watermark <= watermark' /\ watermark' <= clock /\ Abstract!CompleteBelow(watermark')
  BY CommitIsBacked
<1>4. NothingAhead'
  <2>1. ASSUME NEW q \in Runs PROVE boundary'[q] <= watermark' /\ high'[q] <= clock
    <3>1. boundary'[q] \in {0, boundary[q]} /\ high'[q] \in {0, high[q]}
      BY <1>1
    <3>2. boundary[q] <= watermark /\ high[q] <= clock
      BY DEF NothingAhead
    <3>3. boundary[q] \in Nat /\ watermark \in Nat /\ watermark' \in Nat /\ clock \in Nat
      OBVIOUS
    <3>4. QED
      BY <1>3, <3>1, <3>2, <3>3
  <2>2. QED
    BY <1>1, <1>2, <1>3, <2>1 DEF NothingAhead
<1>5. RowsOnlyWhileWriting'
  BY <1>1 DEF RowsOnlyWhileWriting
<1>6. FreshRows'
  BY <1>1, <1>2 DEF FreshRows, MayPublish, Owns, FenceMatches
<1>7. CursorObserved'
  BY <1>1 DEF CursorObserved
<1>8. ExtractionComplete'
  BY <1>1 DEF ExtractionComplete
<1>9. SeenAccountedFor'
  BY <1>1, <1>2 DEF SeenAccountedFor
<1>10. WatermarkBacked'
  BY <1>1, <1>3 DEF WatermarkBacked, Abstract!CompleteBelow
<1>11. QED
  BY <1>4, <1>5, <1>6, <1>7, <1>8, <1>9, <1>10

\* The source moves on: a new version is stamped with the clock, which no
\* cursor, boundary or watermark is ahead of.
LEMMA SourceStep ==
    ASSUME ExecutionInv, TypeOK', SucceededIsOver', NEW k \in Keys,
           SourceChange(k) \/ SourceDelete(k) \/ SourceTick
    PROVE  ExecutionInv'
<1> USE DEF ExecutionInv, TypeOK, DataTypeOK, ProcessTypeOK, Versions
<1>1. UNCHANGED <<lease, handle, fence, dest, watermark, boundary, rows, high, seen, pc>>
  BY DEF SourceChange, SourceDelete, SourceTick, RunsUnchanged, leaseVars, storeVars, memoryVars
<1>2. clock <= clock'
  BY DEF SourceChange, SourceDelete, SourceTick
<1>3. \A j \in Keys : /\ ver[j] <= ver'[j]
                      /\ cur'[j] \in {0, cur[j], clock}
                      /\ cur'[j] # 0 /\ cur'[j] # clock => ver'[j] = ver[j]
  BY DEF SourceChange, SourceDelete, SourceTick
<1>4. NothingAhead'
  <2>1. ASSUME NEW j \in Keys PROVE dest[j] <= ver'[j] /\ cur'[j] <= clock'
    <3>1. dest[j] <= ver[j] /\ cur[j] <= clock
      BY DEF NothingAhead
    <3>2. dest[j] \in Nat /\ ver[j] \in Nat /\ ver'[j] \in Nat /\ cur[j] \in Nat
          /\ clock \in Nat /\ clock' \in Nat
      OBVIOUS
    <3> HIDE DEF ExecutionInv, TypeOK
    <3>3. QED
      BY <1>2, <1>3, <3>1, <3>2
  <2>2. ASSUME NEW q \in Runs, NEW j \in Keys PROVE rows[q][j] <= ver'[j] /\ seen[q][j] <= ver'[j]
    <3>1. rows[q][j] <= ver[j] /\ seen[q][j] <= ver[j]
      BY DEF NothingAhead
    <3>2. rows[q][j] \in Nat /\ seen[q][j] \in Nat /\ ver[j] \in Nat /\ ver'[j] \in Nat
      OBVIOUS
    <3>3. QED
      BY <1>3, <3>1, <3>2
  <2>3. watermark <= clock' /\ \A q \in Runs : high[q] <= clock'
    BY <1>2 DEF NothingAhead
  <2>4. QED
    BY <1>1, <2>1, <2>2, <2>3 DEF NothingAhead
<1>5. RowsOnlyWhileWriting'
  BY <1>1 DEF RowsOnlyWhileWriting
<1>6. FreshRows'
  BY <1>1 DEF FreshRows, MayPublish, Owns, FenceMatches
<1>7. CursorObserved'
  BY <1>1 DEF CursorObserved
<1>8. ASSUME NEW j \in Keys, NEW w \in Nat, w <= clock, cur'[j] # 0, cur'[j] < w
      PROVE  cur[j] = cur'[j] /\ ver'[j] = ver[j]
  <2>1. clock \in Nat /\ cur'[j] # clock
    BY <1>8
  <2>2. QED
    BY <1>3, <1>8, <2>1
<1>9. ExtractionComplete'
  <2> SUFFICES ASSUME NEW q \in Runs, pc[q] \in Extracting, NEW j \in Keys,
                      cur'[j] # 0, cur'[j] < high[q]
               PROVE  dest[j] = ver'[j] \/ rows[q][j] = ver'[j]
    BY <1>1 DEF ExtractionComplete
  <2>1. high[q] \in Nat /\ high[q] <= clock
    BY DEF NothingAhead
  <2>2. cur[j] = cur'[j] /\ ver'[j] = ver[j]
    BY <1>8, <2>1
  <2>3. QED
    BY <2>2 DEF ExtractionComplete
<1>10. SeenAccountedFor'
  BY <1>1 DEF SeenAccountedFor
<1>11. WatermarkBacked'
  <2> SUFFICES ASSUME NEW j \in Keys, cur'[j] # 0, cur'[j] < watermark
               PROVE  dest[j] = ver'[j]
    BY <1>1 DEF WatermarkBacked, Abstract!CompleteBelow
  <2>1. watermark \in Nat /\ watermark <= clock
    BY DEF NothingAhead
  <2>2. cur[j] = cur'[j] /\ ver'[j] = ver[j]
    BY <1>8, <2>1
  <2>3. QED
    BY <2>2 DEF WatermarkBacked, Abstract!CompleteBelow
<1>12. QED
  BY <1>4, <1>5, <1>6, <1>7, <1>9, <1>10, <1>11

\* Initial states satisfy the invariant.
LEMMA ExecutionInvInit == Init => ExecutionInv
<1> SUFFICES ASSUME Init PROVE ExecutionInv
  OBVIOUS
<1>1. TypeOK
  BY TypesInit
<1>2. /\ \A k \in Keys : ver[k] = 0 /\ cur[k] = 0 /\ dest[k] = 0
      /\ \A r \in Runs, k \in Keys : rows[r][k] = 0 /\ seen[r][k] = 0
      /\ \A r \in Runs : /\ rows[r] = NoRows /\ boundary[r] = 0 /\ high[r] = 0
                         /\ pc[r] = "idle" /\ history[r].status = "none"
      /\ watermark = 0 /\ clock = 1
  BY DEF Init, NoRows, HistoryInit, NoRow
<1>3. QED
  BY <1>1, <1>2
  DEF ExecutionInv, NothingAhead, RowsOnlyWhileWriting, FreshRows, CursorObserved,
      ExtractionComplete, SeenAccountedFor, SucceededIsOver, WatermarkBacked,
      Abstract!CompleteBelow, Extracting

\* Every step preserves the invariant.
LEMMA ExecutionInvStep == LeaseInv /\ ExecutionInv /\ [Next]_vars => ExecutionInv'
<1> SUFFICES ASSUME LeaseInv, ExecutionInv, [Next]_vars PROVE ExecutionInv'
  OBVIOUS
<1>1. TypeOK'
  BY TypesStep DEF ExecutionInv
<1>2. SucceededIsOver'
  BY SucceededIsOverStep DEF ExecutionInv
<1>3. ASSUME NEW r \in Runs, Step(r) \/ Launch(r) \/ BackgroundLoss(r) \/ Crash(r)
      PROVE  ExecutionInv'
  BY <1>1, <1>2, <1>3, ControlSteps, ForgettingSteps, ExtractStep, WriteStep, CommitStep
  DEF Step, Launch
<1>4. CASE Expire
  <2>1. UNCHANGED <<fence, ver, cur, clock, dest, watermark, boundary, rows, high, seen, pc>>
    BY <1>4 DEF Expire, storeVars, sourceVars, memoryVars
  <2>2. NoNewPublisher
    BY <1>4, <2>1 DEF Expire, ExpireLease, NoNewPublisher, MayPublish, Owns, FenceMatches,
       ExecutionInv, TypeOK, LeaseTypeOK
  <2>3. \A q \in Runs : Kept(q)
    BY <2>1 DEF Kept, Extracting
  <2>4. QED
    BY <1>1, <1>2, <2>1, <2>2, <2>3, QuietStep
<1>5. CASE Environment /\ ~Expire
  <2>1. CASE SourceTick
    <3>1. CASE Keys = {}
      BY <1>1, <1>2, <2>1, <3>1
      DEF ExecutionInv, SourceTick, RunsUnchanged, TypeOK, DataTypeOK, ProcessTypeOK,
          NothingAhead, RowsOnlyWhileWriting, FreshRows, CursorObserved, ExtractionComplete,
          SeenAccountedFor, WatermarkBacked, Abstract!CompleteBelow, storeVars, memoryVars
    <3>2. CASE Keys # {}
      BY <1>1, <1>2, <2>1, <3>2, SourceStep
    <3>3. QED
      BY <3>1, <3>2
  <2>2. QED
    BY <1>1, <1>2, <1>5, <2>1, SourceStep DEF Environment
<1>6. CASE UNCHANGED vars
  <2>1. NoNewPublisher /\ \A q \in Runs : Kept(q)
    BY <1>6 DEF vars, NoNewPublisher, Kept, MayPublish, Owns, FenceMatches, Extracting
  <2>2. QED
    BY <1>1, <1>2, <1>6, <2>1, QuietStep DEF vars
<1>7. QED
  BY <1>3, <1>4, <1>5, <1>6 DEF Next

\* ExecutionInv is an invariant of the executor.
THEOREM ExecutionCorrect == Spec => []ExecutionInv
  BY ExecutionInvInit, ExecutionInvStep, ExecutionLeaseSafety, PTL DEF Spec

\* Whatever crashes, stalls and takeovers happen, every change stamped before
\* the committed watermark is in the destination.
THEOREM WatermarkIsBacked == Spec => []WatermarkBacked
<1>1. ExecutionInv => WatermarkBacked
  BY DEF ExecutionInv
<1>2. QED
  BY <1>1, ExecutionCorrect, PTL

\* A run that the ledger calls succeeded has published everything the source
\* held when it extracted.
THEOREM SuccessCovers == Spec => []SucceededCovers
<1>1. ExecutionInv => SucceededCovers
  <2> SUFFICES ASSUME ExecutionInv, NEW r \in Runs, history[r].status = "succeeded", NEW k \in Keys
               PROVE  seen[r][k] <= dest[k]
    BY DEF SucceededCovers
  <2>1. rows[r][k] = 0
    BY DEF ExecutionInv, SucceededIsOver, Working, Verifying, RowsOnlyWhileWriting, NoRows
  <2>2. seen[r][k] \in Nat /\ dest[k] \in Nat
    BY DEF ExecutionInv, TypeOK, DataTypeOK, ProcessTypeOK, Versions
  <2>3. seen[r][k] <= dest[k] \/ seen[r][k] <= rows[r][k]
    BY DEF ExecutionInv, SeenAccountedFor
  <2>4. QED
    BY <2>1, <2>2, <2>3
<1>2. QED
  BY <1>1, ExecutionCorrect, PTL

-----------------------------------------------------------------------------
(***************************************************************************)
(* Refinement and action properties.                                       *)
(***************************************************************************)

\* The steps of a process that touch neither destination nor watermark.
LEMMA OtherStepsStutter ==
    ASSUME NEW r \in Runs, Step(r) \/ Launch(r) \/ BackgroundLoss(r) \/ Crash(r),
           ~WriteBatch(r), ~CommitCursor(r)
    PROVE  UNCHANGED <<ver, cur, clock, dest, watermark>>
  BY DEF Step, Launch, BackgroundLoss, Crash, sourceVars, storeVars,
         AcquireLease, UpdateLeaseRow, SelectLeaseRow, AcquireRefused, FinishSkipped,
         Reconcile, Verify, VerifyFails, ReadWatermark, ClaimTarget, Extract, WriteRejected,
         CursorRejected, CheckpointTransform, Build, CheckpointMetadata, PublishMetadata,
         FinishSucceeded, Fail, FinishFailed, Exit, Start, Retry

\* Every step of the executor is a step of Replication or a stutter.
LEMMA StepRefines ==
    ASSUME ExecutionInv, ExecutionInv', [Next]_vars
    PROVE  [Abstract!Next]_(Abstract!replVars)
<1>1. ASSUME NEW r \in Runs, WriteBatch(r) PROVE Abstract!Publish
  <2>1. dest' = [k \in Keys |-> dest'[k]]
    BY DEF ExecutionInv, TypeOK, DataTypeOK, Versions
  <2>2. \A k \in Keys : dest[k] <= dest'[k] /\ dest'[k] <= ver[k]
    BY <1>1, BatchMovesForward
  <2>3. QED
    BY <1>1, <2>1, <2>2 DEF Abstract!Publish, WriteBatch, sourceVars
<1>2. ASSUME NEW r \in Runs, CommitCursor(r) PROVE Abstract!Advance
  BY <1>2, CommitIsBacked DEF Abstract!Advance, CommitCursor, sourceVars
<1>3. ASSUME NEW r \in Runs, Step(r) \/ Launch(r) \/ BackgroundLoss(r) \/ Crash(r)
      PROVE  [Abstract!Next]_(Abstract!replVars)
  BY <1>1, <1>2, <1>3, OtherStepsStutter DEF Abstract!Next, Abstract!replVars
<1>4. CASE Environment
  BY <1>4
  DEF Environment, SourceChange, SourceDelete, SourceTick, Expire, RunsUnchanged, storeVars,
      sourceVars, Abstract!Next, Abstract!Change, Abstract!Delete, Abstract!Tick,
      Abstract!replVars
<1>5. CASE UNCHANGED vars
  BY <1>5 DEF vars, Abstract!replVars
<1>6. QED
  BY <1>3, <1>4, <1>5 DEF Next

\* The endpoint implements Replication: no takeover, crash or retry takes a
\* destination record back or moves the watermark past a missing change.
THEOREM ExecutionRefinesReplication == Spec => ReplicatesSource
<1>1. Init => Abstract!Init
  BY DEF Init, Abstract!Init, NoRows
<1>2. ExecutionInv /\ ExecutionInv' /\ [Next]_vars => [Abstract!Next]_(Abstract!replVars)
  BY StepRefines
<1>3. QED
  BY <1>1, <1>2, ExecutionCorrect, PTL DEF Spec, ReplicatesSource, Abstract!Spec

\* The row of a run that ended as succeeded is never rewritten, by whatever
\* later runs reconcile and whatever the launcher retries.
THEOREM SuccessStays == Spec => SuccessIsFinal
<1> DEFINE Safe == \A r \in Runs : pc[r] \in {"done", "crashed"} /\ history[r].status = "succeeded"
             => history'[r].status = "succeeded"
<1>1. TypeOK /\ [Next]_vars => [Safe]_vars
  <2> SUFFICES ASSUME TypeOK, Next, NEW r \in Runs, pc[r] \in {"done", "crashed"},
                      history[r].status = "succeeded"
               PROVE  history'[r].status = "succeeded"
    OBVIOUS
  <2> USE DEF At, Goto, TypeOK, ProcessTypeOK, HistoryTypeOK, historyVars
  <2>1. ASSUME NEW q \in Runs, Reconcile(q) PROVE history'[r].status = "succeeded"
    BY <2>1 DEF Reconcile, ReconcileInterrupted, Interruptible
  <2>2. ASSUME NEW q \in Runs, Launch(q) PROVE history'[r].status = "succeeded"
    BY <2>2 DEF Launch, Start, Retry, HistoryStart, HistoryRestart, InsertRunning, SetStatus
  <2>3. ASSUME NEW q \in Runs,
               \/ FinishSkipped(q) \/ CheckpointTransform(q) \/ CheckpointMetadata(q)
               \/ FinishSucceeded(q) \/ FinishFailed(q)
        PROVE  history'[r].status = "succeeded"
    BY <2>3 DEF FinishSkipped, CheckpointTransform, CheckpointMetadata, FinishSucceeded,
       FinishFailed, HistoryFinish, HistoryCheckpoint, SetStatus
  <2>4. ASSUME NEW q \in Runs, Step(q) \/ BackgroundLoss(q) \/ Crash(q),
               ~Reconcile(q), ~FinishSkipped(q), ~CheckpointTransform(q),
               ~CheckpointMetadata(q), ~FinishSucceeded(q), ~FinishFailed(q)
        PROVE  history'[r].status = "succeeded"
    BY <2>4
    DEF Step, BackgroundLoss, Crash, AcquireLease, UpdateLeaseRow, SelectLeaseRow,
        AcquireRefused, Verify, VerifyFails, ReadWatermark, ClaimTarget, Extract, WriteBatch,
        WriteRejected, CommitCursor, CursorRejected, Build, PublishMetadata, Fail, Exit
  <2>5. CASE Environment
    BY <2>5 DEF Environment, SourceChange, SourceDelete, SourceTick, Expire, RunsUnchanged
  <2>6. QED
    BY <2>1, <2>2, <2>3, <2>4, <2>5 DEF Next
<1>2. QED
  BY <1>1, TypeCorrect, PTL DEF Spec, SuccessIsFinal
=============================================================================
