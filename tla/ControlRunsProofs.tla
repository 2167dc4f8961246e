------------------------- MODULE ControlRunsProofs -------------------------
(***************************************************************************)
(* Proofs about ControlRuns: ControlInv is inductive, and what follows     *)
(* from it.  Each lemma about a step is first proved for the values that   *)
(* the step changes (a record, an execution, a mutation) and then for the  *)
(* functions that hold them.                                               *)
(***************************************************************************)
EXTENDS ControlRuns, TLAPS

\* A saved record never takes back what a snapshot of the old one relied on.
Advances(rec, new) ==
    /\ new # Absent
    /\ rec.attempt = 1 => new.attempt = 1
    /\ rec.state \in {"canceling", "terminal"} => new.state \in {"canceling", "terminal"}
    /\ NeedsReconciliation(new) => NeedsReconciliation(rec)

\* An execution never takes back what was observed of it.
Forward(e, new) ==
    /\ e.phase # "none" => new.phase # "none"
    /\ e.phase \in Ended => new.phase = e.phase /\ (new.worker => e.worker)
    /\ new.phase = "none" => new = e
    /\ new.phase \in Ended /\ new.worker => Backend = "fargate"
    /\ new.phase = "canceled" => new.stop

-----------------------------------------------------------------------------
(***************************************************************************)
(* Facts about values.                                                     *)
(***************************************************************************)

\* The first attempt exists.
LEMMA FirstAttempt == 1 \in Attempts
BY RunRecordAssumption DEF Attempts

\* The fields of the records that Control writes.
LEMMA QueuedFields ==
    Queued = [state |-> "queued", attempt |-> 0, outcome |-> "unknown",
              results |-> "pending", cleanup |-> "pending"]
BY DEF Queued, Absent

LEMMA RecordTypes ==
    /\ Absent \in Snapshots /\ Queued \in Snapshots /\ Dispatched \in Snapshots
    /\ Withdrawn(Queued) \in Snapshots
    /\ Queued # Absent /\ Dispatched # Absent /\ Withdrawn(Queued) # Absent
    /\ Idle \notin Mutations
<1>1. Absent \in Snapshots
  BY DEF Snapshots
<1>2. /\ Dispatched = [state |-> "running", attempt |-> 1, outcome |-> "unknown",
                       results |-> "pending", cleanup |-> "pending"]
      /\ Withdrawn(Queued) = [state |-> "terminal", attempt |-> 0, outcome |-> "canceled",
                              results |-> "unavailable", cleanup |-> "confirmed"]
  BY QueuedFields DEF Dispatched, Running, Withdrawn
<1>3. Queued \in AnyRecord /\ Dispatched \in AnyRecord /\ Withdrawn(Queued) \in AnyRecord
  BY <1>2, QueuedFields, RunRecordAssumption
     DEF AnyRecord, HostedRunState, RunOutcome, ResultsState, CleanupState
<1>4. DimensionsOK(Queued) /\ DimensionsOK(Dispatched) /\ DimensionsOK(Withdrawn(Queued))
  BY <1>2, QueuedFields DEF DimensionsOK
<1>5. Queued \in Snapshots /\ Dispatched \in Snapshots /\ Withdrawn(Queued) \in Snapshots
  BY <1>3, <1>4 DEF Snapshots, Records
<1>6. Queued.state # Absent.state /\ Dispatched.state # Absent.state
      /\ Withdrawn(Queued).state # Absent.state
  BY <1>2, QueuedFields DEF Absent
<1>7. \A o \in Mutations : o.kind # Idle.kind
  BY DEF Mutations, Idle
<1> QED BY <1>1, <1>5, <1>6, <1>7

\* The fields of a snapshot.
LEMMA SnapshotFields ==
    ASSUME NEW s \in Snapshots
    PROVE  /\ s.state \in HostedRunState \union {"absent"}
           /\ s.attempt \in 0 .. MaxAttempts
           /\ s.outcome \in RunOutcome /\ s.results \in ResultsState
           /\ s.cleanup \in CleanupState
           /\ s = [state |-> s.state, attempt |-> s.attempt, outcome |-> s.outcome,
                   results |-> s.results, cleanup |-> s.cleanup]
           /\ s.state # "terminal" =>
                s.outcome = "unknown" /\ s.results = "pending" /\ s.cleanup = "pending"
           /\ s.state = "absent" => s = Absent
BY RunRecordAssumption DEF Snapshots, Records, AnyRecord, DimensionsOK, Absent, HostedRunState,
   RunOutcome, ResultsState, CleanupState

\* A transition keeps a record well typed.
LEMMA TransitionTypes ==
    ASSUME NEW s \in Snapshots
    PROVE  /\ s.state = "running" => [s EXCEPT !.state = "canceling"] \in Snapshots
           /\ \A e \in Executions, c \in CleanupState :
                e.phase \in Ended => Observed(s, e, c) \in Snapshots
<1>1. ASSUME s.state = "running"
      PROVE  [s EXCEPT !.state = "canceling"] \in Snapshots
  <2>1. s \in AnyRecord /\ DimensionsOK(s)
    BY <1>1 DEF Snapshots, Records, Absent
  <2>2. [s EXCEPT !.state = "canceling"] \in AnyRecord
    BY <2>1 DEF AnyRecord, HostedRunState
  <2>3. DimensionsOK([s EXCEPT !.state = "canceling"])
    BY <1>1, <2>1 DEF AnyRecord, DimensionsOK
  <2> QED BY <2>2, <2>3 DEF Snapshots, Records
<1>2. ASSUME NEW e \in Executions, NEW c \in CleanupState, e.phase \in Ended
      PROVE  Observed(s, e, c) \in Snapshots
  <2>1. Observed(s, e, c) \in AnyRecord
    BY <1>2, SnapshotFields DEF Observed, AnyRecord, HostedRunState, RunOutcome, Ended,
       ObservedResults, ResultsState
  <2>2. DimensionsOK(Observed(s, e, c))
    BY DEF Observed, DimensionsOK
  <2> QED BY <2>1, <2>2 DEF Snapshots, Records
<1> QED BY <1>1, <1>2

\* Updates of a mutation.
LEMMA HasReadFields ==
    ASSUME NEW o \in Mutations, NEW step \in Step, NEW rec \in Snapshots
    PROVE  /\ HasRead(o, step, rec) \in Mutations
           /\ HasRead(o, step, rec).step = step /\ HasRead(o, step, rec).snap = rec
           /\ HasRead(o, step, rec).run = o.run /\ HasRead(o, step, rec).current
           /\ HasRead(o, step, rec).next = o.next
<1> DEFINE t == TRUE
<1>1. t \in BOOLEAN
  OBVIOUS
<1> HIDE DEF t
<1>2. [o EXCEPT !.step = step, !.snap = rec, !.current = t] \in Mutations
  BY <1>1 DEF Mutations
<1>3. HasRead(o, step, rec) \in Mutations
  BY <1>2 DEF t, HasRead
<1>4. /\ HasRead(o, step, rec).step = step /\ HasRead(o, step, rec).snap = rec
      /\ HasRead(o, step, rec).run = o.run /\ HasRead(o, step, rec).current
      /\ HasRead(o, step, rec).next = o.next
  BY DEF HasRead, Mutations
<1> QED BY <1>3, <1>4

LEMMA WillSaveFields ==
    ASSUME NEW o \in Mutations, NEW step \in Step, NEW rec \in Snapshots
    PROVE  /\ WillSave(o, step, rec) \in Mutations
           /\ WillSave(o, step, rec).step = step /\ WillSave(o, step, rec).next = rec
           /\ WillSave(o, step, rec).run = o.run /\ WillSave(o, step, rec).snap = o.snap
           /\ WillSave(o, step, rec).current = o.current
BY DEF WillSave, Mutations

LEMMA OvertakenFields ==
    ASSUME NEW o \in Mutations
    PROVE  /\ Overtaken(o) \in Mutations
           /\ Overtaken(o).step = o.step /\ Overtaken(o).run = o.run
           /\ Overtaken(o).snap = o.snap /\ Overtaken(o).next = o.next
           /\ ~Overtaken(o).current
BY DEF Overtaken, Mutations

\* Updates of a scan.
LEMMA ScanUpdates ==
    ASSUME NEW s \in Scans, NEW next \in Nat
    PROVE  /\ NewScan \in Scans
           /\ [s EXCEPT !.pageFailed = TRUE] \in Scans
           /\ [s EXCEPT !.scanFailed = TRUE, !.lastFailed = TRUE] \in Scans
           /\ Opened(s, next) \in Scans
           /\ Marked(s) \in Scans
<1> DEFINE t == TRUE
           f == FALSE
           z == 0
<1>1. t \in BOOLEAN /\ f \in BOOLEAN /\ z \in Nat
  OBVIOUS
<1> HIDE DEF t, f, z
<1>2. NewScan \in Scans
  BY DEF NewScan, Scans
<1>3. [s EXCEPT !.pageFailed = TRUE] \in Scans
  BY DEF Scans
<1>4. [s EXCEPT !.scanFailed = t, !.lastFailed = t] \in Scans
  BY <1>1 DEF Scans
<1>5. [s EXCEPT !.open = t, !.next = next, !.pageFailed = f] \in Scans
  BY <1>1 DEF Scans
<1>6. ASSUME NEW b \in BOOLEAN, NEW l \in BOOLEAN
      PROVE  /\ [s EXCEPT !.open = f, !.cursor = z, !.recovered = t, !.lastFailed = b,
                          !.scanFailed = f] \in Scans
             /\ [s EXCEPT !.open = f, !.cursor = s.next, !.scanFailed = b,
                          !.lastFailed = l] \in Scans
  BY <1>1 DEF Scans
<1>7. Marked(s) \in Scans
  <2>1. (s.scanFailed \/ s.pageFailed) \in BOOLEAN /\ (s.lastFailed \/ s.pageFailed) \in BOOLEAN
    OBVIOUS
  <2> QED BY <2>1, <1>6 DEF Marked, t, f, z
<1> QED BY <1>2, <1>3, <1>4, <1>5, <1>7 DEF t, f, Opened

\* A snapshot stays behind a record that advances.
LEMMA BehindAdvances ==
    ASSUME NEW s, NEW rec, NEW new, Behind(s, rec), Advances(rec, new)
    PROVE  Behind(s, new)
BY DEF Behind, Advances

\* A mutation whose revision another save has made out of date.
LEMMA OperationOvertaken ==
    ASSUME NEW o \in Mutations, NEW rec, NEW new, NEW e,
           OperationSound(o, rec, e), Advances(rec, new)
    PROVE  OperationSound(Overtaken(o), new, e)
<1>1. Behind(o.snap, new)
  BY BehindAdvances DEF OperationSound
<1> QED BY <1>1, OvertakenFields DEF OperationSound, Advances

\* A terminal truth stays true.
LEMMA SettlesForward ==
    ASSUME NEW rec, NEW e, NEW new, Settles(rec, e), Forward(e, new)
    PROVE  Settles(rec, new)
BY DEF Settles, Forward, ObservedResults

\* A mutation is not disturbed by the provider.
LEMMA OperationForward ==
    ASSUME NEW o, NEW rec, NEW e, NEW new, OperationSound(o, rec, e), Forward(e, new)
    PROVE  OperationSound(o, rec, new)
<1>1. Settles(o.next, e) => Settles(o.next, new)
  BY SettlesForward
<1>2. e.phase # "none" => new.phase # "none"
  BY DEF Forward
<1> QED BY <1>1, <1>2 DEF OperationSound

\* Nor is a record.
LEMMA RunForward ==
    ASSUME NEW rec, NEW e, NEW new, RunSound(rec, e), Forward(e, new),
           rec # Absent \/ new = e
    PROVE  RunSound(rec, new)
<1>1. Settles(rec, e) => Settles(rec, new)
  BY SettlesForward
<1> QED BY <1>1 DEF RunSound, Forward

-----------------------------------------------------------------------------
(***************************************************************************)
(* The parts of a step.                                                    *)
(***************************************************************************)

RecordsAdvance ==
    \A r \in Runs : record'[r] = record[r] \/ Advances(record[r], record'[r])

FreshShrinks ==
    \A p \in Controls, r \in Runs :
        r \in fresh'[p] => r \in fresh[p] /\ (record'[r] = record[r] \/ record[r] = Absent)

\* A mutation in progress that the records and executions of the next state
\* would not disturb.
Undisturbed ==
    \A q \in Controls : op[q] # Idle =>
        OperationSound(op[q], record'[op[q].run], execution'[op[q].run][1])

LEMMA MutationInProgress ==
    ASSUME TypeOK, NEW p \in Controls, op[p] # Idle
    PROVE  /\ op[p] \in Mutations /\ op[p].run \in Runs /\ op[p].step \in Step
           /\ op[p].snap \in Snapshots /\ op[p].next \in Snapshots
           /\ record[op[p].run] \in Snapshots
           /\ execution[op[p].run][1] \in Executions
<1>1. op[p] \in Mutations
  BY DEF TypeOK, Operations
<1> QED BY <1>1, FirstAttempt DEF TypeOK, Mutations

\* The mutation of p is replaced by o.
LEMMA OperationReplaced ==
    ASSUME TypeOK, NEW p \in Controls, NEW o, op' = [op EXCEPT ![p] = o], Undisturbed,
           \/ o = Idle
           \/ o \in Mutations /\ OperationSound(o, record'[o.run], execution'[o.run][1])
    PROVE  op' \in [Controls -> Operations] /\ OperationsSound'
<1>1. o \in Operations
  BY DEF Operations
<1>2. op \in [Controls -> Operations]
  BY DEF TypeOK
<1>3. op' \in [Controls -> Operations]
  BY <1>1, <1>2
<1>4. ASSUME NEW q \in Controls, op'[q] # Idle
      PROVE  OperationSound(op'[q], record'[op'[q].run], execution'[op'[q].run][1])
  <2>1. CASE q = p
    <3>1. op'[q] = o
      BY <1>2, <2>1
    <3> QED BY <3>1, <1>4
  <2>2. CASE q # p
    <3>1. op'[q] = op[q]
      BY <1>2, <2>2
    <3> QED BY <3>1, <1>4 DEF Undisturbed
  <2> QED BY <2>1, <2>2
<1> QED BY <1>3, <1>4 DEF OperationsSound

\* The save of a record that advances.
LEMMA SaveStep ==
    ASSUME ControlInv, NEW p \in Controls, NEW rec \in Snapshots, NEW next, op[p] # Idle,
           SaveRecord(p, rec, next), execution' = execution,
           RunSound(rec, execution[op[p].run][1]),
           Advances(record[op[p].run], rec),
           \/ next = Idle
           \/ /\ next \in Mutations /\ next.run = op[p].run
              /\ OperationSound(next, rec, execution[op[p].run][1])
    PROVE  /\ record' \in [Runs -> Snapshots]
           /\ op' \in [Controls -> Operations]
           /\ fresh' \in [Controls -> SUBSET Runs]
           /\ RunsSound' /\ OperationsSound'
           /\ RecordsAdvance /\ FreshShrinks
<1> DEFINE r == op[p].run
<1>1. r \in Runs /\ TypeOK
  BY MutationInProgress DEF ControlInv
<1>2. /\ record' = [record EXCEPT ![r] = rec]
      /\ fresh' = [q \in Controls |-> fresh[q] \ {r}]
      /\ op' = [q \in Controls |->
           IF q = p THEN next ELSE IF op[q].run = r THEN Overtaken(op[q]) ELSE op[q]]
  BY DEF SaveRecord
<1>3. record' \in [Runs -> Snapshots] /\ record'[r] = rec
      /\ \A s \in Runs : s # r => record'[s] = record[s]
  BY <1>1, <1>2 DEF TypeOK
<1>4. fresh' \in [Controls -> SUBSET Runs]
  BY <1>1, <1>2 DEF TypeOK
<1>5. RunsSound'
  BY <1>3 DEF ControlInv, RunsSound
<1>6. RecordsAdvance
  BY <1>3 DEF RecordsAdvance
<1>7. FreshShrinks
  BY <1>2, <1>3 DEF FreshShrinks
<1>8. ASSUME NEW q \in Controls
      PROVE  /\ op'[q] \in Operations
             /\ op'[q] # Idle =>
                  OperationSound(op'[q], record'[op'[q].run], execution'[op'[q].run][1])
  <2>1. CASE q = p
    <3>1. op'[q] = next
      BY <1>2, <2>1
    <3> QED BY <3>1, <1>3 DEF Operations
  <2>2. CASE q # p /\ op[q].run = r
    <3>1. op'[q] = Overtaken(op[q])
      BY <1>2, <2>2
    <3>2. op[q] # Idle
      BY <1>1, <2>2, ControlAssumption DEF Idle
    <3>3. op[q] \in Mutations
      BY <1>1, <3>2, MutationInProgress
    <3>4. OperationSound(op[q], record[r], execution[r][1])
      BY <2>2, <3>2 DEF ControlInv, OperationsSound
    <3>5. OperationSound(Overtaken(op[q]), rec, execution[r][1])
      BY <3>3, <3>4, OperationOvertaken
    <3> QED BY <1>3, <2>2, <3>1, <3>3, <3>5, OvertakenFields DEF Operations
  <2>3. CASE q # p /\ op[q].run # r
    <3>1. op'[q] = op[q]
      BY <1>2, <2>3
    <3>2. op[q] \in Operations
      BY <1>1 DEF TypeOK
    <3>3. op[q] # Idle => record'[op[q].run] = record[op[q].run]
      BY <1>1, <1>3, <2>3, MutationInProgress
    <3> QED BY <3>1, <3>2, <3>3 DEF ControlInv, OperationsSound
  <2> QED BY <2>1, <2>2, <2>3
<1>9. op' \in [Controls -> Operations]
  BY <1>2, <1>8
<1> QED BY <1>3, <1>4, <1>5, <1>6, <1>7, <1>8, <1>9 DEF OperationsSound

\* Snapshots in pages stay behind the records.
LEMMA PagesStep ==
    ASSUME PagesSound, RecordsAdvance, FreshShrinks,
           \A p \in Controls, r \in Runs : page'[p][r] \in {page[p][r], Absent}
    PROVE  PagesSound'
<1> SUFFICES ASSUME NEW p \in Controls, NEW r \in Runs
             PROVE  /\ Behind(page'[p][r], record'[r])
                    /\ r \in fresh'[p] => page'[p][r] \in {Absent, record'[r]}
  BY DEF PagesSound
<1>1. Behind(page[p][r], record'[r])
  BY BehindAdvances DEF PagesSound, RecordsAdvance
<1>2. Behind(Absent, record'[r])
  BY DEF Behind, Written, Absent
<1> QED BY <1>1, <1>2 DEF PagesSound, FreshShrinks

\* The scan and what is still to recover.
LEMMA RecoveryStep ==
    ASSUME ControlInv, RecordsAdvance,
           \A p \in Controls : old'[p] \subseteq old[p],
           \A p \in Controls :
             \/ scan'[p] = scan[p] /\ \A r \in old'[p] : page'[p][r] = page[p][r]
             \/ scan'[p] = [scan[p] EXCEPT !.pageFailed = TRUE]
    PROVE  RecoverySound'
<1> SUFFICES ASSUME NEW p \in Controls, NEW r \in old'[p]
             PROVE  /\ record'[r] # Absent
                    /\ NeedsReconciliation(record'[r]) =>
                         ~Ready(p)' /\ StillToRecover(scan'[p], page'[p][r], r)
  BY DEF RecoverySound
<1>1. r \in old[p] /\ r \in Runs /\ scan[p] \in Scans
  BY DEF ControlInv, TypeOK
<1>2. record'[r] # Absent /\ (NeedsReconciliation(record'[r]) => NeedsReconciliation(record[r]))
  BY <1>1 DEF ControlInv, RecoverySound, RecordsAdvance, Advances
<1>3. NeedsReconciliation(record'[r]) => ~Ready(p) /\ StillToRecover(scan[p], page[p][r], r)
  BY <1>1, <1>2 DEF ControlInv, RecoverySound
<1>4. CASE scan'[p] = scan[p] /\ page'[p][r] = page[p][r]
  BY <1>2, <1>3, <1>4 DEF Ready
<1>5. CASE scan'[p] = [scan[p] EXCEPT !.pageFailed = TRUE]
  <2>1. /\ scan'[p].pageFailed /\ scan'[p].open = scan[p].open
        /\ scan'[p].scanFailed = scan[p].scanFailed /\ scan'[p].cursor = scan[p].cursor
        /\ scan'[p].recovered = scan[p].recovered /\ scan'[p].lastFailed = scan[p].lastFailed
    BY <1>1, <1>5 DEF Scans
  <2> QED BY <1>2, <1>3, <2>1 DEF Ready, StillToRecover
<1> QED BY <1>4, <1>5

\* The end of an item, or no change to the scan.
LEMMA ItemStep ==
    ASSUME ControlInv, NEW p \in Controls, op[p] # Idle, RecordsAdvance, FreshShrinks,
           ItemDone(p) \/ ItemFailed(p) \/ UNCHANGED <<page, old, scan>>
    PROVE  /\ page' \in [Controls -> [Runs -> Snapshots]]
           /\ old' \in [Controls -> SUBSET Runs]
           /\ scan' \in [Controls -> Scans]
           /\ PagesSound' /\ RecoverySound'
<1> DEFINE r == op[p].run
<1>1. r \in Runs /\ TypeOK
  BY MutationInProgress DEF ControlInv
<1>2. /\ page \in [Controls -> [Runs -> Snapshots]] /\ old \in [Controls -> SUBSET Runs]
      /\ scan \in [Controls -> Scans] /\ Absent \in Snapshots
  BY <1>1, RecordTypes DEF TypeOK
<1>3. CASE UNCHANGED <<page, old, scan>>
  BY <1>2, <1>3, PagesStep, RecoveryStep DEF ControlInv
<1>4. CASE /\ page' = [page EXCEPT ![p][r] = Absent]
           /\ old' = [old EXCEPT ![p] = @ \ {r}]
           /\ UNCHANGED scan
  <2>1. page' \in [Controls -> [Runs -> Snapshots]] /\ old' \in [Controls -> SUBSET Runs]
    BY <1>1, <1>2, <1>4
  <2>2. \A q \in Controls, s \in Runs : page'[q][s] \in {page[q][s], Absent}
    BY <1>1, <1>2, <1>4
  <2>3. \A q \in Controls : old'[q] \subseteq old[q]
    BY <1>2, <1>4
  <2>4. \A q \in Controls : \A s \in old'[q] : page'[q][s] = page[q][s]
    BY <1>1, <1>2, <1>4
  <2>5. PagesSound'
    BY <2>2, PagesStep DEF ControlInv
  <2>6. RecoverySound'
    BY <2>3, <2>4, <1>4, RecoveryStep
  <2> QED BY <1>2, <1>4, <2>1, <2>5, <2>6
<1>5. CASE /\ page' = [page EXCEPT ![p][r] = Absent]
           /\ scan' = [scan EXCEPT ![p] = [@ EXCEPT !.pageFailed = TRUE]]
           /\ UNCHANGED old
  <2>1. page' \in [Controls -> [Runs -> Snapshots]]
    BY <1>1, <1>2, <1>5
  <2>2. \A q \in Controls, s \in Runs : page'[q][s] \in {page[q][s], Absent}
    BY <1>1, <1>2, <1>5
  <2>3. [scan[p] EXCEPT !.pageFailed = TRUE] \in Scans
    BY <1>2, ScanUpdates
  <2>4. scan' \in [Controls -> Scans]
    BY <1>2, <1>5, <2>3
  <2>5. \A q \in Controls :
          \/ scan'[q] = scan[q] /\ \A s \in old'[q] : page'[q][s] = page[q][s]
          \/ scan'[q] = [scan[q] EXCEPT !.pageFailed = TRUE]
    BY <1>1, <1>2, <1>5
  <2>6. PagesSound'
    BY <2>2, PagesStep DEF ControlInv
  <2>7. RecoverySound'
    BY <1>5, <2>5, RecoveryStep
  <2> QED BY <1>2, <1>5, <2>1, <2>4, <2>6, <2>7
<1> QED BY <1>3, <1>4, <1>5 DEF ItemDone, ItemFailed

\* No change to the scan.
LEMMA ScanUnchanged ==
    ASSUME ControlInv, RecordsAdvance, FreshShrinks, UNCHANGED <<page, old, scan>>
    PROVE  PagesSound' /\ RecoverySound'
BY PagesStep, RecoveryStep DEF ControlInv

\* No change to a record or an execution.
LEMMA RunsUnchanged ==
    ASSUME ControlInv, UNCHANGED <<record, execution>>
    PROVE  RunsSound' /\ RecordsAdvance /\ Undisturbed /\ (UNCHANGED fresh => FreshShrinks)
BY DEF ControlInv, RunsSound, OperationsSound, RecordsAdvance, Undisturbed, FreshShrinks

\* The variables that only have a type to keep.
LedgerTypeOK ==
    /\ entry \subseteq Runs
    /\ attempts \subseteq Runs \X Attempts
    /\ claims \in [Runs -> Answer] /\ told \in [Runs -> Answer]
    /\ requests \in Nat /\ faults \in Nat

\* A mutation that makes a call which changes no record and no execution.
LEMMA QuietMutation ==
    ASSUME ControlInv, NEW p \in Controls, NEW o, op[p] # Idle, Continue(p, o),
           \/ o = Idle
           \/ o \in Mutations /\ OperationSound(o, record[o.run], execution[o.run][1]),
           UNCHANGED <<record, execution, fresh>>,
           ItemDone(p) \/ ItemFailed(p) \/ UNCHANGED <<page, old, scan>>,
           LedgerTypeOK'
    PROVE  ControlInv'
<1>1. RunsSound' /\ RecordsAdvance /\ Undisturbed /\ FreshShrinks
  BY RunsUnchanged
<1>2. op' \in [Controls -> Operations] /\ OperationsSound'
  BY <1>1, OperationReplaced DEF ControlInv, Continue
<1>3. /\ page' \in [Controls -> [Runs -> Snapshots]]
      /\ old' \in [Controls -> SUBSET Runs]
      /\ scan' \in [Controls -> Scans]
      /\ PagesSound' /\ RecoverySound'
  BY <1>1, ItemStep
<1> QED BY <1>1, <1>2, <1>3 DEF ControlInv, TypeOK, LedgerTypeOK

\* A claim creates or finds the record of r.
LEMMA ClaimRecord ==
    ASSUME ControlInv, NEW r \in Runs, record' = [record EXCEPT ![r] = Claimed(r)],
           UNCHANGED <<execution, fresh>>
    PROVE  /\ record' \in [Runs -> Snapshots] /\ record'[r] = Claimed(r)
           /\ Claimed(r) \in Snapshots /\ Claimed(r) # Absent
           /\ RunsSound' /\ RecordsAdvance /\ FreshShrinks /\ Undisturbed
<1>1. record \in [Runs -> Snapshots] /\ record[r] \in Snapshots
  BY DEF ControlInv, TypeOK
<1>2. Claimed(r) \in Snapshots /\ Claimed(r) # Absent
  BY <1>1, RecordTypes DEF Claimed
<1>3. /\ record' \in [Runs -> Snapshots] /\ record'[r] = Claimed(r)
      /\ \A s \in Runs : s # r => record'[s] = record[s]
  BY <1>1, <1>2
<1>4. CASE record[r] # Absent
  <2>1. record' = record
    BY <1>1, <1>4 DEF Claimed
  <2> QED BY <1>2, <1>3, <2>1, RunsUnchanged
<1>5. CASE record[r] = Absent
  <2>1. record'[r] = Queued
    BY <1>3, <1>5 DEF Claimed
  <2>2. Advances(record[r], Queued)
    BY <1>5, RecordTypes, QueuedFields DEF Advances, Absent, NeedsReconciliation
  <2>3. RecordsAdvance
    BY <1>3, <2>1, <2>2 DEF RecordsAdvance
  <2>4. FreshShrinks
    BY <1>3, <1>5 DEF FreshShrinks
  <2>5. RunSound(Queued, execution[r][1])
    BY <1>5, QueuedFields, RecordTypes DEF ControlInv, RunsSound, RunSound, Written
  <2>6. RunsSound'
    BY <1>3, <2>1, <2>5 DEF ControlInv, RunsSound
  <2>7. ASSUME NEW q \in Controls, op[q] # Idle
        PROVE  OperationSound(op[q], record'[op[q].run], execution'[op[q].run][1])
    <3>1. OperationSound(op[q], record[op[q].run], execution[op[q].run][1]) /\ op[q].run \in Runs
      BY <2>7, MutationInProgress DEF ControlInv, OperationsSound
    <3>2. CASE op[q].run # r
      BY <1>3, <3>1, <3>2
    <3>3. CASE op[q].run = r
      <4>1. OperationSound(op[q], Absent, execution[r][1])
        BY <1>5, <3>1, <3>3
      <4>2. Behind(op[q].snap, Queued)
        BY <2>2, <1>5, <4>1, BehindAdvances DEF OperationSound
      <4>3. OperationSound(op[q], Queued, execution[r][1])
        BY <4>1, <4>2, RecordTypes DEF OperationSound
      <4> QED BY <2>1, <3>3, <4>3
    <3> QED BY <3>2, <3>3
  <2> QED BY <1>2, <1>3, <2>3, <2>4, <2>6, <2>7 DEF Undisturbed
<1> QED BY <1>4, <1>5

\* Where a dispatch starts.
LEMMA DispatchSound ==
    ASSUME ControlInv, NEW p \in Controls, NEW r \in Runs, NEW snap \in Snapshots,
           Dispatch(p, "start", r, snap), Undisturbed,
           record'[r] = snap, snap # Absent, Written(snap)
    PROVE  op' \in [Controls -> Operations] /\ OperationsSound'
<1> DEFINE o == IF snap.state \in {"queued", "retrying"}
                THEN [kind |-> "start", step |-> "append", run |-> r, snap |-> snap,
                      current |-> TRUE, next |-> Absent]
                ELSE Idle
<1>1. op' = [op EXCEPT ![p] = o]
  BY DEF Dispatch, Continue
<1>2. CASE snap.state \in {"queued", "retrying"}
  <2>1. snap = Queued
    BY <1>2, RecordTypes DEF Written, Withdrawn
  <2>2. o \in Mutations /\ o.run = r
    BY <1>2, RecordTypes DEF Mutations, Step
  <2>3. OperationSound(o, snap, execution'[r][1])
    BY <1>2, <2>1, QueuedFields DEF OperationSound, Behind
  <2> HIDE DEF o
  <2> QED BY <1>1, <2>2, <2>3, OperationReplaced DEF ControlInv
<1>3. CASE ~(snap.state \in {"queued", "retrying"})
  <2>1. o = Idle
    BY <1>3
  <2> HIDE DEF o
  <2> QED BY <1>1, <2>1, OperationReplaced DEF ControlInv
<1> QED BY <1>2, <1>3

-----------------------------------------------------------------------------
(***************************************************************************)
(* One lemma per action.                                                   *)
(***************************************************************************)

LEMMA ClaimStep ==
    ASSUME ControlInv, NEW p \in Controls, NEW r \in Runs, Claim(p, r)
    PROVE  ControlInv'
<1> USE DEF ControlInv
<1>1. /\ LedgerTypeOK' /\ op[p] = Idle
      /\ UNCHANGED <<execution, page, fresh, scan, old>>
  BY DEF Claim, TypeOK, LedgerTypeOK
<1>2. /\ page' \in [Controls -> [Runs -> Snapshots]] /\ fresh' \in [Controls -> SUBSET Runs]
      /\ scan' \in [Controls -> Scans] /\ old' \in [Controls -> SUBSET Runs]
      /\ execution' \in [Runs -> [Attempts -> Executions]]
  BY <1>1 DEF TypeOK
<1>3. CASE RunStore = "postgresql"
  <2>1. record' = [record EXCEPT ![r] = Claimed(r)] /\ Dispatch(p, "start", r, Claimed(r))
    BY <1>3 DEF Claim
  <2>2. /\ record' \in [Runs -> Snapshots] /\ record'[r] = Claimed(r)
        /\ Claimed(r) \in Snapshots /\ Claimed(r) # Absent
        /\ RunsSound' /\ RecordsAdvance /\ FreshShrinks /\ Undisturbed
    BY <1>1, <2>1, ClaimRecord
  <2>3. Written(Claimed(r))
    BY <2>2 DEF RunsSound, RunSound
  <2>4. op' \in [Controls -> Operations] /\ OperationsSound'
    BY <2>1, <2>2, <2>3, DispatchSound
  <2>5. PagesSound' /\ RecoverySound'
    BY <1>1, <2>2, ScanUnchanged
  <2> QED BY <1>1, <1>2, <2>2, <2>4, <2>5 DEF TypeOK, LedgerTypeOK
<1>4. CASE RunStore # "postgresql"
  <2> DEFINE o == [kind |-> "start", step |-> "snapshot", run |-> r, snap |-> Absent,
                   current |-> FALSE, next |-> Absent]
  <2>1. UNCHANGED record /\ op' = [op EXCEPT ![p] = o]
    BY <1>4 DEF Claim, Continue
  <2>2. RunsSound' /\ RecordsAdvance /\ Undisturbed /\ FreshShrinks
    BY <1>1, <2>1, RunsUnchanged
  <2>3. o \in Mutations /\ o.run = r
    BY RecordTypes DEF Mutations, Step
  <2>4. OperationSound(o, record'[r], execution'[r][1])
    BY DEF OperationSound, Behind, Written, Absent
  <2> HIDE DEF o
  <2>5. op' \in [Controls -> Operations] /\ OperationsSound'
    BY <2>1, <2>2, <2>3, <2>4, OperationReplaced
  <2>6. PagesSound' /\ RecoverySound'
    BY <1>1, <2>2, ScanUnchanged
  <2>7. record' \in [Runs -> Snapshots]
    BY <2>1 DEF TypeOK
  <2> QED BY <1>1, <1>2, <2>2, <2>5, <2>6, <2>7 DEF TypeOK, LedgerTypeOK
<1> QED BY <1>3, <1>4

LEMMA CreateSnapshotStep ==
    ASSUME ControlInv, NEW p \in Controls, CreateSnapshot(p)
    PROVE  ControlInv'
<1> USE DEF ControlInv
<1> DEFINE r == op[p].run
<1>1. op[p] # Idle
  BY DEF CreateSnapshot, At, Idle
<1>2. r \in Runs
  BY <1>1, MutationInProgress
<1>3. /\ record' = [record EXCEPT ![r] = Claimed(r)] /\ Dispatch(p, "start", r, Claimed(r))
      /\ UNCHANGED <<entry, attempts, claims, told, execution, page, fresh, scan, old,
                     requests, faults>>
  BY DEF CreateSnapshot
<1>4. /\ record' \in [Runs -> Snapshots] /\ record'[r] = Claimed(r)
      /\ Claimed(r) \in Snapshots /\ Claimed(r) # Absent
      /\ RunsSound' /\ RecordsAdvance /\ FreshShrinks /\ Undisturbed
  BY <1>2, <1>3, ClaimRecord
<1>5. Written(Claimed(r))
  BY <1>2, <1>4 DEF RunsSound, RunSound
<1>6. op' \in [Controls -> Operations] /\ OperationsSound'
  BY <1>2, <1>3, <1>4, <1>5, DispatchSound
<1>7. PagesSound' /\ RecoverySound'
  BY <1>3, <1>4, ScanUnchanged
<1> QED BY <1>3, <1>4, <1>6, <1>7 DEF TypeOK

LEMMA RepairSnapshotStep ==
    ASSUME ControlInv, NEW r \in Runs, RepairSnapshot(r)
    PROVE  ControlInv'
<1> USE DEF ControlInv
<1>1. /\ record' = [record EXCEPT ![r] = Claimed(r)]
      /\ UNCHANGED <<entry, attempts, claims, told, execution, op, page, fresh, scan, old,
                     requests, faults>>
  BY DEF RepairSnapshot, Claimed
<1>2. /\ record' \in [Runs -> Snapshots]
      /\ RunsSound' /\ RecordsAdvance /\ FreshShrinks /\ Undisturbed
  BY <1>1, ClaimRecord
<1>3. OperationsSound'
  BY <1>1, <1>2 DEF Undisturbed, OperationsSound
<1>4. PagesSound' /\ RecoverySound'
  BY <1>1, <1>2, ScanUnchanged
<1> QED BY <1>1, <1>2, <1>3, <1>4 DEF TypeOK

\* The facts that an action of the mutation of p starts from.
LEMMA MutationFacts ==
    ASSUME ControlInv, NEW p \in Controls, op[p].step \in Step
    PROVE  /\ op[p] # Idle
           /\ op[p] \in Mutations /\ op[p].run \in Runs
           /\ op[p].snap \in Snapshots /\ op[p].next \in Snapshots
           /\ record[op[p].run] \in Snapshots
           /\ execution[op[p].run][1] \in Executions
           /\ OperationSound(op[p], record[op[p].run], execution[op[p].run][1])
           /\ RunSound(record[op[p].run], execution[op[p].run][1])
<1>1. op[p] # Idle
  BY DEF Idle, Step
<1> QED BY <1>1, MutationInProgress DEF ControlInv, OperationsSound, RunsSound

LEMMA AppendAttemptStep ==
    ASSUME ControlInv, NEW p \in Controls, AppendAttempt(p)
    PROVE  ControlInv'
<1> DEFINE o == op[p]
           r == op[p].run
<1>1. o.step = "append" /\ o.step \in Step
  BY DEF AppendAttempt, At, Step
<1>2. /\ o # Idle /\ o \in Mutations /\ r \in Runs /\ o.snap = Queued
      /\ OperationSound(o, record[r], execution[r][1])
  BY <1>1, MutationFacts DEF OperationSound
<1>3. AttemptNumber(r, o.snap) = 1 /\ 1 <= MaxAttempts /\ 1 \in Attempts
  BY <1>2, QueuedFields, RunRecordAssumption DEF AttemptNumber, Attempts
<1>4. /\ attempts' = attempts \union {<<r, 1>>}
      /\ Continue(p, WillSave(o, "submit", Dispatched))
      /\ UNCHANGED <<page, old, scan, record, entry, claims, told, execution, fresh,
                     requests, faults>>
  BY <1>2, <1>3 DEF AppendAttempt, Dispatched
<1> DEFINE n == WillSave(o, "submit", Dispatched)
<1>5. "submit" \in Step
  BY DEF Step
<1>6. /\ n \in Mutations /\ n.step = "submit" /\ n.next = Dispatched /\ n.run = r
      /\ n.snap = o.snap /\ n.current = o.current
  BY <1>2, <1>5, RecordTypes, WillSaveFields
<1> HIDE DEF n
<1>7. OperationSound(n, record[r], execution[r][1])
  BY <1>1, <1>2, <1>6 DEF OperationSound
<1>8. LedgerTypeOK'
  BY <1>2, <1>3, <1>4 DEF LedgerTypeOK, ControlInv, TypeOK
<1> QED BY <1>2, <1>4, <1>6, <1>7, <1>8, QuietMutation DEF n

\* The execution of r changes.
LEMMA ExecutionChanged ==
    ASSUME ControlInv, NEW r \in Runs, NEW e \in Executions, record[r] # Absent,
           execution' = [execution EXCEPT ![r][1] = e], UNCHANGED record,
           Forward(execution[r][1], e)
    PROVE  /\ execution' \in [Runs -> [Attempts -> Executions]] /\ execution'[r][1] = e
           /\ RunsSound' /\ RecordsAdvance /\ Undisturbed
<1>1. execution \in [Runs -> [Attempts -> Executions]] /\ 1 \in Attempts
  BY FirstAttempt DEF ControlInv, TypeOK
<1>2. /\ execution' \in [Runs -> [Attempts -> Executions]] /\ execution'[r][1] = e
      /\ \A s \in Runs : s # r => execution'[s][1] = execution[s][1]
      /\ \A s \in Runs, a \in Attempts : a # 1 => execution'[s][a] = execution[s][a]
  BY <1>1
<1>3. RunSound(record[r], e)
  BY RunForward DEF ControlInv, RunsSound
<1>4. RunsSound'
  BY <1>2, <1>3 DEF ControlInv, RunsSound
<1>5. ASSUME NEW q \in Controls, op[q] # Idle
      PROVE  OperationSound(op[q], record'[op[q].run], execution'[op[q].run][1])
  <2>1. OperationSound(op[q], record[op[q].run], execution[op[q].run][1]) /\ op[q].run \in Runs
    BY <1>5, MutationInProgress DEF ControlInv, OperationsSound
  <2>2. CASE op[q].run = r
    BY <1>2, <2>1, <2>2, OperationForward
  <2>3. CASE op[q].run # r
    BY <1>2, <2>1, <2>3
  <2> QED BY <2>2, <2>3
<1>6. RecordsAdvance
  BY DEF RecordsAdvance
<1> QED BY <1>2, <1>4, <1>5, <1>6 DEF Undisturbed

\* A step of the mutation of p that changes at most its execution.
LEMMA ExecutionMutation ==
    ASSUME ControlInv, NEW p \in Controls, NEW o, op[p] # Idle, Continue(p, o),
           \/ o = Idle
           \/ o \in Mutations /\ OperationSound(o, record'[o.run], execution'[o.run][1]),
           execution' \in [Runs -> [Attempts -> Executions]],
           RunsSound', RecordsAdvance, Undisturbed,
           UNCHANGED <<record, fresh, page, old, scan>>, LedgerTypeOK'
    PROVE  ControlInv'
<1>1. op' \in [Controls -> Operations] /\ OperationsSound'
  BY OperationReplaced DEF ControlInv, Continue
<1>2. FreshShrinks
  BY DEF FreshShrinks
<1>3. PagesSound' /\ RecoverySound'
  BY <1>2, ScanUnchanged
<1> QED BY <1>1, <1>3 DEF ControlInv, TypeOK, LedgerTypeOK

\* Starting an execution.
LEMMA StartedForward ==
    /\ Started \in Executions /\ Started.phase # "none"
    /\ Forward(NoExecution, Started)
BY DEF Started, Executions, Phase, Ended, NoExecution, Forward

LEMMA SubmitStep ==
    ASSUME ControlInv, NEW p \in Controls, Submit(p)
    PROVE  ControlInv'
<1> DEFINE o == op[p]
           r == op[p].run
           n == [o EXCEPT !.step = "saveRunning"]
<1>1. o.step = "submit" /\ o.step \in Step
  BY DEF Submit, At, Step
<1>2. /\ o # Idle /\ o \in Mutations /\ r \in Runs /\ o.next = Dispatched
      /\ OperationSound(o, record[r], execution[r][1]) /\ record[r] # Absent
      /\ RunSound(record[r], execution[r][1])
  BY <1>1, MutationFacts DEF OperationSound
<1>3. o.next.attempt = 1
  BY <1>2 DEF Dispatched, Running
<1>4. /\ execution' = IF execution[r][1] = NoExecution
                      THEN [execution EXCEPT ![r][1] = Started] ELSE execution
      /\ Continue(p, n)
      /\ UNCHANGED <<record, entry, attempts, claims, told, page, fresh, scan, old,
                     requests, faults>>
  BY <1>3 DEF Submit, Goto, storeVars
<1>5. LedgerTypeOK'
  BY <1>4 DEF LedgerTypeOK, ControlInv, TypeOK
<1>6. /\ execution' \in [Runs -> [Attempts -> Executions]] /\ execution'[r][1].phase # "none"
      /\ RunsSound' /\ RecordsAdvance /\ Undisturbed
  <2>1. CASE execution[r][1] = NoExecution
    BY <1>2, <1>4, <2>1, StartedForward, ExecutionChanged
  <2>2. CASE execution[r][1] # NoExecution
    <3>1. execution' = execution /\ execution[r][1].phase # "none"
      BY <1>2, <1>4, <2>2 DEF RunSound
    <3> QED BY <1>4, <3>1, RunsUnchanged DEF ControlInv, TypeOK
  <2> QED BY <2>1, <2>2
<1>7. /\ n \in Mutations /\ n.step = "saveRunning" /\ n.run = r /\ n.snap = o.snap
      /\ n.next = o.next /\ n.current = o.current
  BY <1>2 DEF Mutations, Step
<1>8. OperationSound(o, record'[r], execution'[r][1])
  BY <1>2, <1>6 DEF Undisturbed
<1> HIDE DEF n
<1>9. OperationSound(n, record'[n.run], execution'[n.run][1])
  BY <1>1, <1>6, <1>7, <1>8 DEF OperationSound
<1> QED BY <1>2, <1>4, <1>5, <1>6, <1>7, <1>9, ExecutionMutation

\* A save that ends the mutation of p.
LEMMA SaveEnds ==
    ASSUME ControlInv, NEW p \in Controls, NEW rec \in Snapshots, NEW next, op[p] # Idle,
           SaveRecord(p, rec, next), execution' = execution,
           RunSound(rec, execution[op[p].run][1]),
           Advances(record[op[p].run], rec),
           \/ next = Idle
           \/ /\ next \in Mutations /\ next.run = op[p].run
              /\ OperationSound(next, rec, execution[op[p].run][1]),
           ItemDone(p) \/ ItemFailed(p) \/ UNCHANGED <<page, old, scan>>,
           LedgerTypeOK'
    PROVE  ControlInv'
<1>1. /\ record' \in [Runs -> Snapshots]
      /\ op' \in [Controls -> Operations]
      /\ fresh' \in [Controls -> SUBSET Runs]
      /\ RunsSound' /\ OperationsSound'
      /\ RecordsAdvance /\ FreshShrinks
  BY SaveStep
<1>2. /\ page' \in [Controls -> [Runs -> Snapshots]]
      /\ old' \in [Controls -> SUBSET Runs]
      /\ scan' \in [Controls -> Scans]
      /\ PagesSound' /\ RecoverySound'
  BY <1>1, ItemStep
<1> QED BY <1>1, <1>2 DEF ControlInv, TypeOK, LedgerTypeOK

LEMMA SaveRunningStep ==
    ASSUME ControlInv, NEW p \in Controls, SaveRunning(p)
    PROVE  ControlInv'
<1> DEFINE o == op[p]
           r == op[p].run
<1>1. o.step = "saveRunning" /\ o.step \in Step
  BY DEF SaveRunning, At, Step
<1>2. /\ SaveRecord(p, o.next, Idle) /\ ItemDone(p) /\ o.current
      /\ UNCHANGED <<entry, attempts, claims, told, execution, requests, faults>>
  BY DEF SaveRunning, SaveRecord
<1>3. /\ o # Idle /\ r \in Runs /\ o.next = Dispatched /\ record[r] = Queued
      /\ execution[r][1].phase # "none" /\ RunSound(record[r], execution[r][1])
  BY <1>1, <1>2, MutationFacts DEF OperationSound
<1>4. /\ Dispatched.state = "running" /\ Dispatched.attempt = 1 /\ Dispatched # Absent
      /\ Dispatched \in Snapshots
  BY RecordTypes DEF Dispatched, Running
<1>5. RunSound(Dispatched, execution[r][1])
  BY <1>3, <1>4 DEF RunSound, Written
<1>6. Advances(record[r], Dispatched)
  BY <1>3, <1>4, QueuedFields DEF Advances, NeedsReconciliation
<1>7. LedgerTypeOK'
  BY <1>2 DEF LedgerTypeOK, ControlInv, TypeOK
<1> QED BY <1>2, <1>3, <1>4, <1>5, <1>6, <1>7, SaveEnds

LEMMA SaveConflictStep ==
    ASSUME ControlInv, NEW p \in Controls, SaveConflict(p)
    PROVE  ControlInv'
<1>1. op[p] # Idle
  BY DEF SaveConflict, Idle
<1>2. LedgerTypeOK' /\ UNCHANGED <<record, execution, fresh>>
  BY DEF SaveConflict, storeVars, LedgerTypeOK, ControlInv, TypeOK
<1> QED BY <1>1, <1>2, QuietMutation DEF SaveConflict

LEMMA CallFailsStep ==
    ASSUME ControlInv, NEW p \in Controls, CallFails(p)
    PROVE  ControlInv'
<1>1. LedgerTypeOK' /\ UNCHANGED <<record, execution, fresh>>
  BY DEF CallFails, AddFault, storeVars, LedgerTypeOK, ControlInv, TypeOK
<1> QED BY <1>1, QuietMutation DEF CallFails

\* A step that takes up or drops a mutation and leaves everything else alone.
LEMMA QuietOperation ==
    ASSUME ControlInv, NEW p \in Controls, NEW o, Continue(p, o),
           \/ o = Idle
           \/ o \in Mutations /\ OperationSound(o, record[o.run], execution[o.run][1]),
           UNCHANGED <<record, execution, fresh, page, old, scan>>,
           LedgerTypeOK'
    PROVE  ControlInv'
<1>1. RunsSound' /\ RecordsAdvance /\ Undisturbed /\ FreshShrinks
  BY RunsUnchanged
<1>2. op' \in [Controls -> Operations] /\ OperationsSound'
  BY <1>1, OperationReplaced DEF ControlInv, Continue
<1>3. PagesSound' /\ RecoverySound'
  BY <1>1, ScanUnchanged
<1> QED BY <1>1, <1>2, <1>3 DEF ControlInv, TypeOK, LedgerTypeOK

LEMMA CancelReadStep ==
    ASSUME ControlInv, NEW p \in Controls, NEW r \in Runs, CancelRead(p, r)
    PROVE  ControlInv'
<1> DEFINE o == [kind |-> "cancel", step |-> "claim", run |-> r, snap |-> record[r],
                 current |-> TRUE, next |-> Absent]
<1>1. record[r] # Absent /\ Continue(p, o) /\ LedgerTypeOK'
      /\ UNCHANGED <<record, execution, fresh, page, old, scan>>
  BY DEF CancelRead, storeVars, LedgerTypeOK, ControlInv, TypeOK
<1>2. record[r] \in Snapshots /\ Written(record[r])
  BY DEF ControlInv, TypeOK, RunsSound, RunSound
<1>3. o \in Mutations /\ o.run = r
  BY <1>2, RecordTypes DEF Mutations, Step
<1>4. OperationSound(o, record[r], execution[r][1])
  BY <1>1, <1>2 DEF OperationSound, Behind
<1> HIDE DEF o
<1> QED BY <1>1, <1>3, <1>4, QuietOperation

LEMMA CancelClaimStep ==
    ASSUME ControlInv, NEW p \in Controls, CancelClaim(p)
    PROVE  ControlInv'
<1> DEFINE o == op[p]
           n == [o EXCEPT !.step = "decide"]
<1>1. o.step = "claim" /\ o.step \in Step
  BY DEF CancelClaim, At, Step
<1>2. /\ o # Idle /\ o \in Mutations /\ o.run \in Runs
      /\ OperationSound(o, record[o.run], execution[o.run][1])
  BY <1>1, MutationFacts
<1>3. \A rec : Planned(rec) \in Answer
  BY DEF Planned, Answer
<1>4. claims' \in [Runs -> Answer]
  BY <1>2, <1>3 DEF CancelClaim, ControlInv, TypeOK
<1>5. Continue(p, n) /\ LedgerTypeOK'
      /\ UNCHANGED <<record, execution, fresh, page, old, scan>>
  BY <1>4 DEF CancelClaim, Goto, LedgerTypeOK, ControlInv, TypeOK
<1>6. /\ n \in Mutations /\ n.step = "decide" /\ n.run = o.run /\ n.snap = o.snap
      /\ n.current = o.current
  BY <1>2 DEF Mutations, Step
<1> HIDE DEF n
<1>7. OperationSound(n, record[n.run], execution[n.run][1])
  BY <1>1, <1>2, <1>6 DEF OperationSound
<1> QED BY <1>5, <1>6, <1>7, QuietOperation

LEMMA CancelDecideStep ==
    ASSUME ControlInv, NEW p \in Controls, CancelDecide(p)
    PROVE  ControlInv'
<1> DEFINE o == op[p]
           r == op[p].run
           step == CancelStep(record[r].state)
           n == HasRead(o, step, record[r])
<1>1. o.step = "decide" /\ o.step \in Step
  BY DEF CancelDecide, At, Step
<1>2. /\ o \in Mutations /\ r \in Runs /\ record[r] # Absent /\ record[r] \in Snapshots
      /\ Written(record[r])
  BY <1>1, MutationFacts DEF OperationSound, RunSound
<1>3. LedgerTypeOK' /\ UNCHANGED <<record, execution, fresh, page, old, scan>>
  <2>1. claims[r] \in Answer /\ told \in [Runs -> Answer]
    BY <1>2 DEF ControlInv, TypeOK
  <2>2. told' \in [Runs -> Answer]
    BY <1>2, <2>1 DEF CancelDecide
  <2> QED BY <2>2 DEF CancelDecide, storeVars, LedgerTypeOK, ControlInv, TypeOK
<1>4. CASE record[r].state = "terminal"
  BY <1>3, <1>4, QuietOperation DEF CancelDecide
<1>5. CASE record[r].state # "terminal"
  <2>1. Continue(p, n)
    BY <1>5 DEF CancelDecide
  <2>2. record[r] = Queued \/ (record[r].attempt = 1 /\ record[r].state \in {"running", "canceling"})
    BY <1>2, <1>5 DEF Written, Withdrawn
  <2>3. /\ step \in Step
        /\ step \in {"saveCanceled", "saveCanceling", "stop"}
        /\ step = "saveCanceled" => record[r] = Queued
        /\ step = "saveCanceling" => record[r].state = "running"
        /\ step = "stop" => record[r].state = "canceling"
    BY <2>2, QueuedFields DEF CancelStep, Step
  <2> HIDE DEF step
  <2>4. n \in Mutations /\ n.step = step /\ n.snap = record[r] /\ n.run = r
    BY <1>2, <2>3, HasReadFields
  <2> HIDE DEF n
  <2>5. OperationSound(n, record[r], execution[r][1])
    BY <1>2, <2>3, <2>4 DEF OperationSound, Behind
  <2> QED BY <1>3, <2>1, <2>4, <2>5, QuietOperation
<1> QED BY <1>4, <1>5

LEMMA SaveCanceledStep ==
    ASSUME ControlInv, NEW p \in Controls, SaveCanceled(p)
    PROVE  ControlInv'
<1> DEFINE o == op[p]
           r == op[p].run
<1>1. o.step = "saveCanceled" /\ o.step \in Step
  BY DEF SaveCanceled, At, Step
<1>2. /\ SaveRecord(p, Withdrawn(o.snap), Idle) /\ o.current
      /\ UNCHANGED <<entry, attempts, claims, execution, page, scan, old, requests, faults>>
  BY DEF SaveCanceled, SaveRecord
<1>3. /\ o # Idle /\ r \in Runs /\ o.snap = Queued /\ record[r] = Queued
      /\ RunSound(record[r], execution[r][1])
  BY <1>1, <1>2, MutationFacts DEF OperationSound
<1>4. /\ Withdrawn(Queued).state = "terminal" /\ Withdrawn(Queued).attempt = 0
      /\ Withdrawn(Queued) # Absent /\ Withdrawn(Queued) \in Snapshots
  BY RecordTypes, QueuedFields DEF Withdrawn
<1>5. RunSound(Withdrawn(Queued), execution[r][1])
  BY <1>3, <1>4 DEF RunSound, Written
<1>6. Advances(record[r], Withdrawn(Queued))
  BY <1>3, <1>4, QueuedFields DEF Advances, NeedsReconciliation
<1>7. LedgerTypeOK'
  <2>1. claims[r] \in Answer /\ told \in [Runs -> Answer]
    BY <1>3 DEF ControlInv, TypeOK
  <2>2. told' \in [Runs -> Answer]
    BY <1>3, <2>1 DEF SaveCanceled
  <2> QED BY <1>2, <2>2 DEF LedgerTypeOK, ControlInv, TypeOK
<1> QED BY <1>2, <1>3, <1>4, <1>5, <1>6, <1>7, SaveEnds

LEMMA SaveCancelingStep ==
    ASSUME ControlInv, NEW p \in Controls, SaveCanceling(p)
    PROVE  ControlInv'
<1> DEFINE o == op[p]
           r == op[p].run
           rec == [o.snap EXCEPT !.state = "canceling"]
           n == HasRead(o, "stop", rec)
<1>1. o.step = "saveCanceling" /\ o.step \in Step
  BY DEF SaveCanceling, At, Step
<1>2. /\ SaveRecord(p, rec, n) /\ o.current
      /\ UNCHANGED <<entry, attempts, claims, told, execution, page, scan, old, requests, faults>>
  BY DEF SaveCanceling, SaveRecord
<1>3. /\ o # Idle /\ o \in Mutations /\ r \in Runs /\ o.snap \in Snapshots
      /\ o.snap.state = "running" /\ record[r] = o.snap
      /\ RunSound(record[r], execution[r][1])
  BY <1>1, <1>2, MutationFacts DEF OperationSound
<1>4. o.snap.attempt = 1
  BY <1>3, QueuedFields DEF RunSound, Written, Absent, Withdrawn
<1>5. rec \in Snapshots
  BY <1>3, TransitionTypes
<1>6. rec.state = "canceling" /\ rec.attempt = 1
  <2>1. o.snap \in AnyRecord
    BY <1>3 DEF Snapshots, Records, Absent
  <2> QED BY <1>4, <2>1 DEF AnyRecord
<1>7. "stop" \in Step
  BY DEF Step
<1> HIDE DEF rec
<1>8. n \in Mutations /\ n.step = "stop" /\ n.snap = rec /\ n.run = r
  BY <1>3, <1>5, <1>7, HasReadFields
<1> HIDE DEF n
<1>9. rec # Absent
  BY <1>6 DEF Absent
<1>10. RunSound(rec, execution[r][1])
  BY <1>3, <1>4, <1>6, <1>9 DEF RunSound, Written
<1>11. Advances(record[r], rec)
  BY <1>3, <1>6, <1>9 DEF Advances, NeedsReconciliation
<1>12. OperationSound(n, rec, execution[r][1])
  BY <1>6, <1>8, <1>9 DEF OperationSound, Behind, Written
<1>13. LedgerTypeOK'
  BY <1>2 DEF LedgerTypeOK, ControlInv, TypeOK
<1> QED BY <1>2, <1>3, <1>5, <1>8, <1>10, <1>11, <1>12, <1>13, SaveEnds

LEMMA StopExecutionStep ==
    ASSUME ControlInv, NEW p \in Controls, StopExecution(p)
    PROVE  ControlInv'
<1> DEFINE o == op[p]
           r == op[p].run
           e == execution[r][1]
           n == [o EXCEPT !.step = "observe"]
<1>1. o.step = "stop" /\ o.step \in Step
  BY DEF StopExecution, At, Step
<1>2. /\ o # Idle /\ o \in Mutations /\ r \in Runs /\ o.snap \in Snapshots
      /\ o.snap.state = "canceling" /\ record[r] # Absent /\ e \in Executions
      /\ OperationSound(o, record[r], e)
  BY <1>1, MutationFacts DEF OperationSound
<1>3. o.snap.attempt = 1
  BY <1>2, QueuedFields DEF OperationSound, Behind, Written, Absent, Withdrawn
<1>4. LedgerTypeOK'
  <2>1. claims[r] \in Answer /\ told \in [Runs -> Answer]
    BY <1>2 DEF ControlInv, TypeOK
  <2>2. told' \in [Runs -> Answer]
    BY <1>2, <2>1 DEF StopExecution
  <2> QED BY <2>2 DEF StopExecution, storeVars, LedgerTypeOK, ControlInv, TypeOK
<1>5. CASE e.phase = "accepted"
  <2>1. /\ ItemFailed(p) /\ Continue(p, Idle) /\ UNCHANGED execution
        /\ UNCHANGED <<record, fresh>>
    BY <1>3, <1>5 DEF StopExecution, storeVars
  <2> QED BY <1>2, <1>4, <2>1, QuietMutation
<1>6. CASE e.phase # "accepted"
  <2>1. /\ execution' = IF e.phase = "running"
                        THEN [execution EXCEPT ![r][1] = [@ EXCEPT !.stop = TRUE]] ELSE execution
        /\ Continue(p, IF o.kind = "cancel" THEN Idle ELSE n)
        /\ UNCHANGED <<record, fresh, page, old, scan>>
    BY <1>3, <1>6 DEF StopExecution, Goto, storeVars
  <2>2. /\ execution' \in [Runs -> [Attempts -> Executions]]
        /\ RunsSound' /\ RecordsAdvance /\ Undisturbed
    <3>1. CASE e.phase = "running"
      <4> DEFINE new == [e EXCEPT !.stop = TRUE]
      <4>1. new \in Executions
        BY <1>2 DEF Executions
      <4>2. Forward(e, new)
        BY <1>2, <3>1 DEF Executions, Forward, Ended
      <4>3. execution' = [execution EXCEPT ![r][1] = new]
        BY <1>2, <2>1, <3>1, FirstAttempt DEF ControlInv, TypeOK
      <4> HIDE DEF new
      <4> QED BY <1>2, <2>1, <4>1, <4>2, <4>3, ExecutionChanged
    <3>2. CASE e.phase # "running"
      BY <2>1, <3>2, RunsUnchanged DEF ControlInv, TypeOK
    <3> QED BY <3>1, <3>2
  <2>3. /\ n \in Mutations /\ n.step = "observe" /\ n.run = r /\ n.snap = o.snap
        /\ n.next = o.next /\ n.current = o.current
    BY <1>2 DEF Mutations, Step
  <2>4. OperationSound(o, record'[r], execution'[r][1])
    BY <1>2, <2>2 DEF Undisturbed
  <2> HIDE DEF n
  <2>5. OperationSound(n, record'[n.run], execution'[n.run][1])
    BY <1>1, <1>3, <2>3, <2>4 DEF OperationSound
  <2>6. CASE o.kind = "cancel"
    BY <1>2, <1>4, <2>1, <2>2, <2>6, ExecutionMutation
  <2>7. CASE o.kind # "cancel"
    BY <1>2, <1>4, <2>1, <2>2, <2>3, <2>5, <2>7, ExecutionMutation
  <2> QED BY <2>6, <2>7
<1> QED BY <1>5, <1>6

LEMMA ReadPageStep ==
    ASSUME ControlInv, NEW p \in Controls, ReadPage(p)
    PROVE  ControlInv'
<1> DEFINE all == Listed(scan[p].cursor)
<1>1. ~scan[p].open /\ UNCHANGED <<record, execution, op, old>> /\ LedgerTypeOK'
  BY DEF ReadPage, storeVars, LedgerTypeOK, ControlInv, TypeOK
<1>2. PICK items \in SUBSET all, next \in Runs \union {0} :
        /\ FirstPage(items, all)
        /\ IsNextCursor(next, items, all)
        /\ page' = [page EXCEPT ![p] = [r \in Runs |-> IF r \in items THEN record[r] ELSE Absent]]
        /\ fresh' = [fresh EXCEPT ![p] = items]
        /\ scan' = [scan EXCEPT ![p] = Opened(@, next)]
  BY DEF ReadPage
<1>3. /\ record \in [Runs -> Snapshots] /\ page \in [Controls -> [Runs -> Snapshots]]
      /\ fresh \in [Controls -> SUBSET Runs] /\ scan \in [Controls -> Scans]
      /\ old \in [Controls -> SUBSET Runs] /\ scan[p] \in Scans
      /\ Absent \in Snapshots /\ all \subseteq Runs /\ items \subseteq Runs
  BY RecordTypes DEF ControlInv, TypeOK, Listed
<1>4. next \in Nat /\ Opened(scan[p], next) \in Scans
  <2>1. next \in Nat
    BY ControlAssumption
  <2> QED BY <1>3, <2>1, ScanUpdates
<1>5. /\ page' \in [Controls -> [Runs -> Snapshots]]
      /\ fresh' \in [Controls -> SUBSET Runs]
      /\ scan' \in [Controls -> Scans]
  BY <1>2, <1>3, <1>4
<1>6. RunsSound' /\ Undisturbed
  BY <1>1, RunsUnchanged
<1>7. OperationsSound'
  BY <1>1, <1>6 DEF Undisturbed, OperationsSound
<1>8. PagesSound'
  <2> SUFFICES ASSUME NEW q \in Controls, NEW r \in Runs
               PROVE  /\ Behind(page'[q][r], record'[r])
                      /\ r \in fresh'[q] => page'[q][r] \in {Absent, record'[r]}
    BY DEF PagesSound
  <2>1. CASE q # p
    BY <1>1, <1>2, <1>3, <2>1 DEF ControlInv, PagesSound
  <2>2. CASE q = p
    <3>1. page'[q][r] = IF r \in items THEN record[r] ELSE Absent
      BY <1>2, <1>3, <2>2
    <3>2. Written(record[r])
      BY DEF ControlInv, RunsSound, RunSound
    <3>3. Behind(record[r], record[r]) /\ Behind(Absent, record[r])
      BY <3>2 DEF Behind, Written, Absent
    <3> QED BY <1>1, <3>1, <3>3
  <2> QED BY <2>1, <2>2
<1>9. RecoverySound'
  <2> SUFFICES ASSUME NEW q \in Controls, NEW r \in old[q]
               PROVE  /\ record[r] # Absent
                      /\ NeedsReconciliation(record[r]) =>
                           ~Ready(q)' /\ StillToRecover(scan'[q], page'[q][r], r)
    BY <1>1 DEF RecoverySound
  <2>1. r \in Runs /\ record[r] # Absent
        /\ (NeedsReconciliation(record[r]) =>
              ~Ready(q) /\ StillToRecover(scan[q], page[q][r], r))
    BY <1>3 DEF ControlInv, RecoverySound
  <2>2. CASE q # p
    BY <1>2, <1>3, <2>1, <2>2 DEF Ready
  <2>3. CASE q = p /\ NeedsReconciliation(record[r])
    <3>1. /\ scan'[p] = Opened(scan[p], next)
          /\ page'[p][r] = IF r \in items THEN record[r] ELSE Absent
      BY <1>2, <1>3, <2>1
    <3>2. /\ scan'[p].open /\ scan'[p].next = next
          /\ scan'[p].scanFailed = scan[p].scanFailed
          /\ scan'[p].recovered = scan[p].recovered /\ scan'[p].lastFailed = scan[p].lastFailed
      BY <1>3, <3>1 DEF Opened, Scans
    <3>3. CASE scan[p].scanFailed
      BY <2>1, <2>3, <3>2, <3>3 DEF StillToRecover, Ready
    <3>4. CASE ~scan[p].scanFailed
      <4>1. r > scan[p].cursor
        BY <1>1, <2>1, <2>3, <3>4 DEF StillToRecover
      <4>2. r \in all
        BY <2>1, <2>3, <4>1 DEF Listed
      <4>3. CASE r \in items
        BY <2>1, <2>3, <3>1, <3>2, <4>3 DEF StillToRecover, Ready
      <4>4. CASE r \notin items
        <5>1. items # all /\ next \in items
          BY <1>2, <4>2, <4>4 DEF IsNextCursor
        <5>2. next < r
          BY <1>2, <4>2, <4>4, <5>1 DEF FirstPage
        <5>3. next \in Runs /\ r \in Nat /\ next \in Nat /\ next # 0
          BY <1>3, <2>1, <5>1, ControlAssumption
        <5> QED BY <2>1, <2>3, <3>2, <5>2, <5>3 DEF StillToRecover, Ready
      <4> QED BY <4>3, <4>4
    <3> QED BY <3>3, <3>4
  <2> QED BY <2>1, <2>2, <2>3
<1> QED BY <1>1, <1>5, <1>6, <1>7, <1>8, <1>9 DEF ControlInv, TypeOK, LedgerTypeOK

LEMMA FinishPageStep ==
    ASSUME ControlInv, NEW p \in Controls, FinishPage(p)
    PROVE  ControlInv'
<1>1. /\ scan[p].open /\ Pending(p) = {} /\ scan' = [scan EXCEPT ![p] = Marked(@)]
      /\ UNCHANGED <<record, execution, op, page, fresh, old>> /\ LedgerTypeOK'
  BY DEF FinishPage, storeVars, LedgerTypeOK, ControlInv, TypeOK
<1>2. /\ scan \in [Controls -> Scans] /\ scan[p] \in Scans
      /\ old \in [Controls -> SUBSET Runs]
  BY DEF ControlInv, TypeOK
<1>3. Marked(scan[p]) \in Scans
  BY <1>2, ScanUpdates
<1>4. scan' \in [Controls -> Scans]
  BY <1>1, <1>2, <1>3
<1>5. RunsSound' /\ Undisturbed /\ RecordsAdvance /\ FreshShrinks
  BY <1>1, RunsUnchanged
<1>6. OperationsSound'
  BY <1>1, <1>5 DEF Undisturbed, OperationsSound
<1>7. PagesSound'
  BY <1>1, <1>5, PagesStep DEF ControlInv
<1>8. RecoverySound'
  <2> SUFFICES ASSUME NEW q \in Controls, NEW r \in old[q]
               PROVE  /\ record[r] # Absent
                      /\ NeedsReconciliation(record[r]) =>
                           ~Ready(q)' /\ StillToRecover(scan'[q], page[q][r], r)
    BY <1>1 DEF RecoverySound
  <2>1. r \in Runs /\ record[r] # Absent
        /\ (NeedsReconciliation(record[r]) =>
              ~Ready(q) /\ StillToRecover(scan[q], page[q][r], r))
    BY <1>2 DEF ControlInv, RecoverySound
  <2>2. CASE q # p
    BY <1>1, <1>2, <2>1, <2>2 DEF Ready
  <2>3. CASE q = p /\ NeedsReconciliation(record[r])
    <3> DEFINE s == scan[p]
               n == Marked(s)
    <3>1. scan'[p] = n
      BY <1>1, <1>2
    <3>2. page[p][r] = Absent
      BY <1>1, <2>1 DEF Pending
    <3>3. s.scanFailed \/ s.pageFailed \/ (s.next # 0 /\ r > s.next)
      BY <1>1, <2>1, <2>3, <3>2 DEF StillToRecover
    <3>4. r \in Nat /\ r # 0
      BY <2>1, ControlAssumption
    <3>5. CASE s.next = 0
      <4>1. /\ ~n.open /\ n.cursor = 0 /\ ~n.scanFailed /\ n.recovered
            /\ n.lastFailed = (s.scanFailed \/ s.pageFailed)
        BY <1>2, <3>5 DEF Marked, Scans
      <4>2. n.lastFailed
        BY <3>3, <3>5, <4>1
      <4>3. r > n.cursor
        BY <3>4, <4>1
      <4> HIDE DEF n, s
      <4> QED BY <2>1, <2>3, <3>1, <4>1, <4>2, <4>3 DEF StillToRecover, Ready
    <3>6. CASE s.next # 0
      <4>1. /\ ~n.open /\ n.cursor = s.next /\ n.scanFailed = (s.scanFailed \/ s.pageFailed)
            /\ n.recovered = s.recovered /\ n.lastFailed = (s.lastFailed \/ s.pageFailed)
        BY <1>2, <3>6 DEF Marked, Scans
      <4>2. ~(s.recovered /\ ~s.lastFailed)
        BY <2>1, <2>3 DEF Ready
      <4>3. n.scanFailed \/ r > n.cursor
        BY <3>3, <4>1
      <4>4. ~(n.recovered /\ ~n.lastFailed)
        BY <4>1, <4>2
      <4> HIDE DEF n, s
      <4> QED BY <2>1, <2>3, <3>1, <4>1, <4>3, <4>4 DEF StillToRecover, Ready
    <3> QED BY <3>5, <3>6
  <2> QED BY <2>1, <2>2, <2>3
<1> QED BY <1>1, <1>4, <1>5, <1>6, <1>7, <1>8 DEF ControlInv, TypeOK, LedgerTypeOK

LEMMA TakeItemStep ==
    ASSUME ControlInv, NEW p \in Controls, TakeItem(p)
    PROVE  ControlInv'
<1>1. UNCHANGED <<record, execution, fresh, scan>> /\ LedgerTypeOK'
  BY DEF TakeItem, storeVars, LedgerTypeOK, ControlInv, TypeOK
<1>2. PICK r \in Pending(p) :
        IF HasWork(page[p][r])
        THEN /\ Continue(p, [kind |-> "reconcile", step |-> FirstStep(page[p][r]), run |-> r,
                             snap |-> page[p][r], current |-> r \in fresh[p],
                             next |-> Absent])
             /\ UNCHANGED <<page, old>>
        ELSE /\ page' = [page EXCEPT ![p][r] = Absent]
             /\ old' = [old EXCEPT ![p] = @ \ {r}]
             /\ UNCHANGED op
  BY DEF TakeItem
<1>3. /\ r \in Runs /\ page[p][r] # Absent /\ page[p][r] \in Snapshots
      /\ Behind(page[p][r], record[r])
      /\ r \in fresh[p] => page[p][r] = record[r]
  BY <1>2 DEF Pending, ControlInv, TypeOK, PagesSound
<1>4. RunsSound' /\ RecordsAdvance /\ Undisturbed /\ FreshShrinks
  BY <1>1, RunsUnchanged
<1>5. CASE HasWork(page[p][r])
  <2> DEFINE snap == page[p][r]
             step == FirstStep(snap)
             o == [kind |-> "reconcile", step |-> step, run |-> r, snap |-> snap,
                   current |-> r \in fresh[p], next |-> Absent]
  <2>1. Continue(p, o) /\ UNCHANGED <<page, old>>
    BY <1>2, <1>5
  <2>2. snap = Queued \/ (snap.attempt = 1 /\ snap.state \in {"running", "canceling", "terminal"})
    BY <1>3, <1>5 DEF Behind, Written, HasWork, Withdrawn, NeedsReconciliation
  <2>3. /\ step \in Step /\ step \in {"append", "stop", "observe"}
        /\ step = "append" => snap = Queued
        /\ step = "stop" => snap.state = "canceling"
        /\ step = "observe" => snap.attempt = 1
    BY <2>2, QueuedFields DEF FirstStep, Step
  <2> HIDE DEF step
  <2>4. o \in Mutations /\ o.run = r
    BY <1>3, <2>3, RecordTypes DEF Mutations
  <2>5. OperationSound(o, record[r], execution[r][1])
    BY <1>3, <2>3 DEF OperationSound, Behind
  <2> HIDE DEF o
  <2> QED BY <1>1, <2>1, <2>4, <2>5, QuietOperation
<1>6. CASE ~HasWork(page[p][r])
  <2>1. /\ page' = [page EXCEPT ![p][r] = Absent] /\ old' = [old EXCEPT ![p] = @ \ {r}]
        /\ UNCHANGED op
    BY <1>2, <1>6
  <2>2. /\ page \in [Controls -> [Runs -> Snapshots]] /\ old \in [Controls -> SUBSET Runs]
        /\ Absent \in Snapshots
    BY RecordTypes DEF ControlInv, TypeOK
  <2>3. page' \in [Controls -> [Runs -> Snapshots]] /\ old' \in [Controls -> SUBSET Runs]
    BY <1>3, <2>1, <2>2
  <2>4. \A q \in Controls, s \in Runs : page'[q][s] \in {page[q][s], Absent}
    BY <1>3, <2>1, <2>2
  <2>5. PagesSound'
    BY <1>4, <2>4, PagesStep DEF ControlInv
  <2>6. \A q \in Controls : old'[q] \subseteq old[q]
    BY <2>1, <2>2
  <2>7. \A q \in Controls : \A s \in old'[q] : page'[q][s] = page[q][s]
    BY <1>3, <2>1, <2>2
  <2>8. RecoverySound'
    BY <1>1, <1>4, <2>6, <2>7, RecoveryStep
  <2>9. OperationsSound'
    BY <1>4, <2>1 DEF Undisturbed, OperationsSound
  <2> QED BY <1>1, <1>4, <2>1, <2>3, <2>5, <2>8, <2>9 DEF ControlInv, TypeOK, LedgerTypeOK
<1> QED BY <1>5, <1>6

\* The cleanup that is observed is true of the execution.
LEMMA ObservedSettles ==
    ASSUME NEW s \in Snapshots, s.attempt = 1, NEW e \in Executions, e.phase \in Ended,
           NEW c \in ObservedCleanup(e), Backend # "fargate" => ~e.worker
    PROVE  c \in CleanupState /\ Settles(Observed(s, e, c), e)
<1>1. c \in CleanupState /\ (c = "confirmed" => ~e.worker)
  BY RunRecordAssumption DEF ObservedCleanup, CleanupState
<1> QED BY <1>1 DEF Settles, Observed

LEMMA ObserveStep ==
    ASSUME ControlInv, NEW p \in Controls, Observe(p)
    PROVE  ControlInv'
<1> DEFINE o == op[p]
           r == op[p].run
           e == execution[r][1]
           n(rec) == WillSave(o, "saveObserved", rec)
<1>1. o.step = "observe" /\ o.step \in Step /\ "saveObserved" \in Step
  BY DEF Observe, At, Step
<1>2. /\ o # Idle /\ o \in Mutations /\ r \in Runs /\ o.snap \in Snapshots
      /\ o.snap.attempt = 1 /\ e \in Executions /\ record[r] # Absent
      /\ OperationSound(o, record[r], e)
      /\ e.phase \in Ended /\ e.worker => Backend = "fargate"
  BY <1>1, MutationFacts DEF OperationSound, RunSound
<1>3. LedgerTypeOK' /\ UNCHANGED <<record, execution, fresh>>
  BY DEF Observe, storeVars, LedgerTypeOK, ControlInv, TypeOK
<1>4. ASSUME NEW rec \in Snapshots, Continue(p, n(rec)), UNCHANGED <<page, old, scan>>,
             rec = o.snap \/ (Settles(rec, e) /\ CanTransition(o.snap, rec))
      PROVE  ControlInv'
  <2>1. /\ n(rec) \in Mutations /\ n(rec).step = "saveObserved" /\ n(rec).next = rec
        /\ n(rec).run = r /\ n(rec).snap = o.snap /\ n(rec).current = o.current
    BY <1>1, <1>2, WillSaveFields
  <2> HIDE DEF n
  <2>2. OperationSound(n(rec), record[r], e)
    BY <1>1, <1>2, <1>4, <2>1 DEF OperationSound
  <2> QED BY <1>2, <1>3, <1>4, <2>1, <2>2, QuietMutation
<1>5. CASE ItemDone(p) /\ Continue(p, Idle)
  BY <1>2, <1>3, <1>5, QuietMutation
<1>6. CASE Continue(p, n(o.snap)) /\ UNCHANGED <<page, old, scan>>
  BY <1>2, <1>4, <1>6
<1>7. CASE /\ e.phase \in Ended
           /\ \E c \in ObservedCleanup(e) :
                IF CanTransition(o.snap, Observed(o.snap, e, c))
                THEN Continue(p, n(Observed(o.snap, e, c))) /\ UNCHANGED <<page, old, scan>>
                ELSE ItemFailed(p) /\ Continue(p, Idle)
  <2>1. PICK c \in ObservedCleanup(e) :
                IF CanTransition(o.snap, Observed(o.snap, e, c))
                THEN Continue(p, n(Observed(o.snap, e, c))) /\ UNCHANGED <<page, old, scan>>
                ELSE ItemFailed(p) /\ Continue(p, Idle)
    BY <1>7
  <2>2. c \in CleanupState /\ Settles(Observed(o.snap, e, c), e)
    BY <1>2, <1>7, ObservedSettles
  <2>3. Observed(o.snap, e, c) \in Snapshots
    BY <1>2, <1>7, <2>2, TransitionTypes
  <2>4. CASE CanTransition(o.snap, Observed(o.snap, e, c))
    BY <1>4, <2>1, <2>2, <2>3, <2>4
  <2>5. CASE ~CanTransition(o.snap, Observed(o.snap, e, c))
    BY <1>2, <1>3, <2>1, <2>5, QuietMutation
  <2> QED BY <2>4, <2>5
<1> QED BY <1>2, <1>5, <1>6, <1>7 DEF Observe

LEMMA SaveObservedStep ==
    ASSUME ControlInv, NEW p \in Controls, SaveObserved(p)
    PROVE  ControlInv'
<1> DEFINE o == op[p]
           r == op[p].run
           e == execution[r][1]
<1>1. o.step = "saveObserved" /\ o.step \in Step
  BY DEF SaveObserved, At, Step
<1>2. /\ SaveRecord(p, o.next, Idle) /\ ItemDone(p) /\ o.current
      /\ UNCHANGED <<entry, attempts, claims, told, execution, requests, faults>>
  BY DEF SaveObserved, SaveRecord
<1>3. /\ o # Idle /\ r \in Runs /\ o.next \in Snapshots /\ record[r] = o.snap
      /\ record[r] # Absent /\ RunSound(record[r], e)
      /\ o.next = o.snap \/ (Settles(o.next, e) /\ CanTransition(o.snap, o.next))
  BY <1>1, <1>2, MutationFacts DEF OperationSound
<1>4. LedgerTypeOK'
  BY <1>2 DEF LedgerTypeOK, ControlInv, TypeOK
<1>5. RunSound(o.next, e) /\ Advances(record[r], o.next)
  <2>1. CASE o.next = o.snap
    BY <1>3, <2>1 DEF Advances
  <2>2. CASE Settles(o.next, e) /\ CanTransition(o.snap, o.next)
    <3>1. o.next.state = "terminal" /\ o.next.attempt = 1 /\ e.phase # "none"
      BY <2>2 DEF Settles, Ended
    <3>2. o.next # Absent
      BY <3>1 DEF Absent
    <3>3. RunSound(o.next, e)
      BY <1>3, <2>2, <3>1, <3>2 DEF RunSound, Written
    <3>4. NeedsReconciliation(o.next) => NeedsReconciliation(record[r])
      BY <1>3, <2>2, <3>1 DEF CanTransition, Monotonic, NeedsReconciliation
    <3> QED BY <3>1, <3>2, <3>3, <3>4 DEF Advances
  <2> QED BY <1>3, <2>1, <2>2
<1> QED BY <1>2, <1>3, <1>4, <1>5, SaveEnds

LEMMA PageFailsStep ==
    ASSUME ControlInv, NEW p \in Controls, PageFails(p)
    PROVE  ControlInv'
<1>1. /\ scan' = [scan EXCEPT ![p] = [@ EXCEPT !.scanFailed = TRUE, !.lastFailed = TRUE]]
      /\ UNCHANGED <<record, execution, op, page, fresh, old>> /\ LedgerTypeOK'
  BY DEF PageFails, AddFault, storeVars, LedgerTypeOK, ControlInv, TypeOK
<1>2. /\ scan \in [Controls -> Scans] /\ scan[p] \in Scans
      /\ [scan[p] EXCEPT !.scanFailed = TRUE, !.lastFailed = TRUE] \in Scans
  BY ScanUpdates DEF ControlInv, TypeOK
<1>3. scan' \in [Controls -> Scans]
  BY <1>1, <1>2
<1>4. RunsSound' /\ Undisturbed /\ RecordsAdvance /\ FreshShrinks
  BY <1>1, RunsUnchanged
<1>5. OperationsSound'
  BY <1>1, <1>4 DEF Undisturbed, OperationsSound
<1>6. PagesSound'
  BY <1>1, <1>4, PagesStep DEF ControlInv
<1>7. RecoverySound'
  <2>1. scan'[p].scanFailed /\ scan'[p].lastFailed
    BY <1>1, <1>2 DEF Scans
  <2>2. \A q \in Controls : q # p => scan'[q] = scan[q]
    BY <1>1, <1>2
  <2> QED BY <1>1, <2>1, <2>2 DEF ControlInv, RecoverySound, Ready, StillToRecover
<1> QED BY <1>1, <1>3, <1>4, <1>5, <1>6, <1>7 DEF ControlInv, TypeOK, LedgerTypeOK

LEMMA CrashStep ==
    ASSUME ControlInv, NEW p \in Controls, Crash(p)
    PROVE  ControlInv'
<1> DEFINE left == {r \in Runs : record[r] # Absent /\ NeedsReconciliation(record[r])}
<1>1. /\ Continue(p, Idle) /\ page' = [page EXCEPT ![p] = NoPage]
      /\ fresh' = [fresh EXCEPT ![p] = {}] /\ scan' = [scan EXCEPT ![p] = NewScan]
      /\ old' = [old EXCEPT ![p] = left]
      /\ UNCHANGED <<record, execution>> /\ LedgerTypeOK'
  BY DEF Crash, AddFault, storeVars, LedgerTypeOK, ControlInv, TypeOK
<1>2. /\ page \in [Controls -> [Runs -> Snapshots]] /\ fresh \in [Controls -> SUBSET Runs]
      /\ scan \in [Controls -> Scans] /\ old \in [Controls -> SUBSET Runs]
      /\ Absent \in Snapshots /\ NewScan \in Scans
  <2>1. NewScan \in Scans
    BY DEF NewScan, Scans
  <2> QED BY <2>1, RecordTypes DEF ControlInv, TypeOK
<1>3. /\ page' \in [Controls -> [Runs -> Snapshots]] /\ fresh' \in [Controls -> SUBSET Runs]
      /\ scan' \in [Controls -> Scans] /\ old' \in [Controls -> SUBSET Runs]
  BY <1>1, <1>2 DEF NoPage
<1>4. RunsSound' /\ Undisturbed /\ RecordsAdvance
  BY <1>1, RunsUnchanged
<1>5. op' \in [Controls -> Operations] /\ OperationsSound'
  BY <1>1, <1>4, OperationReplaced DEF ControlInv, Continue
<1>6. FreshShrinks
  BY <1>1, <1>2 DEF FreshShrinks
<1>7. \A q \in Controls, r \in Runs : page'[q][r] \in {page[q][r], Absent}
  BY <1>1, <1>2 DEF NoPage
<1>8. PagesSound'
  BY <1>4, <1>6, <1>7, PagesStep DEF ControlInv
<1>9. RecoverySound'
  <2> SUFFICES ASSUME NEW q \in Controls, NEW r \in old'[q]
               PROVE  /\ record'[r] # Absent
                      /\ NeedsReconciliation(record'[r]) =>
                           ~Ready(q)' /\ StillToRecover(scan'[q], page'[q][r], r)
    BY DEF RecoverySound
  <2>1. CASE q # p
    <3>1. r \in old[q] /\ scan'[q] = scan[q] /\ page'[q] = page[q]
      BY <1>1, <1>2, <2>1
    <3> QED BY <1>1, <3>1 DEF ControlInv, RecoverySound, Ready
  <2>2. CASE q = p
    <3>1. r \in left /\ scan'[q] = NewScan
      BY <1>1, <1>2, <2>2
    <3>2. r > 0
      BY <3>1, ControlAssumption
    <3> QED BY <1>1, <3>1, <3>2 DEF Ready, StillToRecover, NewScan
  <2> QED BY <2>1, <2>2
<1> QED BY <1>1, <1>3, <1>4, <1>5, <1>8, <1>9 DEF ControlInv, TypeOK, LedgerTypeOK

\* Every step of the provider moves an existing execution forward.
LEMMA ProviderMoves ==
    ASSUME ControlInv, NEW r \in Runs, NEW a \in Attempts, Provider(r, a)
    PROVE  /\ a = 1 /\ record[r] # Absent
           /\ execution[r][1].phase # "none"
           /\ \E e \in Executions :
                /\ execution' = [execution EXCEPT ![r][1] = e]
                /\ Forward(execution[r][1], e)
                /\ e.phase # "none" /\ e.stop = execution[r][1].stop
                /\ e.phase = "canceled" => execution[r][1].stop
           /\ UNCHANGED <<record, entry, attempts, claims, told, op, page, fresh, scan, old,
                          requests, faults>>
<1> DEFINE x == execution[r][a]
<1>1. x.phase # "none"
  BY DEF Provider, Appears, Ends, WorkerStops, Ended
<1>2. a = 1 /\ record[r] # Absent /\ x \in Executions
      /\ (x.phase \in Ended /\ x.worker => Backend = "fargate")
      /\ (x.phase = "canceled" => x.stop)
  BY <1>1 DEF ControlInv, TypeOK, RunsSound, RunSound, NoExecution
<1>3. CASE Appears(r, a)
  <2> DEFINE e == [phase |-> "running", worker |-> TRUE, stop |-> x.stop]
  <2>1. e \in Executions
    BY <1>2 DEF Executions, Phase
  <2>2. Forward(x, e)
    BY <1>3 DEF Appears, Forward, Ended
  <2> QED BY <1>1, <1>2, <1>3, <2>1, <2>2 DEF Appears, SetExecution, storeVars
<1>4. CASE \E phase \in Ended : Ends(r, a, phase)
  <2>1. PICK phase \in Ended : Ends(r, a, phase)
    BY <1>4
  <2> DEFINE e == [phase |-> phase, worker |-> Backend = "fargate", stop |-> x.stop]
  <2>2. e \in Executions
    BY <1>2 DEF Executions, Phase
  <2>3. Forward(x, e) /\ phase # "none"
    BY <2>1 DEF Ends, Forward, Ended
  <2> QED BY <1>1, <1>2, <2>1, <2>2, <2>3 DEF Ends, SetExecution, storeVars
<1>5. CASE WorkerStops(r, a)
  <2> DEFINE e == [x EXCEPT !.worker = FALSE]
  <2>1. e \in Executions /\ e.phase = x.phase /\ ~e.worker /\ e.stop = x.stop
    BY <1>2 DEF Executions
  <2>2. execution' = [execution EXCEPT ![r][a] = e]
        /\ UNCHANGED <<record, entry, attempts, claims, told, op, page, fresh, scan, old,
                       requests, faults>>
    BY <1>5 DEF WorkerStops, SetExecution, storeVars
  <2> HIDE DEF e
  <2>3. Forward(x, e)
    BY <1>1, <1>2, <2>1 DEF Forward
  <2> QED BY <1>1, <1>2, <2>1, <2>2, <2>3
<1> QED BY <1>3, <1>4, <1>5 DEF Provider

LEMMA ProviderStep ==
    ASSUME ControlInv, NEW r \in Runs, NEW a \in Attempts, Provider(r, a)
    PROVE  ControlInv'
<1>1. /\ record[r] # Absent
      /\ UNCHANGED <<record, entry, attempts, claims, told, op, page, fresh, scan, old,
                     requests, faults>>
  BY ProviderMoves
<1>2. PICK e \in Executions : execution' = [execution EXCEPT ![r][1] = e]
                              /\ Forward(execution[r][1], e)
  BY ProviderMoves
<1>3. /\ execution' \in [Runs -> [Attempts -> Executions]]
      /\ RunsSound' /\ RecordsAdvance /\ Undisturbed
  BY <1>1, <1>2, ExecutionChanged
<1>4. OperationsSound'
  BY <1>1, <1>3 DEF Undisturbed, OperationsSound
<1>5. FreshShrinks
  BY <1>1 DEF FreshShrinks
<1>6. PagesSound' /\ RecoverySound'
  BY <1>1, <1>3, <1>5, ScanUnchanged
<1> QED BY <1>1, <1>3, <1>4, <1>6 DEF ControlInv, TypeOK

-----------------------------------------------------------------------------
(***************************************************************************)
(* The invariant.                                                          *)
(***************************************************************************)

LEMMA ControlInvInit == Init => ControlInv
<1> SUFFICES ASSUME Init
             PROVE  ControlInv
  OBVIOUS
<1>1. NoExecution \in Executions /\ NewScan \in Scans /\ "none" \in Answer
  BY DEF NoExecution, Executions, Phase, NewScan, Scans, Answer
<1>2. TypeOK
  BY <1>1, RecordTypes DEF Init, TypeOK, NoPage, Operations
<1>3. RunSound(Absent, NoExecution) /\ Behind(Absent, Absent)
  BY DEF RunSound, Behind, Written, Absent, NoExecution, Ended
<1>4. RunsSound
  BY <1>3, FirstAttempt DEF Init, RunsSound
<1>5. OperationsSound
  BY DEF Init, OperationsSound
<1>6. PagesSound
  BY <1>3 DEF Init, PagesSound, NoPage
<1>7. RecoverySound
  BY DEF Init, RecoverySound
<1> QED BY <1>2, <1>4, <1>5, <1>6, <1>7 DEF ControlInv

LEMMA ControlInvStep == ControlInv /\ [Next]_vars => ControlInv'
<1> SUFFICES ASSUME ControlInv, [Next]_vars
             PROVE  ControlInv'
  OBVIOUS
<1>1. ASSUME NEW p \in Controls, Request(p)
      PROVE  ControlInv'
  BY <1>1, ClaimStep, CancelReadStep DEF Request, Start, Replay
<1>2. ASSUME NEW p \in Controls, Operate(p)
      PROVE  ControlInv'
  BY <1>2, CreateSnapshotStep, AppendAttemptStep, SubmitStep, SaveRunningStep,
     CancelClaimStep, CancelDecideStep, SaveCanceledStep, SaveCancelingStep,
     StopExecutionStep, ObserveStep, SaveObservedStep, SaveConflictStep DEF Operate
<1>3. ASSUME NEW p \in Controls, Scan(p)
      PROVE  ControlInv'
  BY <1>3, ReadPageStep, TakeItemStep, FinishPageStep DEF Scan
<1>4. ASSUME NEW p \in Controls, Failure(p)
      PROVE  ControlInv'
  BY <1>4, CallFailsStep, PageFailsStep, CrashStep DEF Failure
<1>5. CASE UNCHANGED vars
  BY <1>5 DEF vars, ControlInv, TypeOK, RunsSound, OperationsSound, PagesSound,
     RecoverySound, Ready
<1> QED BY <1>1, <1>2, <1>3, <1>4, <1>5, RepairSnapshotStep, ProviderStep DEF Next

\* ControlInv holds in every state, for every number of runs, processes,
\* requests and faults.
THEOREM ControlCorrect == Spec => []ControlInv
BY ControlInvInit, ControlInvStep, PTL DEF Spec

\* Every state is well typed; in particular no stored record contradicts itself
\* (_validate_run_dimensions).
THEOREM TypeCorrect == Spec => []TypeOK
<1>1. ControlInv => TypeOK
  BY DEF ControlInv
<1> QED BY <1>1, ControlCorrect, PTL

\* A run never has a second provider execution, whatever fails and however many
\* processes dispatch it.
THEOREM AtMostOneExecution == Spec => []OneExecution
<1>1. ControlInv => OneExecution
  BY DEF ControlInv, RunsSound, OneExecution
<1> QED BY <1>1, ControlCorrect, PTL

\* A process that reports ready has recovered every run left by its predecessor.
THEOREM ReadyAfterRecovery == Spec => []ReadyMeansRecovered
<1>1. ControlInv => ReadyMeansRecovered
  BY DEF ControlInv, RecoverySound, ReadyMeansRecovered
<1> QED BY <1>1, ControlCorrect, PTL

-----------------------------------------------------------------------------
(***************************************************************************)
(* ControlRuns implements HostedRun.                                       *)
(***************************************************************************)

\* The definitions of RunRecord mean the same on both sides.
LEMMA SameRecords ==
    /\ Abstract!Absent = Absent /\ Abstract!Queued = Queued
    /\ Abstract!NoExecution = NoExecution /\ Abstract!Started = Started
    /\ Abstract!Attempts = Attempts /\ Abstract!Executions = Executions
    /\ Abstract!Ended = Ended /\ Abstract!CleanupState = CleanupState
BY DEF Abstract!Absent, Absent, Abstract!Queued, Queued, Abstract!NoExecution, NoExecution,
   Abstract!Started, Started, Abstract!Attempts, Attempts, Abstract!Executions, Executions,
   Abstract!Phase, Phase, Abstract!Ended, Ended, Abstract!CleanupState, CleanupState

LEMMA SameTransitions ==
    ASSUME NEW x, NEW y
    PROVE  /\ Abstract!ObservedResults(x) = ObservedResults(x)
           /\ CanTransition(x, y) => Abstract!CanTransition(x, y)
BY DEF Abstract!ObservedResults, ObservedResults, Abstract!CanTransition, CanTransition,
   Abstract!Allowed, Allowed, Abstract!Monotonic, Monotonic

\* A step of HostedRun, or a stutter.
Promised == [Abstract!Next]_(Abstract!runVars)

\* A claim accepts the run or finds it.
LEMMA ClaimPromised ==
    ASSUME ControlInv, NEW r \in Runs, record' = [record EXCEPT ![r] = Claimed(r)],
           UNCHANGED execution
    PROVE  Promised
<1>1. CASE record[r] = Absent
  BY <1>1, SameRecords
  DEF Claimed, Promised, Abstract!Next, Abstract!Accept, Abstract!SetRecord
<1>2. CASE record[r] # Absent
  <2>1. record' = record
    BY <1>2 DEF Claimed, ControlInv, TypeOK
  <2> QED BY <2>1 DEF Promised, Abstract!runVars
<1> QED BY <1>1, <1>2

\* A submission launches the run's only execution or adopts it.
LEMMA SubmitPromised ==
    ASSUME ControlInv, NEW p \in Controls, Submit(p)
    PROVE  Promised
<1> DEFINE r == op[p].run
<1>1. op[p].step = "submit" /\ op[p].step \in Step
  BY DEF Submit, At, Step
<1>2. r \in Runs /\ op[p].next = Dispatched /\ record[r] # Absent
  BY <1>1, MutationFacts DEF OperationSound
<1>3. op[p].next.attempt = 1
  BY <1>2 DEF Dispatched, Running
<1>4. CASE execution[r][1] = NoExecution
  <2>1. execution' = [execution EXCEPT ![r][1] = Started] /\ UNCHANGED record
    BY <1>3, <1>4 DEF Submit, storeVars
  <2>2. \A b \in Attempts : execution[r][b] = NoExecution
    BY <1>2, <1>4 DEF ControlInv, RunsSound
  <2>3. Abstract!Launch(r, 1)
    BY <1>2, <2>1, <2>2, SameRecords DEF Abstract!Launch, Abstract!SetExecution
  <2> QED BY <1>2, <2>3, FirstAttempt, SameRecords DEF Promised, Abstract!Next
<1>5. CASE execution[r][1] # NoExecution
  BY <1>3, <1>5 DEF Submit, storeVars, Promised, Abstract!runVars
<1> QED BY <1>4, <1>5

LEMMA SaveRunningPromised ==
    ASSUME ControlInv, NEW p \in Controls, SaveRunning(p)
    PROVE  Promised
<1> DEFINE r == op[p].run
<1>1. op[p].step = "saveRunning" /\ op[p].step \in Step
  BY DEF SaveRunning, At, Step
<1>2. /\ record' = [record EXCEPT ![r] = op[p].next] /\ op[p].current /\ UNCHANGED execution
  BY DEF SaveRunning, SaveRecord
<1>3. /\ r \in Runs /\ op[p].next = Dispatched /\ record[r] = Queued
      /\ execution[r][1].phase # "none"
  BY <1>1, <1>2, MutationFacts DEF OperationSound
<1>4. execution[r][1] # NoExecution /\ record[r].state = "queued"
  BY <1>3, QueuedFields DEF NoExecution
<1>5. Dispatched = [state |-> "running", attempt |-> 1, outcome |-> "unknown",
                    results |-> "pending", cleanup |-> "pending"]
  BY QueuedFields DEF Dispatched, Running
<1>6. Abstract!Bind(r, 1)
  BY <1>2, <1>3, <1>4, <1>5, SameRecords DEF Abstract!Bind, Abstract!SetRecord
<1> QED BY <1>3, <1>6, FirstAttempt, SameRecords DEF Promised, Abstract!Next

LEMMA SaveCanceledPromised ==
    ASSUME ControlInv, NEW p \in Controls, SaveCanceled(p)
    PROVE  Promised
<1> DEFINE r == op[p].run
<1>1. op[p].step = "saveCanceled" /\ op[p].step \in Step
  BY DEF SaveCanceled, At, Step
<1>2. /\ record' = [record EXCEPT ![r] = Withdrawn(op[p].snap)] /\ op[p].current
      /\ UNCHANGED execution
  BY DEF SaveCanceled, SaveRecord
<1>3. r \in Runs /\ op[p].snap = Queued /\ record[r] = Queued
  BY <1>1, <1>2, MutationFacts DEF OperationSound
<1>4. Withdrawn(Queued) = [state |-> "terminal", attempt |-> 0, outcome |-> "canceled",
                           results |-> "unavailable", cleanup |-> "confirmed"]
      /\ Queued.state = "queued"
  BY QueuedFields DEF Withdrawn
<1>5. Abstract!Withdraw(r)
  BY <1>2, <1>3, <1>4 DEF Abstract!Withdraw, Abstract!SetRecord
<1> QED BY <1>3, <1>5 DEF Promised, Abstract!Next

LEMMA SaveCancelingPromised ==
    ASSUME ControlInv, NEW p \in Controls, SaveCanceling(p)
    PROVE  Promised
<1> DEFINE r == op[p].run
<1>1. op[p].step = "saveCanceling" /\ op[p].step \in Step
  BY DEF SaveCanceling, At, Step
<1>2. /\ record' = [record EXCEPT ![r] = [op[p].snap EXCEPT !.state = "canceling"]]
      /\ op[p].current /\ UNCHANGED execution
  BY DEF SaveCanceling, SaveRecord
<1>3. r \in Runs /\ op[p].snap = record[r] /\ record[r].state = "running"
  BY <1>1, <1>2, MutationFacts DEF OperationSound
<1>4. Abstract!Intend(r)
  BY <1>2, <1>3 DEF Abstract!Intend, Abstract!SetRecord
<1> QED BY <1>3, <1>4 DEF Promised, Abstract!Next

\* The provider is asked to stop only what the record says is to be stopped.
LEMMA StopExecutionPromised ==
    ASSUME ControlInv, NEW p \in Controls, StopExecution(p)
    PROVE  Promised
<1> DEFINE r == op[p].run
           e == execution[r][1]
<1>1. op[p].step = "stop" /\ op[p].step \in Step
  BY DEF StopExecution, At, Step
<1>2. /\ r \in Runs /\ op[p].snap.state = "canceling" /\ Behind(op[p].snap, record[r])
  BY <1>1, MutationFacts DEF OperationSound
<1>3. op[p].snap.attempt = 1
  BY <1>2, QueuedFields DEF Behind, Written, Absent, Withdrawn
<1>4. record[r].state \in {"canceling", "terminal"} /\ record[r].attempt = 1
  BY <1>2, <1>3 DEF Behind
<1>5. UNCHANGED record
  BY DEF StopExecution, storeVars
<1>6. CASE e.phase = "running"
  <2>1. execution' = [execution EXCEPT ![r][1] = [@ EXCEPT !.stop = TRUE]]
    BY <1>3, <1>6 DEF StopExecution
  <2>2. execution' = [execution EXCEPT ![r][1] = [execution[r][1] EXCEPT !.stop = TRUE]]
    BY <1>2, <2>1, FirstAttempt DEF ControlInv, TypeOK
  <2>3. Abstract!AskToStop(r)
    BY <1>4, <1>5, <1>6, <2>2 DEF Abstract!AskToStop, Abstract!SetExecution
  <2> QED BY <1>2, <2>3 DEF Promised, Abstract!Next
<1>7. CASE e.phase # "running"
  BY <1>3, <1>5, <1>7 DEF StopExecution, Promised, Abstract!runVars
<1> QED BY <1>6, <1>7

LEMMA SaveObservedPromised ==
    ASSUME ControlInv, NEW p \in Controls, SaveObserved(p)
    PROVE  Promised
<1> DEFINE r == op[p].run
           e == execution[r][1]
           new == op[p].next
<1>1. op[p].step = "saveObserved" /\ op[p].step \in Step
  BY DEF SaveObserved, At, Step
<1>2. /\ record' = [record EXCEPT ![r] = new] /\ op[p].current /\ UNCHANGED execution
  BY DEF SaveObserved, SaveRecord
<1>3. /\ r \in Runs /\ record[r] = op[p].snap /\ record[r].attempt = 1 /\ new \in Snapshots
      /\ new = op[p].snap \/ (Settles(new, e) /\ CanTransition(op[p].snap, new))
  BY <1>1, <1>2, MutationFacts DEF OperationSound
<1>4. CASE new = op[p].snap
  <2>1. record' = record
    BY <1>2, <1>3, <1>4 DEF ControlInv, TypeOK
  <2> QED BY <1>2, <2>1 DEF Promised, Abstract!runVars
<1>5. CASE Settles(new, e) /\ CanTransition(op[p].snap, new)
  <2>1. /\ new = [state |-> "terminal", attempt |-> 1, outcome |-> e.phase,
                  results |-> ObservedResults(e), cleanup |-> new.cleanup]
        /\ new.cleanup \in CleanupState /\ e.phase \in Ended
        /\ new.cleanup = "confirmed" => ~e.worker
    BY <1>3, <1>5, SnapshotFields DEF Settles
  <2>2. Abstract!CanTransition(record[r], new)
    BY <1>3, <1>5, SameTransitions
  <2>3. /\ Abstract!ObservedResults(e) = ObservedResults(e)
        /\ new.cleanup \in Abstract!CleanupState /\ e.phase \in Abstract!Ended
    BY <2>1, SameTransitions, SameRecords
  <2> DEFINE c == new.cleanup
             settled == [state |-> "terminal", attempt |-> record[r].attempt,
                         outcome |-> execution[r][record[r].attempt].phase,
                         results |-> Abstract!ObservedResults(execution[r][record[r].attempt]),
                         cleanup |-> c]
  <2>4. settled = new
    BY <1>3, <2>1, <2>3
  <2>5. /\ c \in Abstract!CleanupState /\ record[r].attempt # 0
        /\ execution[r][record[r].attempt].phase \in Abstract!Ended
        /\ c = "confirmed" => ~execution[r][record[r].attempt].worker
    BY <1>3, <2>1, <2>3
  <2>6. Abstract!CanTransition(record[r], settled) /\ Abstract!SetRecord(r, settled)
    <3> HIDE DEF settled, new
    <3> QED BY <1>2, <2>2, <2>4 DEF Abstract!SetRecord
  <2>7. Abstract!Settle(r)
    <3> HIDE DEF c
    <3> QED BY <1>2, <2>5, <2>6 DEF Abstract!Settle
  <2> QED BY <1>3, <2>7 DEF Promised, Abstract!Next
<1> QED BY <1>3, <1>4, <1>5

LEMMA ProviderPromised ==
    ASSUME ControlInv, NEW r \in Runs, NEW a \in Attempts, Provider(r, a)
    PROVE  Promised
<1>1. execution[r][1].phase # "none" /\ UNCHANGED record
  BY ProviderMoves
<1>2. PICK e \in Executions :
        /\ execution' = [execution EXCEPT ![r][1] = e]
        /\ Forward(execution[r][1], e)
        /\ e.phase # "none" /\ e.stop = execution[r][1].stop
        /\ e.phase = "canceled" => execution[r][1].stop
  BY ProviderMoves
<1>3. Abstract!Progress(r, 1)
  BY <1>1, <1>2, SameRecords DEF Abstract!Progress, Abstract!SetExecution, Forward
<1> QED BY <1>3, FirstAttempt, SameRecords DEF Promised, Abstract!Next

LEMMA StepPromised ==
    ASSUME ControlInv, [Next]_vars
    PROVE  Promised
<1>1. ASSUME NEW p \in Controls, Request(p)
      PROVE  Promised
  <2>1. ASSUME NEW r \in Runs, Claim(p, r)
        PROVE  Promised
    <3>1. UNCHANGED execution
      BY <2>1 DEF Claim
    <3>2. UNCHANGED record \/ record' = [record EXCEPT ![r] = Claimed(r)]
      BY <2>1 DEF Claim
    <3> QED BY <3>1, <3>2, ClaimPromised DEF Promised, Abstract!runVars
  <2>2. ASSUME NEW r \in Runs, CancelRead(p, r)
        PROVE  Promised
    BY <2>2 DEF CancelRead, storeVars, Promised, Abstract!runVars
  <2> QED BY <1>1, <2>1, <2>2 DEF Request, Start, Replay
<1>2. ASSUME NEW p \in Controls, Operate(p)
      PROVE  Promised
  <2>1. CASE CreateSnapshot(p)
    <3>1. op[p] # Idle
      BY <2>1 DEF CreateSnapshot, At, Idle
    <3>2. op[p].run \in Runs
      BY <3>1, MutationInProgress DEF ControlInv
    <3> QED BY <2>1, <3>2, ClaimPromised DEF CreateSnapshot
  <2>2. CASE AppendAttempt(p) \/ CancelClaim(p) \/ CancelDecide(p) \/ Observe(p) \/ SaveConflict(p)
    BY <2>2 DEF AppendAttempt, CancelClaim, CancelDecide, Observe, SaveConflict, storeVars,
       Promised, Abstract!runVars
  <2> QED BY <1>2, <2>1, <2>2, SubmitPromised, SaveRunningPromised, SaveCanceledPromised,
             SaveCancelingPromised, StopExecutionPromised, SaveObservedPromised DEF Operate
<1>3. ASSUME NEW p \in Controls, Scan(p) \/ Failure(p)
      PROVE  Promised
  BY <1>3 DEF Scan, ReadPage, TakeItem, FinishPage, Failure, CallFails, PageFails, Crash,
     storeVars, Promised, Abstract!runVars
<1>4. ASSUME NEW r \in Runs, RepairSnapshot(r)
      PROVE  Promised
  BY <1>4, ClaimPromised DEF RepairSnapshot, Claimed
<1>5. CASE UNCHANGED vars
  BY <1>5 DEF vars, Promised, Abstract!runVars
<1> QED BY <1>1, <1>2, <1>3, <1>4, <1>5, ProviderPromised DEF Next

\* Control implements HostedRun: no interleaving of requests, reconcilers,
\* failures and crashes takes a record back, launches a second execution,
\* records an outcome that is not the execution's, or stops an execution without
\* a durable intent.
THEOREM ControlRefinesHostedRun == Spec => KeepsItsPromises
<1>1. Init => Abstract!Init
  BY SameRecords DEF Init, Abstract!Init
<1>2. ControlInv /\ [Next]_vars => [Abstract!Next]_(Abstract!runVars)
  BY StepPromised DEF Promised
<1> QED BY <1>1, <1>2, ControlCorrect, PTL DEF Spec, KeepsItsPromises, Abstract!Spec
=============================================================================
