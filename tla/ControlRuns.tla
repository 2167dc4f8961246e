----------------------------- MODULE ControlRuns -----------------------------
(***************************************************************************)
(* ControlRunLifecycle over a durable run store and one execution backend: *)
(* API requests (start, replay, cancel) and the background reconciler of   *)
(* every Control process, with calls that fail, answers that are lost and  *)
(* processes that crash between any two calls.                             *)
(*                                                                         *)
(* A process does one mutation at a time (_mutation_lock): op[p] is the    *)
(* one that holds the lock and the store or backend call it makes next.    *)
(* The reconciler reads a page of snapshots without the lock, so they may  *)
(* be out of date when it comes to use them.  A stored revision is opaque  *)
(* and changes with every save: all that matters about the revision in a   *)
(* snapshot is whether it is still the current one.                        *)
(***************************************************************************)
EXTENDS RunRecord, FiniteSets, TLC

CONSTANTS
    Runs,           \* run ids; their order is the order of the pages
    Controls,       \* Control processes (one is the supported topology)
    RunStore,       \* "postgresql" or "s3"
    PageSize,       \* reconcile_page_size
    MaxRequests,    \* bound: API requests
    MaxFaults       \* bound: failed calls and crashes

ASSUME ControlAssumption ==
    /\ Runs \subseteq Nat \ {0}
    /\ RunStore \in {"postgresql", "s3"}
    /\ PageSize \in Nat \ {0}
    /\ MaxRequests \in Nat /\ MaxFaults \in Nat

VARIABLES
    record,         \* record[r]: the stored snapshot, or Absent
    entry,          \* run ids with an S3 idempotency object
    attempts,       \* the immutable attempt records: pairs of run and number
    claims,         \* claims[r]: stored result of the cancellation key of r
    told,           \* told[r]: what cancel has answered for r
    execution,      \* execution[r][a]: the provider's side
    op,             \* op[p]: the mutation in progress
    page,           \* page[p][r]: snapshot of r still to reconcile, or Absent
    fresh,          \* fresh[p]: runs whose snapshot in page[p] is current
    scan,           \* scan[p]: the recovery scan of p
    old,            \* old[p]: runs left by earlier processes, not yet handled
    requests, faults

storeVars == <<record, entry, attempts, claims>>
vars == <<record, entry, attempts, claims, told, execution, op, page, fresh,
          scan, old, requests, faults>>

Answer == {"none", "canceled", "canceling", "refused"}

Step == {"snapshot", "append", "submit", "saveRunning", "claim", "decide",
         "saveCanceled", "saveCanceling", "stop", "observe", "saveObserved"}

\* snap and current: the StoredRun the operation works on, and whether its
\* revision is still the stored one; next: the record it is about to save.
Idle == [kind |-> "none", step |-> "idle", run |-> 0, snap |-> Absent,
         current |-> FALSE, next |-> Absent]

Snapshots == Records \union {Absent}

Mutations ==
    [kind : {"start", "cancel", "reconcile"}, step : Step, run : Runs,
     snap : Snapshots, current : BOOLEAN, next : Snapshots]

Operations == {Idle} \union Mutations

\* cursor: _scan_cursor, 0 is None.  open: a page has been read and its
\* next_cursor is next.
NewScan == [open |-> FALSE, cursor |-> 0, next |-> 0, pageFailed |-> FALSE,
            scanFailed |-> FALSE, lastFailed |-> FALSE, recovered |-> FALSE]

Scans == [open : BOOLEAN, cursor : Nat, next : Nat, pageFailed : BOOLEAN,
          scanFailed : BOOLEAN, lastFailed : BOOLEAN, recovered : BOOLEAN]

TypeOK ==
    /\ record \in [Runs -> Snapshots]
    /\ entry \subseteq Runs
    /\ attempts \subseteq Runs \X Attempts
    /\ claims \in [Runs -> Answer] /\ told \in [Runs -> Answer]
    /\ execution \in [Runs -> [Attempts -> Executions]]
    /\ op \in [Controls -> Operations]
    /\ page \in [Controls -> [Runs -> Snapshots]]
    /\ fresh \in [Controls -> SUBSET Runs]
    /\ scan \in [Controls -> Scans]
    /\ old \in [Controls -> SUBSET Runs]
    /\ requests \in Nat /\ faults \in Nat

NoPage == [r \in Runs |-> Absent]

Init ==
    /\ record = [r \in Runs |-> Absent]
    /\ entry = {} /\ attempts = {}
    /\ claims = [r \in Runs |-> "none"] /\ told = [r \in Runs |-> "none"]
    /\ execution = [r \in Runs |-> [a \in Attempts |-> NoExecution]]
    /\ op = [p \in Controls |-> Idle]
    /\ page = [p \in Controls |-> NoPage]
    /\ fresh = [p \in Controls |-> {}]
    /\ scan = [p \in Controls |-> NewScan]
    /\ old = [p \in Controls |-> {}]
    /\ requests = 0 /\ faults = 0

-----------------------------------------------------------------------------
(***************************************************************************)
(* Store and lock primitives.                                              *)
(***************************************************************************)

At(p, step) == op[p].step = step

\* The operation of p moves on.
Continue(p, next) == op' = [op EXCEPT ![p] = next]

Goto(p, step) == Continue(p, [op[p] EXCEPT !.step = step])

\* A mutation that has read rec, that is about to save rec, and whose revision
\* has been overtaken.
HasRead(o, step, rec) == [o EXCEPT !.step = step, !.snap = rec, !.current = TRUE]
WillSave(o, step, rec) == [o EXCEPT !.step = step, !.next = rec]
Overtaken(o) == [o EXCEPT !.current = FALSE]

\* Mutant of SaveRecord: the revision is not compared.
SaveRecordBlindly(p, rec, next) ==
    LET r == op[p].run
    IN  /\ record' = [record EXCEPT ![r] = rec]
        /\ fresh' = [q \in Controls |-> fresh[q] \ {r}]
        /\ op' = [q \in Controls |->
             IF q = p THEN next
             ELSE IF op[q].run = r THEN Overtaken(op[q]) ELSE op[q]]

\* save: the stored revision changes, so every other snapshot of the run is
\* out of date.
SaveRecord(p, rec, next) ==
    LET r == op[p].run
    IN  /\ op[p].current
        /\ record' = [record EXCEPT ![r] = rec]
        /\ fresh' = [q \in Controls |-> fresh[q] \ {r}]
        /\ op' = [q \in Controls |->
             IF q = p THEN next
             ELSE IF op[q].run = r THEN Overtaken(op[q]) ELSE op[q]]

\* The rest of _reconcile_page for one item: an item that succeeded, or whose
\* save met a newer revision, is done; any other error fails the page.
ItemDone(p) ==
    IF op[p].kind = "reconcile"
    THEN /\ page' = [page EXCEPT ![p][op[p].run] = Absent]
         /\ old' = [old EXCEPT ![p] = @ \ {op[p].run}]
         /\ UNCHANGED scan
    ELSE UNCHANGED <<page, old, scan>>

ItemFailed(p) ==
    IF op[p].kind = "reconcile"
    THEN /\ page' = [page EXCEPT ![p][op[p].run] = Absent]
         /\ scan' = [scan EXCEPT ![p] = [@ EXCEPT !.pageFailed = TRUE]]
         /\ UNCHANGED old
    ELSE UNCHANGED <<page, old, scan>>

-----------------------------------------------------------------------------
(***************************************************************************)
(* start, replay and the dispatch they share with reconciliation.          *)
(***************************************************************************)

\* dispatch_run_attempt returns a run that is past QUEUED or RETRYING as it is.
Dispatch(p, kind, r, snap) ==
    Continue(p, IF snap.state \in {"queued", "retrying"}
                THEN [kind |-> kind, step |-> "append", run |-> r, snap |-> snap,
                      current |-> TRUE, next |-> Absent]
                ELSE Idle)

\* The snapshot a claim creates or finds.
Claimed(r) == IF record[r] = Absent THEN Queued ELSE record[r]

\* PostgreSQLRunStore.claim is one transaction; S3RunStore.claim writes the
\* idempotency object first.
Claim(p, r) ==
    /\ op[p] = Idle
    /\ requests < MaxRequests
    /\ requests' = requests + 1
    /\ IF RunStore = "postgresql"
       THEN /\ record' = [record EXCEPT ![r] = Claimed(r)]
            /\ Dispatch(p, "start", r, Claimed(r))
            /\ UNCHANGED entry
       ELSE /\ entry' = entry \union {r}
            /\ Continue(p, [kind |-> "start", step |-> "snapshot", run |-> r, snap |-> Absent,
                            current |-> FALSE, next |-> Absent])
            /\ UNCHANGED record
    /\ UNCHANGED <<attempts, claims, told, execution, page, fresh, scan, old, faults>>

Start(p, r) == Claim(p, r)

\* replay: a terminal run's submission under a fresh idempotency key.
Replay(p, source, r) ==
    /\ record[source].state = "terminal"
    /\ Claim(p, r)

\* The second half of S3RunStore.claim: create the run snapshot, or adopt it.
CreateSnapshot(p) ==
    /\ At(p, "snapshot")
    /\ record' = [record EXCEPT ![op[p].run] = Claimed(op[p].run)]
    /\ Dispatch(p, "start", op[p].run, Claimed(op[p].run))
    /\ UNCHANGED <<entry, attempts, claims, told, execution, page, fresh, scan, old,
                   requests, faults>>

\* S3RunStore.find_idempotency, called by find_api_start without the lock.
RepairSnapshot(r) ==
    /\ r \in entry
    /\ record[r] = Absent
    /\ record' = [record EXCEPT ![r] = Queued]
    /\ UNCHANGED <<entry, attempts, claims, told, execution, op, page, fresh, scan, old,
                   requests, faults>>

\* Mutant of AttemptNumber: one more than the attempts that were recorded.
AttemptNumberByLedger(r, snap) == Cardinality({x \in attempts : x[1] = r}) + 1

\* The attempt number, from which both the attempt id and the name of the
\* provider execution are derived.
AttemptNumber(r, snap) == snap.attempt + 1

\* The record that dispatch will save.
Running(snap, a) ==
    [state |-> "running", attempt |-> a, outcome |-> snap.outcome,
     results |-> snap.results, cleanup |-> snap.cleanup]

AppendAttempt(p) ==
    /\ At(p, "append")
    /\ LET a == AttemptNumber(op[p].run, op[p].snap)
       IN  IF a <= MaxAttempts
           THEN /\ attempts' = attempts \union {<<op[p].run, a>>}
                /\ Continue(p, WillSave(op[p], "submit", Running(op[p].snap, a)))
                /\ UNCHANGED <<page, old, scan>>
           ELSE /\ ItemFailed(p)
                /\ Continue(p, Idle)
                /\ UNCHANGED attempts
    /\ UNCHANGED <<record, entry, claims, told, execution, fresh, requests, faults>>

\* submit_or_adopt: the provider names the execution after run and attempt, so
\* one that exists is adopted.
Submit(p) ==
    /\ At(p, "submit")
    /\ LET r == op[p].run
           a == op[p].next.attempt
       IN  execution' = IF execution[r][a] = NoExecution
                        THEN [execution EXCEPT ![r][a] = Started]
                        ELSE execution
    /\ Goto(p, "saveRunning")
    /\ UNCHANGED <<storeVars, told, page, fresh, scan, old, requests, faults>>

\* The save that follows; a conflict makes start read the run and answer with
\* that, and makes the reconciler go on to its next item.
SaveRunning(p) ==
    /\ At(p, "saveRunning")
    /\ SaveRecord(p, op[p].next, Idle)
    /\ ItemDone(p)
    /\ UNCHANGED <<entry, attempts, claims, told, execution, requests, faults>>

\* RunStoreConflictError from a save: start answers with what is stored, cancel
\* reports an error, and the reconciler goes on to its next item.
SaveConflict(p) ==
    /\ op[p].step \in {"saveRunning", "saveCanceled", "saveCanceling", "saveObserved"}
    /\ ~op[p].current
    /\ ItemDone(p)
    /\ Continue(p, Idle)
    /\ UNCHANGED <<storeVars, told, execution, fresh, requests, faults>>

-----------------------------------------------------------------------------
(***************************************************************************)
(* cancel.                                                                 *)
(***************************************************************************)

\* _planned_cancel_result
Planned(rec) ==
    CASE rec.state = "terminal" -> "refused"
      [] rec.state = "queued"   -> "canceled"
      [] OTHER                  -> "canceling"

CancelRead(p, r) ==
    /\ op[p] = Idle
    /\ requests < MaxRequests
    /\ requests' = requests + 1
    /\ record[r] # Absent
    /\ Continue(p, [kind |-> "cancel", step |-> "claim", run |-> r, snap |-> record[r],
                    current |-> TRUE, next |-> Absent])
    /\ UNCHANGED <<storeVars, told, execution, page, fresh, scan, old, faults>>

\* claim_mutation: the first result stored under the key is the one that every
\* request with that key is answered with.
CancelClaim(p) ==
    /\ At(p, "claim")
    /\ claims' = [claims EXCEPT ![op[p].run] = IF @ = "none" THEN Planned(op[p].snap) ELSE @]
    /\ Goto(p, "decide")
    /\ UNCHANGED <<record, entry, attempts, told, execution, page, fresh, scan, old,
                   requests, faults>>

\* Mutant of CancelStep: the provider is asked to stop before the intent is saved.
CancelStepUnrecorded(state) == IF state = "queued" THEN "saveCanceled" ELSE "stop"

\* What _cancel_once does with a run that is not over.
CancelStep(state) ==
    CASE state = "queued"                  -> "saveCanceled"
      [] state \in {"running", "retrying"} -> "saveCanceling"
      [] OTHER                             -> "stop"

\* _cancel_once reads the run again.
CancelDecide(p) ==
    /\ At(p, "decide")
    /\ LET r == op[p].run
       IN  IF record[r].state = "terminal"
           THEN /\ Continue(p, Idle)
                /\ told' = [told EXCEPT ![r] = claims[r]]
           ELSE /\ Continue(p, HasRead(op[p], CancelStep(record[r].state), record[r]))
                /\ UNCHANGED told
    /\ UNCHANGED <<storeVars, execution, page, fresh, scan, old, requests, faults>>

\* A queued run is canceled on the spot.
Withdrawn(snap) ==
    [state |-> "terminal", attempt |-> snap.attempt, outcome |-> "canceled",
     results |-> "unavailable", cleanup |-> "confirmed"]

SaveCanceled(p) ==
    /\ At(p, "saveCanceled")
    /\ SaveRecord(p, Withdrawn(op[p].snap), Idle)
    /\ told' = [told EXCEPT ![op[p].run] = claims[op[p].run]]
    /\ UNCHANGED <<entry, attempts, claims, execution, page, scan, old, requests, faults>>

\* The durable intent ...
SaveCanceling(p) ==
    /\ At(p, "saveCanceling")
    /\ LET rec == [op[p].snap EXCEPT !.state = "canceling"]
       IN  SaveRecord(p, rec, HasRead(op[p], "stop", rec))
    /\ UNCHANGED <<entry, attempts, claims, told, execution, page, scan, old, requests, faults>>

\* ... and then backend.cancel, from cancel and from the reconciler.  It raises
\* for an execution that the provider does not list yet.
StopExecution(p) ==
    /\ At(p, "stop")
    /\ LET r == op[p].run
           a == op[p].snap.attempt
       IN  IF execution[r][a].phase = "accepted"
           THEN /\ ItemFailed(p)
                /\ Continue(p, Idle)
                /\ UNCHANGED <<told, execution>>
           ELSE /\ execution' = IF execution[r][a].phase = "running"
                                THEN [execution EXCEPT ![r][a] = [@ EXCEPT !.stop = TRUE]]
                                ELSE execution
                /\ IF op[p].kind = "cancel"
                   THEN /\ Continue(p, Idle)
                        /\ told' = [told EXCEPT ![r] = claims[r]]
                   ELSE Goto(p, "observe") /\ UNCHANGED told
                /\ UNCHANGED <<page, old, scan>>
    /\ UNCHANGED <<storeVars, fresh, requests, faults>>

-----------------------------------------------------------------------------
(***************************************************************************)
(* The background reconciler.                                              *)
(***************************************************************************)

\* list_pending of PostgreSQL, list of S3.
Listed(cursor) ==
    {r \in Runs : /\ r > cursor
                  /\ record[r] # Absent
                  /\ RunStore = "postgresql" => NeedsReconciliation(record[r])}

FirstPage(items, all) ==
    /\ items \subseteq all
    /\ IF Cardinality(all) <= PageSize THEN items = all ELSE Cardinality(items) = PageSize
    /\ \A i \in items, j \in all \ items : i < j

\* The next_cursor of a page: its last run id, or None on the last page.
IsNextCursor(next, items, all) ==
    IF items = all THEN next = 0
    ELSE next \in items /\ \A i \in items : i <= next

Opened(s, next) == [s EXCEPT !.open = TRUE, !.next = next, !.pageFailed = FALSE]

\* _reconcile_page reads a page, without the lock.
ReadPage(p) ==
    /\ ~scan[p].open
    /\ LET all == Listed(scan[p].cursor)
       IN  \E items \in SUBSET all, next \in Runs \union {0} :
             /\ FirstPage(items, all)
             /\ IsNextCursor(next, items, all)
             /\ page' = [page EXCEPT ![p] =
                  [r \in Runs |-> IF r \in items THEN record[r] ELSE Absent]]
             /\ fresh' = [fresh EXCEPT ![p] = items]
             /\ scan' = [scan EXCEPT ![p] = Opened(@, next)]
    /\ UNCHANGED <<storeVars, told, execution, op, old, requests, faults>>

Pending(p) == {r \in Runs : page[p][r] # Absent}

\* _reconcile_stored: where it starts with a snapshot.
FirstStep(snap) ==
    CASE snap.state \in {"queued", "retrying"} -> "append"
      [] snap.state = "canceling"              -> "stop"
      [] OTHER                                 -> "observe"

\* A terminal run without a handle is left alone.
HasWork(snap) ==
    /\ NeedsReconciliation(snap)
    /\ snap.state = "terminal" => snap.attempt # 0

\* The reconciler takes the lock for the next item of its page.
TakeItem(p) ==
    /\ op[p] = Idle
    /\ \E r \in Pending(p) :
         /\ \A q \in Pending(p) : r <= q
         /\ IF HasWork(page[p][r])
            THEN /\ Continue(p, [kind |-> "reconcile", step |-> FirstStep(page[p][r]), run |-> r,
                                 snap |-> page[p][r], current |-> r \in fresh[p],
                                 next |-> Absent])
                 /\ UNCHANGED <<page, old>>
            ELSE /\ page' = [page EXCEPT ![p][r] = Absent]
                 /\ old' = [old EXCEPT ![p] = @ \ {r}]
                 /\ UNCHANGED op
    /\ UNCHANGED <<storeVars, told, execution, fresh, scan, requests, faults>>

\* What a terminal observation with cleanup c makes of a snapshot.
Observed(snap, e, c) ==
    [state |-> "terminal", attempt |-> snap.attempt, outcome |-> e.phase,
     results |-> ObservedResults(e), cleanup |-> c]

\* backend.observe and what _reconcile_stored makes of it.  An execution that
\* has not ended changes at most the stage of an active run.
Observe(p) ==
    /\ At(p, "observe")
    /\ LET snap == op[p].snap
           e    == execution[op[p].run][snap.attempt]
           save(rec) == Continue(p, WillSave(op[p], "saveObserved", rec))
       IN  \/ /\ e.phase \notin Ended
              /\ ItemDone(p)
              /\ Continue(p, Idle)
           \/ /\ e.phase \notin Ended
              /\ snap.state # "terminal"
              /\ save(snap)
              /\ UNCHANGED <<page, old, scan>>
           \/ /\ e.phase \in Ended
              /\ \E c \in ObservedCleanup(e) :
                   IF CanTransition(snap, Observed(snap, e, c))
                   THEN save(Observed(snap, e, c)) /\ UNCHANGED <<page, old, scan>>
                   ELSE ItemFailed(p) /\ Continue(p, Idle)
    /\ UNCHANGED <<storeVars, told, execution, fresh, requests, faults>>

SaveObserved(p) ==
    /\ At(p, "saveObserved")
    /\ SaveRecord(p, op[p].next, Idle)
    /\ ItemDone(p)
    /\ UNCHANGED <<entry, attempts, claims, told, execution, requests, faults>>

\* Mutant of Marked: only the last page of a scan decides.
MarkedByLastPage(s) ==
    IF s.next = 0
    THEN [s EXCEPT !.open = FALSE, !.cursor = 0, !.recovered = TRUE,
                   !.lastFailed = s.pageFailed]
    ELSE [s EXCEPT !.open = FALSE, !.cursor = s.next]

\* _mark_reconcile_result
Marked(s) ==
    LET failed == s.scanFailed \/ s.pageFailed
    IN  IF s.next = 0
        THEN [s EXCEPT !.open = FALSE, !.cursor = 0, !.recovered = TRUE,
                       !.lastFailed = failed, !.scanFailed = FALSE]
        ELSE [s EXCEPT !.open = FALSE, !.cursor = s.next, !.scanFailed = failed,
                       !.lastFailed = @ \/ s.pageFailed]

FinishPage(p) ==
    /\ scan[p].open
    /\ Pending(p) = {}
    /\ scan' = [scan EXCEPT ![p] = Marked(@)]
    /\ UNCHANGED <<storeVars, told, execution, op, page, fresh, old, requests, faults>>

\* ready
Ready(p) == scan[p].recovered /\ ~scan[p].lastFailed

-----------------------------------------------------------------------------
(***************************************************************************)
(* Failures.                                                               *)
(***************************************************************************)

AddFault == faults < MaxFaults /\ faults' = faults + 1

\* A store or backend call raises, before or after its effect.
CallFails(p) ==
    /\ AddFault
    /\ op[p] # Idle
    /\ ItemFailed(p)
    /\ Continue(p, Idle)
    /\ UNCHANGED <<storeVars, told, execution, fresh, requests>>

\* The page cannot be read; the cursor stays.
PageFails(p) ==
    /\ AddFault
    /\ ~scan[p].open
    /\ scan' = [scan EXCEPT ![p] = [@ EXCEPT !.scanFailed = TRUE, !.lastFailed = TRUE]]
    /\ UNCHANGED <<storeVars, told, execution, op, page, fresh, old, requests>>

\* The process dies and is started again.
Crash(p) ==
    /\ AddFault
    /\ Continue(p, Idle)
    /\ page' = [page EXCEPT ![p] = NoPage]
    /\ fresh' = [fresh EXCEPT ![p] = {}]
    /\ scan' = [scan EXCEPT ![p] = NewScan]
    /\ old' = [old EXCEPT ![p] = {r \in Runs : record[r] # Absent /\ NeedsReconciliation(record[r])}]
    /\ UNCHANGED <<storeVars, told, execution, requests>>

-----------------------------------------------------------------------------
(***************************************************************************)
(* The provider (external).                                                *)
(***************************************************************************)

SetExecution(r, a, e) ==
    /\ execution' = [execution EXCEPT ![r][a] = e]
    /\ UNCHANGED <<storeVars, told, op, page, fresh, scan, old, requests, faults>>

Appears(r, a) ==
    /\ execution[r][a].phase = "accepted"
    /\ SetExecution(r, a, [phase |-> "running", worker |-> TRUE, stop |-> execution[r][a].stop])

\* The execution ends; the compute of an ECS task outlives its workflow.
Ends(r, a, phase) ==
    /\ execution[r][a].phase = "running"
    /\ phase = "canceled" => execution[r][a].stop
    /\ SetExecution(r, a, [phase |-> phase, worker |-> Backend = "fargate",
                           stop |-> execution[r][a].stop])

WorkerStops(r, a) ==
    /\ execution[r][a].phase \in Ended
    /\ execution[r][a].worker
    /\ SetExecution(r, a, [execution[r][a] EXCEPT !.worker = FALSE])

Provider(r, a) ==
    \/ Appears(r, a)
    \/ \E phase \in Ended : Ends(r, a, phase)
    \/ WorkerStops(r, a)

-----------------------------------------------------------------------------
Request(p) ==
    \/ \E r \in Runs : Start(p, r) \/ CancelRead(p, r)
    \/ \E source, r \in Runs : Replay(p, source, r)

\* The operation that holds the lock makes its next call.
Operate(p) ==
    \/ CreateSnapshot(p) \/ AppendAttempt(p) \/ Submit(p) \/ SaveRunning(p)
    \/ CancelClaim(p) \/ CancelDecide(p) \/ SaveCanceled(p) \/ SaveCanceling(p)
    \/ StopExecution(p) \/ Observe(p) \/ SaveObserved(p) \/ SaveConflict(p)

Scan(p) == ReadPage(p) \/ TakeItem(p) \/ FinishPage(p)

Failure(p) == CallFails(p) \/ PageFails(p) \/ Crash(p)

Next ==
    \/ \E p \in Controls : Request(p) \/ Operate(p) \/ Scan(p) \/ Failure(p)
    \/ \E r \in Runs : RepairSnapshot(r)
    \/ \E r \in Runs, a \in Attempts : Provider(r, a)

Spec == Init /\ [][Next]_vars

-----------------------------------------------------------------------------
\* Control keeps the promises of HostedRun, although the reconciler works on
\* snapshots that API requests and other processes have overtaken: a record
\* never goes back, an outcome is the outcome of the run's own execution,
\* cleanup of a run with a handle is confirmed only when its compute is gone,
\* and an execution is asked to stop only after the intent is durable
\* (docs/control-contracts.md: "Cancellation first records durable intent and
\* then invokes the backend's idempotent stop operation").
Abstract == INSTANCE HostedRun

KeepsItsPromises == Abstract!Spec

\* However often a dispatch fails or its process dies after the provider has
\* accepted the work, a run has at most one provider execution (orchestration.py:
\* "A restart derives the same attempt ID").
OneExecution ==
    \A r \in Runs, a, b \in Attempts :
        execution[r][a] # NoExecution /\ execution[r][b] # NoExecution => a = b

\* A process that reports ready has reconciled, without an error, every
\* unfinished run that it found when it started (docs/control-contracts.md:
\* "becomes ready only after one complete successful durable-store sweep").
ReadyMeansRecovered ==
    \A p \in Controls : Ready(p) => \A r \in old[p] : ~NeedsReconciliation(record[r])

\* A run that is recorded as canceled is not executing
\* (docs/control-profiles.md: "Wait for `canceled` before treating cancellation
\* as complete").
CanceledMeansStopped ==
    \A r \in Runs : record[r].state = "terminal" /\ record[r].outcome = "canceled" =>
        \A a \in Attempts : execution[r][a].phase \notin {"accepted", "running"}

-----------------------------------------------------------------------------
(***************************************************************************)
(* The inductive strengthening of OneExecution, KeepsItsPromises and       *)
(* ReadyMeansRecovered.                                                    *)
(***************************************************************************)

\* The record of a run whose execution was submitted.
Dispatched == Running(Queued, 1)

\* rec says what is true of an execution that has ended.
Settles(rec, e) ==
    /\ rec.state = "terminal" /\ rec.attempt = 1
    /\ e.phase \in Ended
    /\ rec.outcome = e.phase
    /\ rec.results = ObservedResults(e)
    /\ rec.cleanup = "confirmed" => ~e.worker

\* The snapshots that Control writes: no second attempt, no retrying run, and
\* no handle without a submission.
Written(rec) ==
    \/ rec \in {Absent, Queued, Withdrawn(Queued)}
    \/ rec.attempt = 1 /\ rec.state \in {"running", "canceling", "terminal"}

\* A record and the execution of its run.
RunSound(rec, e) ==
    /\ Written(rec)
    /\ rec.attempt = 1 => e.phase # "none"
    /\ rec.attempt = 1 /\ rec.state = "terminal" => Settles(rec, e)
    /\ e.phase = "none" => e = NoExecution
    /\ rec = Absent => e = NoExecution
    /\ e.phase \in Ended /\ e.worker => Backend = "fargate"
    /\ e.phase = "canceled" => e.stop

\* A snapshot that was read earlier is not ahead of the record.
Behind(snap, rec) ==
    /\ Written(snap)
    /\ snap # Absent => rec # Absent
    /\ snap.attempt = 1 => rec.attempt = 1
    /\ snap.state = "canceling" => rec.state \in {"canceling", "terminal"}

\* The mutation o, and the record and the execution of its run: what it has
\* already established when it makes its next call.
OperationSound(o, rec, e) ==
    /\ Behind(o.snap, rec)
    /\ o.current => o.snap = rec /\ rec # Absent
    /\ o.step # "snapshot" => rec # Absent
    /\ o.step \in {"append", "submit", "saveRunning", "saveCanceled"} => o.snap = Queued
    /\ o.step \in {"submit", "saveRunning"} => o.next = Dispatched
    /\ o.step = "saveRunning" => e.phase # "none"
    /\ o.step = "saveCanceling" => o.snap.state = "running"
    /\ o.step = "stop" => o.snap.state = "canceling"
    /\ o.step \in {"observe", "saveObserved"} => o.snap.attempt = 1
    /\ o.step = "saveObserved" =>
         \/ o.next = o.snap
         \/ Settles(o.next, e) /\ CanTransition(o.snap, o.next)

RunsSound ==
    /\ \A r \in Runs : RunSound(record[r], execution[r][1])
    /\ \A r \in Runs, a \in Attempts : a # 1 => execution[r][a] = NoExecution

OperationsSound ==
    \A p \in Controls : op[p] # Idle =>
        OperationSound(op[p], record[op[p].run], execution[op[p].run][1])

PagesSound ==
    \A p \in Controls, r \in Runs :
        /\ Behind(page[p][r], record[r])
        /\ r \in fresh[p] => page[p][r] \in {Absent, record[r]}

\* A run that p has to recover is still ahead of its scan, or the scan has failed.
StillToRecover(s, snap, r) ==
    \/ s.scanFailed
    \/ ~s.open /\ r > s.cursor
    \/ s.open /\ (s.pageFailed \/ snap # Absent \/ (s.next # 0 /\ r > s.next))

RecoverySound ==
    \A p \in Controls : \A r \in old[p] :
        /\ record[r] # Absent
        /\ NeedsReconciliation(record[r]) =>
             ~Ready(p) /\ StillToRecover(scan[p], page[p][r], r)

\* What Control has established in every state: no snapshot is ahead of its
\* record, every record with a handle is true of the one execution of its run,
\* and a run left by an earlier process is still ahead of the scan until it is
\* reconciled.
ControlInv == TypeOK /\ RunsSound /\ OperationsSound /\ PagesSound /\ RecoverySound

\* Control processes are interchangeable: the symmetry of the TLC instances.
Symmetric == Permutations(Controls)
=============================================================================
