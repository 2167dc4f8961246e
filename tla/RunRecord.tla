----------------------------- MODULE RunRecord -----------------------------
(***************************************************************************)
(* The durable snapshot of one hosted run (orchestration.RunRecord), the   *)
(* transitions that transition_run allows, and what a provider execution   *)
(* looks like to an ExecutionBackend.  No variables: the stores and the    *)
(* processes that change runs are in ControlRuns.                          *)
(*                                                                         *)
(* Identity, timestamps, stage and result summary are left out.  A handle  *)
(* is the attempt it was issued for, because attempt_count,                *)
(* current_attempt_id and backend_handle are always written together and   *)
(* both ids are hashes of run and attempt number; 0 is no handle.          *)
(***************************************************************************)
EXTENDS Integers

CONSTANTS
    MaxAttempts,    \* retry_policy.max_attempts of the execution plan
    Backend         \* "cloud_run", "fargate" or "dataproc"

ASSUME RunRecordAssumption ==
    /\ MaxAttempts \in Nat \ {0}
    /\ Backend \in {"cloud_run", "fargate", "dataproc"}

Attempts == 1 .. MaxAttempts

HostedRunState == {"queued", "running", "retrying", "canceling", "terminal"}
RunOutcome == {"unknown", "succeeded", "failed", "canceled"}
ResultsState == {"pending", "available", "unavailable"}
CleanupState == {"pending", "uncertain", "confirmed"}

AnyRecord == [state : HostedRunState, attempt : 0 .. MaxAttempts, outcome : RunOutcome,
              results : ResultsState, cleanup : CleanupState]

\* _validate_run_dimensions: what no RunRecord may contradict.
DimensionsOK(rec) ==
    /\ rec.state # "terminal" =>
         rec.outcome = "unknown" /\ rec.results = "pending" /\ rec.cleanup = "pending"
    /\ rec.state = "running" => rec.attempt # 0

Records == {rec \in AnyRecord : DimensionsOK(rec)}

\* No snapshot under this run id.
Absent == [state |-> "absent", attempt |-> 0, outcome |-> "unknown",
           results |-> "pending", cleanup |-> "pending"]

\* create_run_record
Queued == [Absent EXCEPT !.state = "queued"]

-----------------------------------------------------------------------------
\* The table of transition_run.
Allowed(state) ==
    CASE state = "queued"    -> {"queued", "running", "canceling", "terminal"}
      [] state = "running"   -> {"running", "retrying", "canceling", "terminal"}
      [] state = "retrying"  -> {"retrying", "running", "canceling", "terminal"}
      [] state = "canceling" -> {"canceling", "terminal"}
      [] state = "terminal"  -> {"terminal"}
      [] OTHER               -> {}

\* _require_monotonic_outcome, _results and _cleanup.
Monotonic(old, new) ==
    /\ old.outcome # "unknown" => new.outcome = old.outcome
    /\ old.results # "pending" => new.results = old.results
    /\ old.cleanup = "uncertain" => new.cleanup # "pending"
    /\ old.cleanup = "confirmed" => new.cleanup = "confirmed"

\* transition_run accepts the update instead of raising RunTransitionError.
CanTransition(old, new) ==
    /\ new.state \in Allowed(old.state)
    /\ Monotonic(old, new)

\* Mutant of NeedsReconciliation: a canceling run is left to the provider.
NeedsReconciliationUnlessCanceling(rec) ==
    \/ rec.state \in {"queued", "running", "retrying"}
    \/ rec.state = "terminal" /\ rec.cleanup # "confirmed"

\* run_needs_reconciliation
NeedsReconciliation(rec) ==
    \/ rec.state # "terminal"
    \/ rec.outcome = "unknown"
    \/ rec.results = "pending"
    \/ rec.cleanup # "confirmed"

-----------------------------------------------------------------------------
(***************************************************************************)
(* A provider execution: a Step Functions execution with its ECS task, a   *)
(* Cloud Run execution or a Dataproc batch (external).  "accepted" is a    *)
(* start that the provider took but does not list yet.  worker: its        *)
(* compute is still alive.  stop: it was asked to stop.                    *)
(***************************************************************************)
Ended == {"succeeded", "failed", "canceled"}
Phase == {"none", "accepted", "running"} \union Ended

Executions == [phase : Phase, worker : BOOLEAN, stop : BOOLEAN]

NoExecution == [phase |-> "none", worker |-> FALSE, stop |-> FALSE]

\* start_execution names the Fargate execution synchronously; Cloud Run and
\* Dataproc may answer 404 for a while.
Started ==
    IF Backend = "fargate"
    THEN [phase |-> "running", worker |-> TRUE, stop |-> FALSE]
    ELSE [phase |-> "accepted", worker |-> FALSE, stop |-> FALSE]

\* The cleanup_state of a terminal observation: _cleanup_state of the ECS task,
\* _restore_repair_job of the Cloud Run Job, always confirmed by Dataproc.
ObservedCleanup(e) ==
    CASE Backend = "fargate"   -> {"uncertain", IF e.worker THEN "pending" ELSE "confirmed"}
      [] Backend = "cloud_run" -> {"pending", "confirmed"}
      [] Backend = "dataproc"  -> {"confirmed"}

\* The results_state of a terminal observation.
ObservedResults(e) == IF e.phase = "succeeded" THEN "available" ELSE "unavailable"
=============================================================================
