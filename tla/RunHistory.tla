----------------------------- MODULE RunHistory -----------------------------
(***************************************************************************)
(* The run ledger of one pipeline (RunHistoryStore): one row per run id.   *)
(* Counters, stage names and summaries are left out; failure codes are     *)
(* grouped by what restart_retryable asks of them.                         *)
(***************************************************************************)
EXTENDS PipelineLease

VARIABLES
    history,        \* history[r]: the row of r
    startSeq        \* how many rows were inserted: the order of started_at

historyVars == <<history, startSeq>>

\* "none" is the absence of a row.
RunStatus == {"none", "running", "succeeded", "failed", "skipped"}

\* "retryable" stands for the five codes restart_retryable accepts, "final"
\* for the other failure codes, "interrupted" for interrupted_run.
FailureCode == {"none", "retryable", "final", "interrupted"}

NoRow == [status |-> "none", code |-> "none", started |-> 0]

HistoryTypeOK ==
    /\ history \in [Runs -> [status : RunStatus, code : FailureCode, started : Nat]]
    /\ startSeq \in Nat

HistoryInit ==
    /\ history = [r \in Runs |-> NoRow]
    /\ startSeq = 0

-----------------------------------------------------------------------------
\* An UPDATE of the row of r that keeps started_at.
SetStatus(r, status, code) ==
    history' = [history EXCEPT
      ![r] = [status |-> status, code |-> code, started |-> history[r].started]]

\* INSERT of a running row, stamped with the current time.
InsertRunning(r) ==
    /\ startSeq' = startSeq + 1
    /\ history' = [history EXCEPT
         ![r] = [status |-> "running", code |-> "none", started |-> startSeq + 1]]

\* start: a plain INSERT; run_id is the primary key.
HistoryStart(r) ==
    /\ history[r].status = "none"
    /\ InsertRunning(r)

\* Mutant of HistoryRestart: any recorded run may be put back to running.
HistoryRestartAny(r) ==
    \/ HistoryStart(r)
    \/ /\ history[r].status # "none"
       /\ SetStatus(r, "running", "none")
       /\ UNCHANGED startSeq

\* restart_retryable: insert, or put a retryable failure back to running with
\* its original started_at; any other row makes it raise.
HistoryRestart(r) ==
    \/ HistoryStart(r)
    \/ /\ history[r].status = "failed"
       /\ history[r].code = "retryable"
       /\ SetStatus(r, "running", "none")
       /\ UNCHANGED startSeq

\* checkpoint: an UPDATE keyed by run id alone.  BigQuery and PostgreSQL write
\* status 'running' and clear the failure; SQLite touches neither.
HistoryCheckpoint(r) ==
    /\ IF StateStore = "sqlite" \/ history[r].status = "none"
       THEN UNCHANGED history
       ELSE SetStatus(r, "running", "none")
    /\ UNCHANGED startSeq

\* finish: an UPDATE keyed by run id alone, with no test of the old status.
HistoryFinish(r, status, code) ==
    /\ IF history[r].status = "none"
       THEN UNCHANGED history
       ELSE SetStatus(r, status, code)
    /\ UNCHANGED startSeq

\* The WHERE of reconcile_interrupted: every active row of another run.
Interruptible(r, current) == r # current /\ history[r].status = "running"

\* reconcile_interrupted, called once by the run that has just acquired the lease.
ReconcileInterrupted(current) ==
    /\ history' = [r \in Runs |->
         IF Interruptible(r, current)
         THEN [status |-> "failed", code |-> "interrupted", started |-> history[r].started]
         ELSE history[r]]
    /\ UNCHANGED startSeq
=============================================================================
