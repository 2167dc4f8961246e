--------------------------- MODULE BackendExecutions ---------------------------
(***************************************************************************)
(* One attempt on a provider with deterministic execution names: Fargate   *)
(* behind a Step Functions controller, a Dataproc Serverless batch, and    *)
(* the result collection that all backends share.                          *)
(*                                                                         *)
(* The controller runs a task, and another one after a retryable exit, in  *)
(* one execution.  The result of a successful execution is a record at the *)
(* end of its log, which is delivered late and read in pages.              *)
(***************************************************************************)
EXTENDS Integers, Sequences, FiniteSets

CONSTANTS
    Backend,        \* "fargate", "cloud_run" or "dataproc"
    Workers,        \* Control processes that drive the attempt
    Retries,        \* launcher_retry_count
    MaxLines,       \* bound on the lines a task logs before its completion record
    PageSize,       \* _LOG_PAGE_SIZE
    MaxPages,       \* _MAX_LOG_PAGES
    MaxFaults,      \* bound on failed and lost calls
    None

BackendAssumption == Retries \in Nat /\ PageSize \in Nat \ {0} /\ MaxPages \in Nat \ {0}

VARIABLES
    exec,       \* the execution's status
    starts,     \* how often the service started it
    canceling,  \* a cancellation was accepted
    tasks,      \* the tasks of the execution: "running", "stopped" or "gone"
    log,        \* the records written, <<task, kind>>
    shown,      \* how many of them are delivered
    late,       \* a start request whose caller gave up is under way
    pc, page,   \* [Workers -> ...]
    summary,    \* [Workers -> the record that a worker's collection returned]
    report,     \* the last observation: [outcome, cleanup, result]
    faults

vars == <<exec, starts, canceling, tasks, log, shown, late, pc, page, summary, report, faults>>

service == <<exec, starts, canceling, tasks, log, shown, late>>

Closed == {"succeeded", "failed", "timed_out", "aborted"}

Init ==
    /\ exec = "absent" /\ starts = 0 /\ canceling = FALSE
    /\ tasks = <<>> /\ log = <<>> /\ shown = 0 /\ late = FALSE
    /\ pc = [w \in Workers |-> "submit"]
    /\ page = [w \in Workers |-> 1]
    /\ summary = [w \in Workers |-> None]
    /\ report = None /\ faults = 0

Goto(w, l) == pc' = [pc EXCEPT ![w] = l]

Fault == faults < MaxFaults /\ faults' = faults + 1

----------------------------------------------------------------------------
(* The service: the controller's state machine, its tasks and their logs. *)

Start == /\ exec' = "running" /\ starts' = starts + 1 /\ tasks' = Append(tasks, "running")
         /\ UNCHANGED <<canceling, log, shown>>

\* An execution name or batch id is used once.
Free == exec = "absent"

LateStart ==
    /\ late /\ late' = FALSE
    /\ IF Free THEN Start ELSE UNCHANGED <<exec, starts, canceling, tasks, log, shown>>
    /\ UNCHANGED <<pc, page, summary, report, faults>>

Current == Len(tasks)

WriteLine ==
    /\ exec = "running" /\ tasks[Current] = "running"
    /\ Cardinality({i \in DOMAIN log : log[i][1] = Current}) < MaxLines
    /\ log' = Append(log, <<Current, "line">>)
    /\ UNCHANGED <<exec, starts, canceling, tasks, shown, late, pc, page, summary, report, faults>>

\* Exit code 75, while launcher_attempt <= launcher_retry_count.
CanRetry(code) == code = "retry" /\ Current <= Retries /\ Backend # "dataproc"

\* The task writes its completion record and exits; the controller classifies
\* the exit code and runs the next task or ends the execution.
TaskExits(code) ==
    /\ exec = "running" /\ tasks[Current] = "running"
    /\ log' = Append(log, <<Current, IF code = "ok" THEN "done" ELSE "failed">>)
    /\ LET stopped == [tasks EXCEPT ![Current] = "stopped"]
       IN  IF CanRetry(code) THEN tasks' = Append(stopped, "running") /\ UNCHANGED exec
           ELSE tasks' = stopped /\ exec' = IF code = "ok" THEN "succeeded" ELSE "failed"
    /\ UNCHANGED <<starts, canceling, shown, late, pc, page, summary, report, faults>>

\* The deadline or a cancellation ends the execution before its task; the
\* batch services stop the compute first.
EndEarly(status) ==
    /\ exec = "running" /\ (status = "aborted" => canceling)
    /\ exec' = status
    /\ tasks' = IF Backend = "fargate" THEN tasks ELSE [tasks EXCEPT ![Current] = "stopped"]
    /\ UNCHANGED <<starts, canceling, log, shown, late, pc, page, summary, report, faults>>

StopTask ==
    /\ exec \in Closed /\ tasks[Current] = "running"
    /\ tasks' = [tasks EXCEPT ![Current] = "stopped"]
    /\ UNCHANGED <<exec, starts, canceling, log, shown, late, pc, page, summary, report, faults>>

\* ECS forgets a stopped task after a while.
Forget ==
    /\ Backend = "fargate" /\ exec \in Closed /\ tasks[Current] = "stopped"
    /\ tasks' = [tasks EXCEPT ![Current] = "gone"]
    /\ UNCHANGED <<exec, starts, canceling, log, shown, late, pc, page, summary, report, faults>>

Deliver ==
    /\ shown < Len(log) /\ shown' = shown + 1
    /\ UNCHANGED <<exec, starts, canceling, tasks, log, late, pc, page, summary, report, faults>>

----------------------------------------------------------------------------
(* submit_or_adopt *)

Look(w) ==
    /\ pc[w] = "submit"
    /\ \/ Goto(w, IF exec # "absent" THEN "submitted" ELSE "start") /\ UNCHANGED faults
       \/ Fault /\ UNCHANGED pc
    /\ UNCHANGED <<service, page, summary, report>>

\* Started, started with the answer lost, refused, or still under way.
StartExecution(w) ==
    /\ pc[w] = "start"
    /\ \/ /\ Free /\ Start /\ UNCHANGED late
          /\ \/ Goto(w, "submitted") /\ UNCHANGED faults
             \/ Fault /\ Goto(w, "look_again")
       \/ /\ ~Free /\ Goto(w, "look_again") /\ UNCHANGED <<service, faults>>
       \/ /\ Fault /\ late' = TRUE /\ Goto(w, "look_again")
          /\ UNCHANGED <<exec, starts, canceling, tasks, log, shown>>
    /\ UNCHANGED <<page, summary, report>>

\* Mutant: a failed start is taken for an adopted one.
LookAgainTrusting(w) ==
    /\ pc[w] = "look_again" /\ Goto(w, "submitted")
    /\ UNCHANGED <<service, page, summary, report, faults>>

LookAgain(w) ==
    /\ pc[w] = "look_again"
    /\ \/ Goto(w, IF exec # "absent" THEN "submitted" ELSE "submit") /\ UNCHANGED faults
       \/ Fault /\ Goto(w, "submit")
    /\ UNCHANGED <<service, page, summary, report>>

----------------------------------------------------------------------------
(* cancel *)

\* The answer may be lost; a status that is no longer running settles it.
Cancel(w) ==
    /\ pc[w] = "submitted" /\ exec = "running"
    /\ \/ canceling' = TRUE /\ (UNCHANGED faults \/ Fault)
       \/ Fault /\ UNCHANGED canceling
    /\ UNCHANGED <<exec, starts, tasks, log, shown, late, pc, page, summary, report>>

----------------------------------------------------------------------------
(* observe *)

OutcomeOf(status) ==
    CASE status = "succeeded" -> "succeeded" [] status = "aborted" -> "canceled" [] OTHER -> "failed"

Observe(w) ==
    /\ pc[w] = "submitted" /\ exec \in Closed
    /\ \/ /\ Goto(w, IF OutcomeOf(exec) = "succeeded" THEN "collect" ELSE "cleanup")
          /\ page' = [page EXCEPT ![w] = 1] /\ summary' = [summary EXCEPT ![w] = None]
          /\ UNCHANGED faults
       \/ Fault /\ UNCHANGED <<pc, page, summary>>
    /\ UNCHANGED <<service, report>>

ObserveRunning(w) ==
    /\ pc[w] = "submitted" /\ exec = "running"
    /\ UNCHANGED vars

\* Fargate reads the stream of the latest task, the others the execution's log:
\* the positions of the records to read, and those on page n.
Readable == {i \in 1..shown : Backend = "fargate" => log[i][1] = Current}

Page(n) == {i \in Readable :
              Cardinality({j \in Readable : j < i}) \in (n - 1) * PageSize .. n * PageSize - 1}

LastPage(n) == n * PageSize >= Cardinality(Readable) \/ n = MaxPages

Completions(positions) == {i \in positions : log[i][2] # "line"}

\* collect_execution_result_summary: pages from the start, each from its end;
\* the first completion record decides.  No result is an error of the observation.
Collect(w) ==
    /\ pc[w] = "collect"
    /\ LET found == Completions(Page(page[w]))
       IN  \/ \E i \in found :
                /\ \A j \in found : j <= i
                /\ \/ /\ log[i][2] = "done"
                      /\ summary' = [summary EXCEPT ![w] = log[i]] /\ Goto(w, "cleanup")
                   \/ log[i][2] = "failed" /\ Goto(w, "submitted") /\ UNCHANGED summary
                /\ UNCHANGED <<page, faults>>
           \/ /\ found = {} /\ ~LastPage(page[w])
              /\ page' = [page EXCEPT ![w] = @ + 1] /\ UNCHANGED <<pc, summary, faults>>
           \/ /\ found = {} /\ LastPage(page[w])
              /\ Goto(w, "submitted") /\ UNCHANGED <<page, summary, faults>>
           \/ /\ Fault /\ Goto(w, "submitted") /\ UNCHANGED <<page, summary>>
    /\ UNCHANGED <<service, report>>

\* _cleanup_state: the latest task is stopped, runs, or is not to be found.
CleanupOf ==
    IF Backend # "fargate" THEN "confirmed"
    ELSE CASE tasks[Current] = "stopped" -> "confirmed"
           [] tasks[Current] = "running" -> "pending"
           [] OTHER -> "uncertain"

Cleanup(w) ==
    /\ pc[w] = "cleanup"
    /\ \/ report' = [outcome |-> OutcomeOf(exec), cleanup |-> CleanupOf, result |-> summary[w]]
          /\ UNCHANGED faults
       \/ Fault /\ report' = [outcome |-> OutcomeOf(exec), cleanup |-> "uncertain", result |-> summary[w]]
    /\ Goto(w, IF report'.cleanup = "confirmed" THEN "reported" ELSE "submitted")
    /\ UNCHANGED <<service, page, summary>>

Rest == (\A w \in Workers : pc[w] = "reported") /\ UNCHANGED vars

Step(w) == Look(w) \/ StartExecution(w) \/ LookAgain(w) \/ Observe(w) \/ Collect(w) \/ Cleanup(w)

Service ==
    \/ LateStart \/ WriteLine \/ StopTask \/ Forget \/ Deliver
    \/ \E code \in {"ok", "retry", "fail"} : TaskExits(code)
    \/ \E status \in {"timed_out", "aborted"} : EndEarly(status)

Next ==
    \/ Service \/ Rest
    \/ \E w \in Workers : Step(w) \/ Cancel(w) \/ ObserveRunning(w)

Spec == Init /\ [][Next]_vars

----------------------------------------------------------------------------
(* Properties. *)

TypeOK ==
    /\ exec \in Closed \union {"absent", "running"} /\ starts \in Nat
    /\ shown \in 0..Len(log) /\ Len(tasks) <= Retries + 1
    /\ \A i \in DOMAIN tasks : tasks[i] \in {"running", "stopped", "gone"}

\* One attempt is one execution, whichever calls were lost or came late, and a
\* worker that goes on to observe has one to observe.
OneExecution ==
    /\ starts <= 1
    /\ \A w \in Workers : pc[w] \notin {"submit", "start", "look_again"} => starts = 1

\* A confirmed cleanup means that no task of the execution runs any more.
ConfirmedMeansStopped ==
    report # None /\ report.cleanup = "confirmed" => \A i \in DOMAIN tasks : tasks[i] # "running"

\* The reported result is the completion record of the last task, not of a
\* try before it, and only a successful execution has one.
ResultOfLastTask ==
    report # None => /\ report.outcome = "succeeded" <=> exec = "succeeded"
                     /\ report.outcome = "canceled" => canceling
                     /\ report.outcome = "succeeded" => report.result = <<Current, "done">>

----------------------------------------------------------------------------
(***************************************************************************)
(* The invariant, which ControlWorkProofs shows to be inductive for any    *)
(* number of processes, retries, pages, records and faults.                *)
(***************************************************************************)

Pcs == {"submit", "start", "look_again", "submitted", "collect", "cleanup", "reported"}

BackendTypes ==
    /\ exec \in Closed \union {"absent", "running"} /\ starts \in Nat
    /\ tasks \in Seq({"running", "stopped", "gone"})
    /\ log \in Seq(Nat \X {"line", "done", "failed"}) /\ shown \in 0..Len(log)
    /\ pc \in [Workers -> Pcs] /\ DOMAIN summary = Workers

\* The service: a name is used once, only the last task can run, and only the
\* last task of an execution that succeeded has a record of success.
ServiceOK ==
    /\ exec = "absent" => starts = 0 /\ tasks = <<>>
    /\ exec # "absent" => starts = 1 /\ Len(tasks) \in 1 .. Retries + 1
    /\ exec = "running" => tasks[Current] = "running"
    /\ exec = "aborted" => canceling
    /\ \A i \in DOMAIN tasks : i # Current => tasks[i] = "stopped"
    /\ \A i \in DOMAIN log : log[i][2] = "done" => exec = "succeeded" /\ log[i] = <<Current, "done">>

\* What a worker knows of the execution stays true.
WorkersOK ==
    \A w \in Workers :
      /\ pc[w] \notin {"submit", "start", "look_again"} => exec # "absent"
      /\ pc[w] \in {"collect", "cleanup"} => exec \in Closed
      /\ pc[w] = "cleanup" /\ exec = "succeeded" => summary[w] = <<Current, "done">>

\* And so does what was reported.
ReportOK ==
    report # None => /\ exec \in Closed /\ report.outcome = OutcomeOf(exec)
                     /\ exec = "succeeded" => report.result = <<Current, "done">>
                     /\ Backend = "fargate" /\ report.cleanup = "confirmed" => tasks[Current] # "running"

BackendInv == BackendTypes /\ ServiceOK /\ WorkersOK /\ ReportOK
=============================================================================
