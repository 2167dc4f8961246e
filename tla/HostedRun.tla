----------------------------- MODULE HostedRun -----------------------------
(***************************************************************************)
(* What Control promises about the durable record of every hosted run,     *)
(* with its processes, its snapshots, its store and its crashes hidden:    *)
(* the record only moves forward; work is launched once; what it says of   *)
(* an execution it has a handle for is true of that execution; and an      *)
(* execution is asked to stop only after the intent is durable.            *)
(***************************************************************************)
EXTENDS RunRecord

CONSTANT Runs

VARIABLES
    record,         \* record[r]: the stored snapshot, or Absent
    execution       \* execution[r][a]: the provider execution of attempt a

runVars == <<record, execution>>

Init ==
    /\ record = [r \in Runs |-> Absent]
    /\ execution = [r \in Runs |-> [a \in Attempts |-> NoExecution]]

SetRecord(r, rec) == record' = [record EXCEPT ![r] = rec]
SetExecution(r, a, e) == execution' = [execution EXCEPT ![r][a] = e]

Accept(r) ==
    /\ record[r] = Absent
    /\ SetRecord(r, Queued)
    /\ UNCHANGED execution

\* Only one execution is ever launched for a run.
Launch(r, a) ==
    /\ record[r] # Absent
    /\ \A b \in Attempts : execution[r][b] = NoExecution
    /\ SetExecution(r, a, Started)
    /\ UNCHANGED record

\* The record gets its handle.
Bind(r, a) ==
    /\ record[r].state = "queued"
    /\ execution[r][a] # NoExecution
    /\ SetRecord(r, [state |-> "running", attempt |-> a, outcome |-> "unknown",
                     results |-> "pending", cleanup |-> "pending"])
    /\ UNCHANGED execution

\* Cancellation of a run without a handle.
Withdraw(r) ==
    /\ record[r].state = "queued"
    /\ SetRecord(r, [state |-> "terminal", attempt |-> 0, outcome |-> "canceled",
                     results |-> "unavailable", cleanup |-> "confirmed"])
    /\ UNCHANGED execution

\* Cancellation of a run with one.
Intend(r) ==
    /\ record[r].state = "running"
    /\ SetRecord(r, [record[r] EXCEPT !.state = "canceling"])
    /\ UNCHANGED execution

AskToStop(r) ==
    /\ record[r].state \in {"canceling", "terminal"}
    /\ record[r].attempt # 0
    /\ execution[r][record[r].attempt].phase \in {"accepted", "running"}
    /\ SetExecution(r, record[r].attempt, [execution[r][record[r].attempt] EXCEPT !.stop = TRUE])
    /\ UNCHANGED record

\* The record follows an execution that has ended: the outcome is the
\* execution's, and cleanup is confirmed only when its compute is gone.
Settle(r) ==
    /\ record[r].attempt # 0
    /\ \E c \in CleanupState :
         LET e   == execution[r][record[r].attempt]
             new == [state |-> "terminal", attempt |-> record[r].attempt,
                     outcome |-> e.phase, results |-> ObservedResults(e), cleanup |-> c]
         IN  /\ e.phase \in Ended
             /\ c = "confirmed" => ~e.worker
             /\ CanTransition(record[r], new)
             /\ SetRecord(r, new)
    /\ UNCHANGED execution

\* The provider makes progress; it cancels only what it was asked to stop.
Progress(r, a) ==
    /\ \E e \in Executions :
         /\ execution[r][a].phase # "none" /\ e.phase # "none"
         /\ execution[r][a].phase \in Ended => e.phase = execution[r][a].phase
         /\ e.phase = "canceled" => execution[r][a].stop
         /\ execution[r][a].phase \in Ended /\ e.worker => execution[r][a].worker
         /\ e.stop = execution[r][a].stop
         /\ SetExecution(r, a, e)
    /\ UNCHANGED record

Next ==
    \E r \in Runs :
        \/ Accept(r) \/ Withdraw(r) \/ Intend(r) \/ AskToStop(r) \/ Settle(r)
        \/ \E a \in Attempts : Launch(r, a) \/ Bind(r, a) \/ Progress(r, a)

Spec == Init /\ [][Next]_runVars
=============================================================================
