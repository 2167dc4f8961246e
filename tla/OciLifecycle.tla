---------------------------- MODULE OciLifecycle ----------------------------
(***************************************************************************)
(* The lifecycle of one pipeline on OCI Container Instances.  Invocations  *)
(* of the OCI Function (a schedule, an event, an operator) run the         *)
(* controller's start, reconcile, cancel and replay over two services: the *)
(* Object Storage bucket with the pipeline's active object (the lock) and  *)
(* one history object per run, both written conditionally on ETags, and    *)
(* the Container Instances service.  A step is one call to a service.      *)
(***************************************************************************)
EXTENDS Naturals, FiniteSets, FiniteSetTheorems, TLAPS

CONSTANTS
    Procs,        \* invocations of the Function that may run at once
    Runs,         \* run ids: a digest of the idempotency key of a start
    MaxAttempts,  \* launcher_retry_count + 1
    MaxClock,     \* bound on the seconds told apart by updated_at
    MaxCrashes,   \* bound on invocations that end by an error or a timeout
    MaxLost,      \* bound on create calls whose answer is lost
    CanCancel,    \* whether an operator cancels
    None          \* no object, no record

OciAssumption ==
    /\ MaxAttempts \in 1..11
    /\ {MaxClock, MaxCrashes, MaxLost} \subseteq Nat
    /\ CanCancel \in BOOLEAN
    /\ None \notin Runs /\ IsFiniteSet(Procs)

VARIABLES
    active,    \* the active object: a record and its ETag, or None
    history,   \* the history object of each run, or None
    instance,  \* what the Container Instance of each attempt is doing
    late,      \* the runs whose deadline_at has passed
    clock,     \* the second that updated_at is set to
    proc,      \* the invocations
    crashes,
    lost

vars == <<active, history, instance, late, clock, proc, crashes, lost>>

Attempts == Runs \X (1..MaxAttempts)

TerminalStates == {"succeeded", "failed", "cancelled"}

\* The durable execution record: instance_id is present when inst is TRUE, since
\* the retry token of a create makes (run, attempt) the identity of an instance.
Execution ==
    [run : Runs, state : TerminalStates \cup {"pending", "running"},
     attempt : 1..MaxAttempts, inst : BOOLEAN, at : 0..MaxClock,
     failure : {None, "create", "deadline", "runtime", "interrupted"}]

terminal(e) == e.state \in TerminalStates

Versions == 1..(Cardinality(Procs) + 2)

Idle == [pc |-> "idle", op |-> None, run |-> None, next |-> None,
         stored |-> None, version |-> 0, update |-> None]

Init ==
    /\ active = None
    /\ history = [r \in Runs |-> None]
    /\ instance = [t \in Attempts |-> "none"]
    /\ late = {}
    /\ clock = 0
    /\ proc = [p \in Procs |-> Idle]
    /\ crashes = 0
    /\ lost = 0

-----------------------------------------------------------------------------
(* The conditional operations of the bucket.                               *)

\* An ETag is new with every write: it differs from the ones anybody holds.
NewVersion ==
    CHOOSE v \in Versions :
        /\ \A p \in Procs : proc[p].version # v
        /\ active # None => active.version # v

Goto(p, to) == proc' = [proc EXCEPT ![p].pc = to]

Fail(p) == proc' = [proc EXCEPT ![p] = Idle]

\* _monitor goes on until the record is terminal; the other operations answer.
Return(p, e) ==
    proc' = [proc EXCEPT ![p] =
        IF @.op \in {"start", "replay"} /\ ~terminal(e)
        THEN [Idle EXCEPT !.pc = "get", !.op = "start", !.run = proc[p].run]
        ELSE Idle]

\* Begin finish(stored, update).
BeginFinish(p, e) ==
    proc' = [proc EXCEPT ![p].pc = "finish", ![p].update = e,
                            ![p].stored = None, ![p].version = 0]

finished(e, state, failure) ==
    [e EXCEPT !.state = state, !.failure = failure, !.at = clock]

-----------------------------------------------------------------------------
(* Invocations begin.                                                      *)

Invoke(p, op, r, next) ==
    /\ proc[p].pc = "idle"
    /\ proc' = [proc EXCEPT ![p] =
            [Idle EXCEPT !.pc = IF op = "start" THEN "claim" ELSE "get",
                         !.op = op, !.run = r, !.next = next]]
    /\ UNCHANGED <<active, history, instance, late, clock, crashes, lost>>

Start(p) == \E r \in Runs : Invoke(p, "start", r, None)

Reconcile(p) == \E r \in Runs \cup {None} : Invoke(p, "reconcile", r, None)

Cancel(p) == CanCancel /\ \E r \in Runs : Invoke(p, "cancel", r, None)

Replay(p) == \E r, next \in Runs : r # next /\ Invoke(p, "replay", r, next)

-----------------------------------------------------------------------------
(* claim: a run that is in the history is not started again.               *)

ClaimHistory(p) ==
    /\ proc[p].pc = "claim"
    /\ IF history[proc[p].run] # None
       THEN Fail(p)
       ELSE Goto(p, "claim_put")
    /\ UNCHANGED <<active, history, instance, late, clock, crashes, lost>>

NewExecution(r) ==
    [run |-> r, state |-> "pending", attempt |-> 1, inst |-> FALSE,
     at |-> clock, failure |-> None]

\* put_object with if_none_match: the object is the pipeline's lock.
ClaimPut(p) ==
    /\ proc[p].pc = "claim_put"
    /\ IF active = None
       THEN /\ active' = [e |-> NewExecution(proc[p].run), version |-> NewVersion]
            /\ proc' = [proc EXCEPT ![p].pc = "create",
                                    ![p].stored = NewExecution(proc[p].run),
                                    ![p].version = NewVersion]
       ELSE /\ Goto(p, "claim_read")
            /\ UNCHANGED active
    /\ UNCHANGED <<history, instance, late, clock, crashes, lost>>

\* The claim met an active run: the same key joins it, another is refused.
ClaimRead(p) ==
    /\ proc[p].pc = "claim_read"
    /\ IF active = None \/ (active # None /\ active.e.run # proc[p].run)
       THEN Fail(p)
       ELSE Return(p, active.e)
    /\ UNCHANGED <<active, history, instance, late, clock, crashes, lost>>

-----------------------------------------------------------------------------
(* get, and what each operation does with the record it finds.             *)

\* reconcile and cancel select their next step from the stored record.
Dispatch(p, e, version) ==
    LET q == [proc[p] EXCEPT !.stored = e, !.version = version]
        to(pc) == proc' = [proc EXCEPT ![p] = [q EXCEPT !.pc = pc]]
        finish(u) == proc' = [proc EXCEPT ![p] =
                        [q EXCEPT !.pc = "finish", !.update = u, !.stored = None,
                                  !.version = 0]]
    IN  CASE q.op = "replay" ->
                IF terminal(e)
                THEN proc' = [proc EXCEPT ![p] =
                        [Idle EXCEPT !.pc = "claim", !.op = "start", !.run = q.next]]
                ELSE Fail(p)
          [] q.op = "cancel" ->
                CASE terminal(e) -> Fail(p)
                  [] ~terminal(e) /\ e.inst -> to("stop")
                  [] OTHER -> finish(finished(e, "cancelled", "interrupted"))
          [] OTHER ->
                CASE terminal(e) -> finish(e)
                  [] ~terminal(e) /\ ~e.inst -> to("create")
                  [] ~terminal(e) /\ e.inst /\ e.run \in late -> to("stop")
                  [] OTHER -> to("status")

\* The active object, when it is there and is about the run asked for.
GetActive(p) ==
    /\ proc[p].pc = "get"
    /\ CASE active # None /\ (proc[p].run = None \/ active.e.run = proc[p].run) ->
                Dispatch(p, active.e, active.version)
         [] active = None /\ proc[p].run = None -> Fail(p)
         [] OTHER -> Goto(p, "get_history")
    /\ UNCHANGED <<active, history, instance, late, clock, crashes, lost>>

GetHistory(p) ==
    /\ proc[p].pc = "get_history"
    /\ IF history[proc[p].run] = None
       THEN Fail(p)
       ELSE Dispatch(p, history[proc[p].run], 0)
    /\ UNCHANGED <<active, history, instance, late, clock, crashes, lost>>

-----------------------------------------------------------------------------
(* The Container Instances service, and the calls to it.                   *)

Attempt(e) == <<e.run, e.attempt>>

\* create_container_instance with the run and attempt as its retry token: a
\* repeated request answers with the instance the first one created.
CreateSucceeds(p) ==
    LET e == proc[p].stored
    IN  /\ proc[p].pc = "create"
        /\ instance' = [instance EXCEPT ![Attempt(e)] =
                            IF @ = "none" THEN "live" ELSE @]
        /\ proc' = [proc EXCEPT ![p].pc = "save",
                        ![p].update = [e EXCEPT !.state = "running", !.inst = TRUE,
                                                !.at = clock]]
        /\ UNCHANGED <<active, history, late, clock, crashes, lost>>

\* Whatever the create raises, the run is finished as failed.
CreateFails(p) ==
    LET e == proc[p].stored
    IN  /\ proc[p].pc = "create"
        /\ BeginFinish(p, finished(e, "failed", "create"))
        /\ UNCHANGED <<active, history, instance, late, clock, crashes, lost>>

\* The instance was created and its answer did not arrive.
CreateAnswerLost(p) ==
    LET e == proc[p].stored
    IN  /\ proc[p].pc = "create"
        /\ lost < MaxLost
        /\ lost' = lost + 1
        /\ instance' = [instance EXCEPT ![Attempt(e)] =
                            IF @ = "none" THEN "live" ELSE @]
        /\ BeginFinish(p, finished(e, "failed", "create"))
        /\ UNCHANGED <<active, history, late, clock, crashes>>

\* The container exits: 0, 75 (retry) or another code.
Exit(t) ==
    /\ instance[t] = "live"
    /\ \E code \in {"zero", "retry", "other"} :
            instance' = [instance EXCEPT ![t] = code]
    /\ UNCHANGED <<active, history, late, clock, proc, crashes, lost>>

StatusRetriesLive(p) ==
    LET e == proc[p].stored
    IN  /\ proc[p].pc = "status"
        /\ proc' = [proc EXCEPT ![p].pc = IF e.attempt < MaxAttempts THEN "save" ELSE "delete",
                        ![p].update =
                            IF e.attempt < MaxAttempts
                            THEN [e EXCEPT !.state = "pending", !.inst = FALSE,
                                           !.attempt = @ + 1, !.at = clock]
                            ELSE finished(e, "failed", "runtime")]
        /\ UNCHANGED <<active, history, instance, late, clock, crashes, lost>>

\* What reconcile does with an observation of an instance.
Status(p) ==
    LET e == proc[p].stored
        code == instance[Attempt(e)]
    IN  /\ proc[p].pc = "status"
        /\ IF code = "live"
           THEN proc' = [proc EXCEPT ![p].pc = "save",
                            ![p].update = [e EXCEPT !.state = "running", !.at = clock]]
           ELSE proc' = [proc EXCEPT ![p].pc = "delete",
                            ![p].update =
                                CASE code = "zero" -> finished(e, "succeeded", None)
                                  [] code = "retry" /\ e.attempt < MaxAttempts ->
                                        [e EXCEPT !.state = "pending", !.inst = FALSE,
                                                  !.attempt = @ + 1, !.at = clock]
                                  [] OTHER -> finished(e, "failed", "runtime")]
        /\ UNCHANGED <<active, history, instance, late, clock, crashes, lost>>

\* _stop_capture_delete, for a cancel or a deadline.
Stop(p) ==
    LET e == proc[p].stored
    IN  /\ proc[p].pc = "stop"
        /\ instance' = [instance EXCEPT ![Attempt(e)] = IF @ = "live" THEN "other" ELSE @]
        /\ proc' = [proc EXCEPT ![p].pc = "delete",
                        ![p].update = IF proc[p].op = "cancel"
                                      THEN finished(e, "cancelled", "interrupted")
                                      ELSE finished(e, "failed", "deadline")]
        /\ UNCHANGED <<active, history, late, clock, crashes, lost>>

\* A deleted instance no longer runs; a retry is saved, an end is finished.
Delete(p) ==
    LET e == proc[p].stored
    IN  /\ proc[p].pc = "delete"
        /\ instance' = [instance EXCEPT ![Attempt(e)] = IF @ = "live" THEN "other" ELSE @]
        /\ IF terminal(proc[p].update)
           THEN BeginFinish(p, proc[p].update)
           ELSE Goto(p, "save")
        /\ UNCHANGED <<active, history, late, clock, crashes, lost>>

-----------------------------------------------------------------------------
(* save and finish.                                                        *)

\* save: put_object with if_match.  A saved retry is launched at once.
Save(p) ==
    LET u == proc[p].update
    IN  /\ proc[p].pc = "save"
        /\ IF active = None \/ (active # None /\ active.version # proc[p].version)
           THEN Fail(p) /\ UNCHANGED active
           ELSE /\ active' = [e |-> u, version |-> NewVersion]
                /\ IF u.state = "pending"
                   THEN proc' = [proc EXCEPT ![p].pc = "create", ![p].stored = u,
                                             ![p].version = NewVersion,
                                             ![p].update = None]
                   ELSE Return(p, u)
        /\ UNCHANGED <<history, instance, late, clock, crashes, lost>>

\* finish reads the active object again, and needs it to be about this run.
FinishRead(p) ==
    LET u == proc[p].update
    IN  /\ proc[p].pc = "finish"
        /\ CASE active = None -> Goto(p, "finish_check")
             [] active # None /\ active.e.run # u.run -> Fail(p)
             [] OTHER -> proc' = [proc EXCEPT ![p].pc = "finish_save",
                                              ![p].version = active.version]
        /\ UNCHANGED <<active, history, instance, late, clock, crashes, lost>>

\* Without an active object the history must already hold this very record.
FinishCheck(p) ==
    /\ proc[p].pc = "finish_check"
    /\ IF history[proc[p].update.run] = proc[p].update
       THEN Return(p, proc[p].update)
       ELSE Fail(p)
    /\ UNCHANGED <<active, history, instance, late, clock, crashes, lost>>

FinishSave(p) ==
    /\ proc[p].pc = "finish_save"
    /\ IF active = None \/ (active # None /\ active.version # proc[p].version)
       THEN Fail(p) /\ UNCHANGED active
       ELSE /\ active' = [e |-> proc[p].update, version |-> NewVersion]
            /\ proc' = [proc EXCEPT ![p].pc = "finish_history",
                                    ![p].version = NewVersion]
    /\ UNCHANGED <<history, instance, late, clock, crashes, lost>>

\* put_object with if_none_match: the same record is a repeat, another conflicts.
FinishHistory(p) ==
    LET u == proc[p].update
    IN  /\ proc[p].pc = "finish_history"
        /\ CASE history[u.run] = None ->
                    history' = [history EXCEPT ![u.run] = u] /\ Goto(p, "release")
             [] history[u.run] = u -> UNCHANGED history /\ Goto(p, "release")
             [] OTHER -> UNCHANGED history /\ Fail(p)
        /\ UNCHANGED <<active, instance, late, clock, crashes, lost>>

\* delete_object with if_match: 404 is success, a changed object is an error.
Release(p) ==
    /\ proc[p].pc = "release"
    /\ CASE active = None -> Return(p, proc[p].update) /\ UNCHANGED active
         [] active # None /\ active.version = proc[p].version ->
                Return(p, proc[p].update) /\ active' = None
         [] OTHER -> Fail(p) /\ UNCHANGED active
    /\ UNCHANGED <<history, instance, late, clock, crashes, lost>>

-----------------------------------------------------------------------------
(* Errors of a call and timeouts of the Function, time.                    *)

Crash(p) ==
    /\ proc[p].pc # "idle"
    /\ crashes < MaxCrashes
    /\ crashes' = crashes + 1
    /\ Fail(p)
    /\ UNCHANGED <<active, history, instance, late, clock, lost>>

Tick ==
    /\ clock < MaxClock
    /\ clock' = clock + 1
    /\ UNCHANGED <<active, history, instance, late, proc, crashes, lost>>

Expire(r) ==
    /\ r \notin late
    /\ late' = late \cup {r}
    /\ UNCHANGED <<active, history, instance, clock, proc, crashes, lost>>

Step(p) ==
    \/ ClaimHistory(p) \/ ClaimPut(p) \/ ClaimRead(p)
    \/ GetActive(p) \/ GetHistory(p)
    \/ CreateSucceeds(p) \/ CreateFails(p) \/ CreateAnswerLost(p)
    \/ Status(p) \/ Stop(p) \/ Delete(p) \/ Save(p)
    \/ FinishRead(p) \/ FinishCheck(p) \/ FinishSave(p)
    \/ FinishHistory(p) \/ Release(p)

Next ==
    \/ \E p \in Procs :
        \/ Start(p) \/ Reconcile(p) \/ Cancel(p) \/ Replay(p)
        \/ Step(p) \/ Crash(p)
    \/ \E t \in Attempts : Exit(t)
    \/ Tick
    \/ \E r \in Runs : Expire(r)

Spec == Init /\ [][Next]_vars

-----------------------------------------------------------------------------

\* Every object, instance and invocation holds a value of its type.
TypeOK ==
    /\ active = None \/ active \in [e : Execution, version : Versions]
    /\ history \in [Runs -> {h \in Execution : terminal(h)} \cup {None}]
    /\ instance \in [Attempts -> {"none", "live", "zero", "retry", "other"}]
    /\ late \subseteq Runs
    /\ clock \in 0..MaxClock
    /\ \A p \in Procs :
        /\ proc[p].stored \in Execution \cup {None}
        /\ proc[p].update \in Execution \cup {None}
        /\ proc[p].version \in Versions \cup {0}

Live == {t \in Attempts : instance[t] = "live"}

\* An attempt is created only after the attempt before it has ended: whatever
\* invocations overlap, a run never has two containers running at once, and no
\* attempt was skipped (controller.reconcile and the create's retry token).
OneAttemptAtATime ==
    \A t \in Attempts :
        instance[t] # "none" /\ t[2] > 1 => instance[<<t[1], t[2] - 1>>] = "retry"

\* A run preserved as succeeded has a container that exited with 0, and none of
\* its containers is still running.
SuccessIsReal ==
    \A r \in Runs :
        (history[r] # None /\ history[r].state = "succeeded") =>
            /\ instance[<<r, history[r].attempt>>] = "zero"
            /\ \A t \in Live : t[1] # r

\* The terminal history of a run never changes once it is preserved.
HistoryImmutable ==
    \A r \in Runs : history[r] # None => history'[r] = history[r]

-----------------------------------------------------------------------------
(***************************************************************************)
(* Proofs.  An exit code is final, and every record, wherever it is stored *)
(* or held, says only what the exit codes say: the attempts before its own *)
(* ended with a retry, and a success exited with 0.                        *)
(***************************************************************************)

Pcs == {"idle", "claim", "claim_put", "claim_read", "get", "get_history", "create", "status", "stop",
        "delete", "save", "finish", "finish_check", "finish_save", "finish_history", "release"}

ProcSet ==
    [pc : Pcs, op : {"start", "reconcile", "cancel", "replay", None}, run : Runs \cup {None},
     next : Runs \cup {None}, stored : Execution \cup {None}, version : Versions \cup {0},
     update : Execution \cup {None}]

Codes == {"none", "live", "zero", "retry", "other"}

\* The attempts of r before k have ended with a retry.
Earlier(r, k) == \A j \in 1..MaxAttempts : j < k => instance[<<r, j>>] = "retry"

RecordOK(e) ==
    /\ e \in Execution /\ Earlier(e.run, e.attempt)
    /\ e.state = "succeeded" => instance[<<e.run, e.attempt>>] = "zero"

\* What an invocation holds at each point of its work.
ProcOK(q) ==
    /\ q \in ProcSet
    /\ q.pc \in {"claim", "claim_put", "claim_read", "get_history"} => q.run \in Runs
    /\ q.pc # "idle" /\ q.op = "replay" => q.next \in Runs
    /\ q.pc \in {"create", "status", "stop", "delete"} => RecordOK(q.stored)
    /\ q.pc \in {"delete", "save", "finish", "finish_check", "finish_save", "finish_history", "release"}
          => RecordOK(q.update)
    /\ q.pc \in {"finish", "finish_check", "finish_save", "finish_history", "release"} => terminal(q.update)

Types ==
    /\ instance \in [Attempts -> Codes] /\ late \subseteq Runs /\ clock \in 0..MaxClock
    /\ proc \in [Procs -> ProcSet] /\ history \in [Runs -> Execution \cup {None}]

\* An attempt that was created follows attempts that have ended with a retry.
InOrder == \A r \in Runs, k \in 1..MaxAttempts : instance[<<r, k>>] # "none" => Earlier(r, k)

ActiveOK ==
    active # None => active \in [e : Execution, version : Versions] /\ \A e \in {active.e} : RecordOK(e)

HistoryOK ==
    \A r \in Runs : \A e \in {history[r]} : e # None => RecordOK(e) /\ terminal(e) /\ e.run = r

\* The inductive invariant.
OciInv ==
    /\ Types /\ InOrder /\ ActiveOK /\ HistoryOK
    /\ \A p \in Procs : \A q \in {proc[p]} : ProcOK(q)

\* An exit code is final.
Grows ==
    /\ instance' \in [Attempts -> Codes]
    /\ \A t \in Attempts : instance[t] \in {"zero", "retry", "other"} => instance'[t] = instance[t]

\* A record that was right stays right.
LEMMA RecordStays ==
    ASSUME Grows, NEW e, RecordOK(e)
    PROVE  RecordOK(e)'
<1>1. e.run \in Runs /\ e.attempt \in 1..MaxAttempts
  BY DEF RecordOK, Execution
<1>2. \A k \in 1..MaxAttempts : <<e.run, k>> \in Attempts
  BY <1>1 DEF Attempts
<1> QED BY <1>1, <1>2 DEF RecordOK, Earlier, Grows

\* And so does an invocation that takes no step.
LEMMA ProcStays ==
    ASSUME Grows, NEW q, ProcOK(q)
    PROVE  ProcOK(q)'
BY RecordStays DEF ProcOK

\* What a step leaves of the invariant.
LEMMA OciStep ==
    ASSUME OciInv, Grows, InOrder', ActiveOK', HistoryOK', history' \in [Runs -> Execution \cup {None}],
           late' \subseteq Runs, clock' \in 0..MaxClock,
           NEW p \in Procs, NEW q, ProcOK(q)', proc' = [proc EXCEPT ![p] = q]
    PROVE  OciInv'
<1>1. proc \in [Procs -> ProcSet] /\ q \in ProcSet
  BY DEF OciInv, Types, ProcOK
<1>2. proc' \in [Procs -> ProcSet] /\ proc'[p] = q /\ \A s \in Procs \ {p} : proc'[s] = proc[s]
  BY <1>1
<1>3. Types'
  BY <1>2 DEF Types, Grows
<1>4. ASSUME NEW s \in Procs, NEW x \in {proc'[s]} PROVE ProcOK(x)'
  <2>1. CASE s = p
    BY <2>1, <1>2
  <2>2. CASE s # p
    <3>1. x = proc[s] /\ ProcOK(x)
      BY <2>2, <1>2 DEF OciInv
    <3> QED BY <3>1, ProcStays
  <2> QED BY <2>1, <2>2
<1> QED BY <1>3, <1>4 DEF OciInv

\* The objects stay right while no one writes them.
LEMMA ObjectsStay ==
    ASSUME OciInv, Grows
    PROVE  /\ (active' = active => ActiveOK') /\ (history' = history => HistoryOK')
<1>1. ASSUME active' = active PROVE ActiveOK'
  <2>1. ASSUME active # None, NEW e \in {active'.e} PROVE RecordOK(e)'
    BY <1>1, <2>1, RecordStays DEF OciInv, ActiveOK
  <2> QED BY <1>1, <2>1 DEF OciInv, ActiveOK
<1>2. ASSUME history' = history PROVE HistoryOK'
  <2>1. ASSUME NEW r \in Runs, NEW e \in {history'[r]}, e # None
        PROVE  RecordOK(e)' /\ terminal(e) /\ e.run = r
    BY <1>2, <2>1, RecordStays DEF OciInv, HistoryOK
  <2> QED BY <2>1 DEF HistoryOK, terminal
<1> QED BY <1>1, <1>2

\* A step that changes nothing but the invocation that takes it.
LEMMA ProcStep ==
    ASSUME OciInv, NEW p \in Procs, NEW q, ProcOK(q), proc' = [proc EXCEPT ![p] = q],
           UNCHANGED <<active, history, instance, late, clock>>
    PROVE  OciInv'
<1>1. Grows /\ InOrder' /\ late' \subseteq Runs /\ clock' \in 0..MaxClock /\ history' \in [Runs -> Execution \cup {None}]
  BY DEF OciInv, Types, Grows, InOrder, Earlier
<1> QED BY <1>1, ObjectsStay, ProcStays, OciStep

\* The instance of a right record is created.
LEMMA InstanceCreated ==
    ASSUME OciInv, NEW e, RecordOK(e),
           instance' = [instance EXCEPT ![Attempt(e)] = IF @ = "none" THEN "live" ELSE @]
    PROVE  Grows /\ InOrder'
<1>1. /\ e.run \in Runs /\ e.attempt \in 1..MaxAttempts /\ Attempt(e) = <<e.run, e.attempt>>
      /\ Attempt(e) \in Attempts /\ instance \in [Attempts -> Codes]
  BY DEF RecordOK, Execution, Attempt, Attempts, OciInv, Types
<1>2. \A r \in Runs, k \in 1..MaxAttempts : <<r, k>> \in Attempts
  BY DEF Attempts
<1>3. /\ instance'[Attempt(e)] = IF instance[Attempt(e)] = "none" THEN "live" ELSE instance[Attempt(e)]
      /\ \A t \in Attempts \ {Attempt(e)} : instance'[t] = instance[t]
  BY <1>1
<1>4. Grows
  BY <1>1, <1>3 DEF Grows, Codes
<1>5. ASSUME NEW r \in Runs, NEW k \in 1..MaxAttempts, instance'[<<r, k>>] # "none" PROVE Earlier(r, k)
  <2>1. CASE <<r, k>> = Attempt(e)
    <3>1. r = e.run /\ k = e.attempt
      BY <2>1, <1>1
    <3> QED BY <3>1 DEF RecordOK
  <2>2. CASE <<r, k>> # Attempt(e)
    BY <1>2, <1>3, <1>5, <2>2 DEF OciInv, InOrder
  <2> QED BY <2>1, <2>2
<1>6. ASSUME NEW r \in Runs, NEW k \in 1..MaxAttempts, Earlier(r, k) PROVE Earlier(r, k)'
  BY <1>2, <1>4, <1>6 DEF Earlier, Grows
<1> QED BY <1>4, <1>5, <1>6 DEF InOrder

\* An instance ends.
LEMMA InstanceEnds ==
    ASSUME OciInv, NEW t \in Attempts, NEW code \in {"zero", "retry", "other"},
           instance' = [instance EXCEPT ![t] = IF @ = "live" THEN code ELSE @]
    PROVE  Grows /\ InOrder'
<1>1. instance \in [Attempts -> Codes]
  BY DEF OciInv, Types
<1>2. \A r \in Runs, k \in 1..MaxAttempts : <<r, k>> \in Attempts
  BY DEF Attempts
<1>3. Grows /\ \A s \in Attempts : instance'[s] # "none" => instance[s] # "none"
  BY <1>1 DEF Grows, Codes
<1>4. ASSUME NEW r \in Runs, NEW k \in 1..MaxAttempts, Earlier(r, k) PROVE Earlier(r, k)'
  BY <1>2, <1>3, <1>4 DEF Earlier, Grows
<1> QED BY <1>2, <1>3, <1>4 DEF OciInv, InOrder

\* An idle invocation.
LEMMA IdleOK == ProcOK(Idle)
BY DEF ProcOK, ProcSet, Idle, Pcs

\* There is an ETag that nobody holds.
LEMMA FreshVersion ==
    ASSUME OciInv, OciAssumption
    PROVE  NewVersion \in Versions
<1>1. Cardinality(Procs) \in Nat /\ IsFiniteSet(Procs)
  BY FS_CardinalityType DEF OciAssumption
<1>2. PICK f : f = [p \in Procs |-> proc[p].version]
  OBVIOUS
<1>3. PICK T : T = {proc[p].version : p \in Procs}
  OBVIOUS
<1>4. f \in Surjection(Procs, T)
  BY <1>2, <1>3 DEF Surjection
<1>5. IsFiniteSet(T) /\ Cardinality(T) <= Cardinality(Procs) /\ Cardinality(T) \in Nat
  BY <1>1, <1>4, FS_Surjection, FS_CardinalityType
<1>6. PICK a : a = active.version
  OBVIOUS
<1>7. /\ IsFiniteSet(T \cup {a}) /\ Cardinality(T \cup {a}) \in Nat
      /\ Cardinality(T \cup {a}) <= Cardinality(Procs) + 1
  <2>1. IsFiniteSet(T \cup {a}) /\ Cardinality(T \cup {a}) \in {Cardinality(T), Cardinality(T) + 1}
    BY <1>5, FS_AddElement
  <2> QED BY <2>1, <1>1, <1>5
<1>8. Cardinality(Versions) = Cardinality(Procs) + 2
  <2>1. 1 \in Int /\ Cardinality(Procs) + 2 \in Int /\ ~(1 > Cardinality(Procs) + 2)
        /\ Cardinality(Procs) + 2 - 1 + 1 = Cardinality(Procs) + 2
    BY <1>1
  <2> QED BY <2>1, FS_Interval DEF Versions
<1>9. ~(Versions \subseteq T \cup {a})
  <2>1. SUFFICES ASSUME Versions \in SUBSET (T \cup {a}) PROVE FALSE
    OBVIOUS
  <2>2. Cardinality(Versions) <= Cardinality(T \cup {a})
    BY <2>1, <1>7, FS_Subset
  <2> QED BY <2>2, <1>1, <1>7, <1>8
<1>10. \E v \in Versions : (\A p \in Procs : proc[p].version # v) /\ (active # None => active.version # v)
  BY <1>3, <1>6, <1>9
<1> QED BY <1>10 DEF NewVersion

\* The initial state is right.
LEMMA OciInvInit ==
    ASSUME OciAssumption, Init
    PROVE  OciInv
<1>1. \A p \in Procs : proc[p] = Idle
  BY DEF Init
<1>2. Types
  BY IdleOK DEF Init, Types, Codes, OciAssumption, ProcOK
<1>3. \A r \in Runs, k \in 1..MaxAttempts : <<r, k>> \in Attempts
  BY DEF Attempts
<1>4. InOrder
  BY <1>3 DEF Init, InOrder
<1> QED BY <1>1, <1>2, <1>4, IdleOK DEF Init, OciInv, ActiveOK, HistoryOK

-----------------------------------------------------------------------------
(* The steps. *)

\* An invocation begins, fails, or goes to another point of its work.
LEMMA FailInv ==
    ASSUME OciInv, NEW p \in Procs, Fail(p), UNCHANGED <<active, history, instance, late, clock>>
    PROVE  OciInv'
BY IdleOK, ProcStep DEF Fail

\* An invocation that answers, or goes on to monitor the run.
LEMMA Returned ==
    ASSUME OciInv, NEW p \in Procs, NEW e, Return(p, e)
    PROVE  \E q : ProcOK(q) /\ q.pc \in {"idle", "get"} /\ proc' = [proc EXCEPT ![p] = q]
<1>1. PICK q : q = [Idle EXCEPT !.pc = "get", !.op = "start", !.run = proc[p].run]
  OBVIOUS
<1>2. proc[p].run \in Runs \cup {None}
  BY DEF OciInv, Types, ProcSet
<1>3. ProcOK(q) /\ q.pc = "get"
  BY <1>1, <1>2 DEF ProcOK, ProcSet, Idle, Pcs
<1>4. ProcOK(Idle) /\ Idle.pc = "idle"
  BY IdleOK DEF Idle
<1>5. \/ proc' = [proc EXCEPT ![p] = q]
      \/ proc' = [proc EXCEPT ![p] = Idle]
  BY <1>1 DEF Return
<1> QED BY <1>3, <1>4, <1>5

\* An invocation that is right at the other point goes there.
LEMMA Going ==
    ASSUME OciInv, NEW p \in Procs, NEW to \in Pcs, Goto(p, to)
    PROVE  \E q : /\ proc' = [proc EXCEPT ![p] = q] /\ q \in ProcSet /\ q.pc = to
                  /\ q.op = proc[p].op /\ q.run = proc[p].run /\ q.next = proc[p].next
                  /\ q.stored = proc[p].stored /\ q.update = proc[p].update
<1>1. proc[p] \in ProcSet
  BY DEF OciInv, Types
<1>2. PICK q : q = [proc[p] EXCEPT !.pc = to]
  OBVIOUS
<1>3. /\ q \in ProcSet /\ q.pc = to /\ q.op = proc[p].op /\ q.run = proc[p].run /\ q.next = proc[p].next
      /\ q.stored = proc[p].stored /\ q.update = proc[p].update
  BY <1>1, <1>2 DEF ProcSet
<1>4. proc' = [proc EXCEPT ![p] = q]
  BY <1>2 DEF Goto
<1> QED BY <1>3, <1>4

\* start, reconcile, cancel and replay begin.
LEMMA InvokeInv ==
    ASSUME OciInv, NEW p \in Procs, Start(p) \/ Reconcile(p) \/ Cancel(p) \/ Replay(p)
    PROVE  OciInv'
<1>1. \E op \in {"start", "reconcile", "cancel", "replay"}, r \in Runs \cup {None}, n \in Runs \cup {None} :
        /\ Invoke(p, op, r, n) /\ (op = "start" => r \in Runs) /\ (op = "replay" => n \in Runs)
  BY DEF Start, Reconcile, Cancel, Replay
<1>2. PICK op \in {"start", "reconcile", "cancel", "replay"}, r \in Runs \cup {None}, n \in Runs \cup {None} :
        /\ Invoke(p, op, r, n) /\ (op = "start" => r \in Runs) /\ (op = "replay" => n \in Runs)
  BY <1>1
<1>3. PICK q : q = [Idle EXCEPT !.pc = IF op = "start" THEN "claim" ELSE "get", !.op = op, !.run = r, !.next = n]
  OBVIOUS
<1>4. ProcOK(q)
  BY <1>2, <1>3 DEF ProcOK, ProcSet, Idle, Pcs
<1>5. proc' = [proc EXCEPT ![p] = q] /\ UNCHANGED <<active, history, instance, late, clock>>
  BY <1>2, <1>3 DEF Invoke
<1> QED BY <1>4, <1>5, ProcStep

\* A new execution is right: it has no earlier attempt.
LEMMA NewExecutionOK ==
    ASSUME OciInv, OciAssumption, NEW r \in Runs
    PROVE  RecordOK(NewExecution(r))
<1>1. 1 \in 1..MaxAttempts /\ clock \in 0..MaxClock
  BY DEF OciAssumption, OciInv, Types
<1>2. NewExecution(r) \in Execution /\ NewExecution(r).attempt = 1 /\ NewExecution(r).state = "pending"
  BY <1>1 DEF NewExecution, Execution
<1>3. Earlier(r, 1)
  BY DEF Earlier
<1>4. NewExecution(r).run = r
  BY DEF NewExecution
<1> QED BY <1>2, <1>3, <1>4 DEF RecordOK

\* The claim of a run.
LEMMA ClaimInv ==
    ASSUME OciInv, OciAssumption, NEW p \in Procs, ClaimHistory(p) \/ ClaimPut(p) \/ ClaimRead(p)
    PROVE  OciInv'
<1>1. /\ ProcOK(proc[p]) /\ proc[p] \in ProcSet /\ UNCHANGED <<history, instance, late, clock>>
      /\ proc[p].run \in Runs
  BY DEF OciInv, ClaimHistory, ClaimPut, ClaimRead, ProcOK
<1>2. CASE ClaimHistory(p)
  <2>1. UNCHANGED active /\ (Fail(p) \/ Goto(p, "claim_put"))
    BY <1>2 DEF ClaimHistory
  <2>2. CASE Goto(p, "claim_put")
    <3>1. PICK q : /\ proc' = [proc EXCEPT ![p] = q] /\ q \in ProcSet /\ q.pc = "claim_put"
                   /\ q.op = proc[p].op /\ q.run = proc[p].run /\ q.next = proc[p].next
      BY <2>2, Going DEF Pcs
    <3>2. ProcOK(q)
      BY <1>1, <1>2, <3>1 DEF ProcOK, ClaimHistory
    <3> QED BY <1>1, <2>1, <3>1, <3>2, ProcStep
  <2> QED BY <1>1, <2>1, <2>2, FailInv
<1>3. CASE ClaimRead(p)
  <2>1. UNCHANGED active /\ (Fail(p) \/ Return(p, active.e))
    BY <1>3 DEF ClaimRead
  <2> QED BY <1>1, <2>1, FailInv, Returned, ProcStep
<1>4. CASE ClaimPut(p) /\ active # None
  <2>1. UNCHANGED active /\ Goto(p, "claim_read")
    BY <1>4 DEF ClaimPut
  <2>2. PICK q : /\ proc' = [proc EXCEPT ![p] = q] /\ q \in ProcSet /\ q.pc = "claim_read"
                 /\ q.op = proc[p].op /\ q.run = proc[p].run /\ q.next = proc[p].next
    BY <2>1, Going DEF Pcs
  <2>3. ProcOK(q)
    BY <1>1, <1>4, <2>2 DEF ProcOK, ClaimPut
  <2> QED BY <1>1, <2>1, <2>2, <2>3, ProcStep
<1>5. CASE ClaimPut(p) /\ active = None
  <2>1. PICK e : e = NewExecution(proc[p].run) /\ RecordOK(e) /\ e \in Execution
    BY <1>1, NewExecutionOK DEF RecordOK
  <2>2. PICK v \in Versions : v = NewVersion
    BY FreshVersion
  <2>3. PICK q : q = [proc[p] EXCEPT !.pc = "create", !.stored = e, !.version = v]
    OBVIOUS
  <2>4. active' = [e |-> e, version |-> v] /\ proc' = [proc EXCEPT ![p] = q]
    BY <1>5, <2>1, <2>2, <2>3 DEF ClaimPut
  <2>5. /\ q \in ProcSet /\ q.pc = "create" /\ q.stored = e /\ q.op = proc[p].op /\ q.next = proc[p].next
    BY <1>1, <2>1, <2>2, <2>3 DEF ProcSet, Pcs
  <2>6. ProcOK(q)
    BY <1>1, <1>5, <2>1, <2>5 DEF ProcOK, ClaimPut
  <2>7. Grows /\ InOrder' /\ late' \subseteq Runs /\ clock' \in 0..MaxClock /\ history' \in [Runs -> Execution \cup {None}]
    BY <1>1 DEF OciInv, Types, Grows, InOrder, Earlier
  <2>8. ActiveOK'
    BY <2>1, <2>4, <2>7, RecordStays DEF ActiveOK
  <2> QED BY <1>1, <2>4, <2>6, <2>7, <2>8, ObjectsStay, ProcStays, OciStep
<1> QED BY <1>2, <1>3, <1>4, <1>5

\* The record of an end is right.
LEMMA FinishedOK ==
    ASSUME OciInv, NEW e, RecordOK(e), NEW s \in TerminalStates, NEW f \in {None, "create", "deadline", "runtime", "interrupted"},
           s = "succeeded" => instance[Attempt(e)] = "zero"
    PROVE  RecordOK(finished(e, s, f)) /\ terminal(finished(e, s, f)) /\ finished(e, s, f) \in Execution
<1>1. e \in Execution /\ clock \in 0..MaxClock /\ Attempt(e) = <<e.run, e.attempt>>
  BY DEF RecordOK, OciInv, Types, Attempt
<1>2. PICK u : u = finished(e, s, f)
  OBVIOUS
<1>3. u \in Execution /\ u.run = e.run /\ u.attempt = e.attempt /\ u.state = s
  BY <1>1, <1>2 DEF finished, Execution
<1> QED BY <1>1, <1>2, <1>3 DEF RecordOK, terminal

\* What reconcile, cancel and replay do with the record they find.
LEMMA DispatchInv ==
    ASSUME OciInv, NEW p \in Procs, NEW e, RecordOK(e), NEW version \in Versions \cup {0},
           Dispatch(p, e, version), proc[p].pc # "idle",
           UNCHANGED <<active, history, instance, late, clock>>
    PROVE  OciInv'
<1>1. proc[p] \in ProcSet /\ ProcOK(proc[p]) /\ e \in Execution
  BY DEF OciInv, ProcOK, RecordOK
<1>2. PICK x : x = [proc[p] EXCEPT !.stored = e, !.version = version]
  OBVIOUS
<1>3. /\ x \in ProcSet /\ x.stored = e /\ x.op = proc[p].op /\ x.next = proc[p].next /\ x.run = proc[p].run
  BY <1>1, <1>2 DEF ProcSet
<1>4. x.op = "replay" => x.next \in Runs
  BY <1>1, <1>3 DEF ProcOK
<1>5. \/ Fail(p)
      \/ x.op = "replay" /\ proc' = [proc EXCEPT ![p] = [Idle EXCEPT !.pc = "claim", !.op = "start", !.run = x.next]]
      \/ \E to \in {"stop", "create", "status"} : proc' = [proc EXCEPT ![p] = [x EXCEPT !.pc = to]]
      \/ \E u : /\ u \in {finished(e, "cancelled", "interrupted"), e}
                /\ u = e => terminal(e)
                /\ proc' = [proc EXCEPT ![p] = [x EXCEPT !.pc = "finish", !.update = u, !.stored = None, !.version = 0]]
  <2>1. CASE x.op = "replay"
    BY <2>1, <1>2 DEF Dispatch
  <2>2. CASE x.op # "replay" /\ x.op = "cancel"
    <3>1. \/ Fail(p)
          \/ proc' = [proc EXCEPT ![p] = [x EXCEPT !.pc = "stop"]]
          \/ proc' = [proc EXCEPT ![p] = [x EXCEPT !.pc = "finish", !.update = finished(e, "cancelled", "interrupted"), !.stored = None, !.version = 0]]
      BY <2>2, <1>2 DEF Dispatch
    <3>2. terminal(finished(e, "cancelled", "interrupted"))
      BY FinishedOK DEF TerminalStates
    <3> QED BY <3>1, <3>2
  <2>3. CASE x.op # "replay" /\ x.op # "cancel"
    <3>1. \/ terminal(e) /\ proc' = [proc EXCEPT ![p] = [x EXCEPT !.pc = "finish", !.update = e, !.stored = None, !.version = 0]]
          \/ proc' = [proc EXCEPT ![p] = [x EXCEPT !.pc = "create"]]
          \/ proc' = [proc EXCEPT ![p] = [x EXCEPT !.pc = "stop"]]
          \/ proc' = [proc EXCEPT ![p] = [x EXCEPT !.pc = "status"]]
      BY <2>3, <1>2 DEF Dispatch
    <3> QED BY <3>1
  <2> QED BY <2>1, <2>2, <2>3
<1>6. CASE x.op = "replay" /\ proc' = [proc EXCEPT ![p] = [Idle EXCEPT !.pc = "claim", !.op = "start", !.run = x.next]]
  <2>1. PICK q : q = [Idle EXCEPT !.pc = "claim", !.op = "start", !.run = x.next]
    OBVIOUS
  <2>2. ProcOK(q)
    BY <1>4, <1>6, <2>1 DEF ProcOK, ProcSet, Idle, Pcs
  <2> QED BY <1>6, <2>1, <2>2, ProcStep
<1>7. ASSUME NEW to \in {"stop", "create", "status"}, proc' = [proc EXCEPT ![p] = [x EXCEPT !.pc = to]]
      PROVE  OciInv'
  <2>1. PICK q : q = [x EXCEPT !.pc = to]
    OBVIOUS
  <2>2. q \in ProcSet /\ q.pc = to /\ q.stored = e /\ q.op = x.op /\ q.next = x.next
    BY <1>3, <2>1 DEF ProcSet, Pcs
  <2>3. ProcOK(q)
    BY <1>4, <2>2 DEF ProcOK
  <2> QED BY <1>7, <2>1, <2>3, ProcStep
<1>8. ASSUME NEW u \in {finished(e, "cancelled", "interrupted"), e}, u = e => terminal(e),
             proc' = [proc EXCEPT ![p] = [x EXCEPT !.pc = "finish", !.update = u, !.stored = None, !.version = 0]]
      PROVE  OciInv'
  <2>1. RecordOK(u) /\ terminal(u) /\ u \in Execution
    BY <1>1, <1>8, FinishedOK DEF TerminalStates
  <2>2. PICK q : q = [x EXCEPT !.pc = "finish", !.update = u, !.stored = None, !.version = 0]
    OBVIOUS
  <2>3. q \in ProcSet /\ q.pc = "finish" /\ q.update = u /\ q.op = x.op /\ q.next = x.next
    BY <1>3, <2>1, <2>2 DEF ProcSet, Pcs
  <2>4. ProcOK(q)
    BY <1>4, <2>1, <2>3 DEF ProcOK
  <2> QED BY <1>8, <2>2, <2>4, ProcStep
<1> QED BY <1>5, <1>6, <1>7, <1>8, FailInv

\* The record is looked up, in the active object or in the history.
LEMMA GetInv ==
    ASSUME OciInv, NEW p \in Procs, GetActive(p) \/ GetHistory(p)
    PROVE  OciInv'
<1>1. /\ ProcOK(proc[p]) /\ proc[p] \in ProcSet /\ UNCHANGED <<active, history, instance, late, clock>>
      /\ proc[p].pc # "idle"
  BY DEF OciInv, ProcOK, GetActive, GetHistory
<1>2. CASE GetActive(p)
  <2>1. \/ active # None /\ Dispatch(p, active.e, active.version)
        \/ Fail(p)
        \/ proc[p].run # None /\ Goto(p, "get_history")
    BY <1>2 DEF GetActive
  <2>2. CASE active # None /\ Dispatch(p, active.e, active.version)
    <3>1. RecordOK(active.e) /\ active.version \in Versions \cup {0}
      BY <2>2 DEF OciInv, ActiveOK
    <3> QED BY <1>1, <2>2, <3>1, DispatchInv
  <2>3. CASE proc[p].run # None /\ Goto(p, "get_history")
    <3>1. PICK q : /\ proc' = [proc EXCEPT ![p] = q] /\ q \in ProcSet /\ q.pc = "get_history"
                   /\ q.op = proc[p].op /\ q.run = proc[p].run /\ q.next = proc[p].next
      BY <2>3, Going DEF Pcs
    <3>2. q.run \in Runs
      BY <1>1, <2>3, <3>1 DEF ProcSet
    <3>3. ProcOK(q)
      BY <1>1, <3>1, <3>2 DEF ProcOK
    <3> QED BY <1>1, <3>1, <3>3, ProcStep
  <2> QED BY <1>1, <2>1, <2>2, <2>3, FailInv
<1>3. CASE GetHistory(p)
  <2>1. proc[p].run \in Runs
    BY <1>1, <1>3 DEF ProcOK, GetHistory
  <2>2. \/ Fail(p)
        \/ history[proc[p].run] # None /\ Dispatch(p, history[proc[p].run], 0)
    BY <1>3 DEF GetHistory
  <2>3. history[proc[p].run] # None => RecordOK(history[proc[p].run])
    BY <2>1 DEF OciInv, HistoryOK
  <2> QED BY <1>1, <2>2, <2>3, FailInv, DispatchInv
<1> QED BY <1>2, <1>3

\* A step that calls the Container Instances service, and nothing else.
LEMMA ServiceStep ==
    ASSUME OciInv, Grows, InOrder', UNCHANGED <<active, history, late, clock>>,
           NEW p \in Procs, NEW q, ProcOK(q)', proc' = [proc EXCEPT ![p] = q]
    PROVE  OciInv'
<1>1. late' \subseteq Runs /\ clock' \in 0..MaxClock /\ history' \in [Runs -> Execution \cup {None}]
  BY DEF OciInv, Types
<1> QED BY <1>1, ObjectsStay, OciStep

\* An invocation that holds a record begins finish.
LEMMA Finishing ==
    ASSUME OciInv, NEW p \in Procs, NEW u, RecordOK(u)', terminal(u), BeginFinish(p, u),
           proc[p].pc \in {"create", "delete"}
    PROVE  \E q : ProcOK(q)' /\ proc' = [proc EXCEPT ![p] = q]
<1>1. proc[p] \in ProcSet /\ ProcOK(proc[p]) /\ u \in Execution
  BY DEF OciInv, ProcOK, RecordOK
<1>2. PICK q : q = [proc[p] EXCEPT !.pc = "finish", !.update = u, !.stored = None, !.version = 0]
  OBVIOUS
<1>3. q \in ProcSet /\ q.pc = "finish" /\ q.update = u /\ q.op = proc[p].op /\ q.next = proc[p].next
  BY <1>1, <1>2 DEF ProcSet, Pcs
<1>4. ProcOK(q)'
  BY <1>1, <1>3 DEF ProcOK, terminal
<1>5. proc' = [proc EXCEPT ![p] = q]
  BY <1>1, <1>2 DEF BeginFinish
<1> QED BY <1>4, <1>5

\* An instance is created, or its creation fails, with or without effect.
LEMMA CreateInv ==
    ASSUME OciInv, NEW p \in Procs, CreateSucceeds(p) \/ CreateFails(p) \/ CreateAnswerLost(p)
    PROVE  OciInv'
<1>1. /\ proc[p].pc = "create" /\ ProcOK(proc[p]) /\ proc[p] \in ProcSet /\ RecordOK(proc[p].stored)
      /\ UNCHANGED <<active, history, late, clock>> /\ clock \in 0..MaxClock
  BY DEF OciInv, Types, ProcOK, CreateSucceeds, CreateFails, CreateAnswerLost
<1>2. PICK e : e = proc[p].stored /\ RecordOK(e) /\ e \in Execution
  BY <1>1 DEF RecordOK
<1>3. Grows /\ InOrder'
  <2>1. CASE instance' = instance
    BY <2>1 DEF OciInv, Types, Grows, InOrder, Earlier
  <2>2. CASE instance' = [instance EXCEPT ![Attempt(e)] = IF @ = "none" THEN "live" ELSE @]
    BY <2>2, <1>2, InstanceCreated
  <2> QED BY <1>2, <2>1, <2>2 DEF CreateSucceeds, CreateFails, CreateAnswerLost
<1>4. CASE CreateSucceeds(p)
  <2>1. PICK u : u = [e EXCEPT !.state = "running", !.inst = TRUE, !.at = clock]
    OBVIOUS
  <2>2. u \in Execution /\ u.run = e.run /\ u.attempt = e.attempt /\ u.state = "running"
    BY <1>1, <1>2, <2>1 DEF Execution
  <2>3. RecordOK(u)'
    BY <1>2, <1>3, <2>2, RecordStays DEF RecordOK
  <2>4. PICK q : q = [proc[p] EXCEPT !.pc = "save", !.update = u]
    OBVIOUS
  <2>5. q \in ProcSet /\ q.pc = "save" /\ q.update = u /\ q.op = proc[p].op /\ q.next = proc[p].next
    BY <1>1, <2>2, <2>4 DEF ProcSet, Pcs
  <2>6. ProcOK(q)'
    BY <1>1, <2>3, <2>5 DEF ProcOK
  <2>7. proc' = [proc EXCEPT ![p] = q]
    BY <1>2, <1>4, <2>1, <2>4 DEF CreateSucceeds
  <2> QED BY <1>1, <1>3, <2>6, <2>7, ServiceStep
<1>5. CASE CreateFails(p) \/ CreateAnswerLost(p)
  <2>1. PICK u : u = finished(e, "failed", "create") /\ RecordOK(u) /\ terminal(u)
    BY <1>2, FinishedOK DEF TerminalStates
  <2>2. RecordOK(u)' /\ BeginFinish(p, u)
    BY <1>2, <1>3, <1>5, <2>1, RecordStays DEF CreateFails, CreateAnswerLost
  <2>3. \E q : ProcOK(q)' /\ proc' = [proc EXCEPT ![p] = q]
    BY <1>1, <2>1, <2>2, Finishing
  <2> QED BY <1>1, <1>3, <2>3, ServiceStep
<1> QED BY <1>4, <1>5

\* What reconcile concludes from an exit code.
LEMMA StatusInv ==
    ASSUME OciInv, OciAssumption, NEW p \in Procs, Status(p)
    PROVE  OciInv'
<1>1. /\ proc[p].pc = "status" /\ ProcOK(proc[p]) /\ proc[p] \in ProcSet /\ RecordOK(proc[p].stored)
      /\ UNCHANGED <<active, history, instance, late, clock>> /\ clock \in 0..MaxClock
  BY DEF OciInv, Types, ProcOK, Status
<1>2. PICK e : e = proc[p].stored /\ RecordOK(e) /\ e \in Execution
  BY <1>1 DEF RecordOK
<1>3. e.attempt \in 1..MaxAttempts /\ MaxAttempts \in Nat /\ e.run \in Runs /\ Attempt(e) = <<e.run, e.attempt>>
  BY <1>2 DEF Execution, OciAssumption, Attempt
<1>4. PICK c : c = instance[Attempt(e)]
  OBVIOUS
<1>5. \E u, to : /\ RecordOK(u) /\ to \in {"save", "delete"}
                 /\ proc' = [proc EXCEPT ![p].pc = to, ![p].update = u]
  <2>1. CASE c = "live"
    <3>1. PICK u : u = [e EXCEPT !.state = "running", !.at = clock]
      OBVIOUS
    <3>2. u \in Execution /\ u.run = e.run /\ u.attempt = e.attempt /\ u.state = "running"
      BY <1>1, <1>2, <3>1 DEF Execution
    <3>3. RecordOK(u) /\ proc' = [proc EXCEPT ![p].pc = "save", ![p].update = u]
      BY <1>2, <1>4, <2>1, <3>1, <3>2 DEF RecordOK, Status
    <3> QED BY <3>3
  <2>2. CASE c = "zero"
    <3>1. RecordOK(finished(e, "succeeded", None))
      BY <1>2, <1>4, <2>2, FinishedOK DEF TerminalStates
    <3>2. proc' = [proc EXCEPT ![p].pc = "delete", ![p].update = finished(e, "succeeded", None)]
      BY <1>2, <1>4, <2>2 DEF Status
    <3> QED BY <3>1, <3>2
  <2>3. CASE c = "retry" /\ e.attempt < MaxAttempts
    <3>1. PICK u : u = [e EXCEPT !.state = "pending", !.inst = FALSE, !.attempt = @ + 1, !.at = clock]
      OBVIOUS
    <3>2. e.attempt + 1 \in 1..MaxAttempts
      BY <1>3, <2>3
    <3>3. u \in Execution /\ u.run = e.run /\ u.attempt = e.attempt + 1 /\ u.state = "pending"
      BY <1>1, <1>2, <3>1, <3>2 DEF Execution
    <3>4. Earlier(e.run, e.attempt + 1)
      <4>1. ASSUME NEW j \in 1..MaxAttempts, j < e.attempt + 1 PROVE instance[<<e.run, j>>] = "retry"
        <5>1. j < e.attempt \/ j = e.attempt
          BY <1>3, <4>1
        <5> QED BY <5>1, <1>2, <1>3, <1>4, <2>3 DEF RecordOK, Earlier
      <4> QED BY <4>1 DEF Earlier
    <3>5. RecordOK(u)
      BY <3>3, <3>4 DEF RecordOK
    <3>6. proc' = [proc EXCEPT ![p].pc = "delete", ![p].update = u]
      BY <1>2, <1>4, <2>3, <3>1 DEF Status
    <3> QED BY <3>5, <3>6
  <2>4. CASE c # "live" /\ c # "zero" /\ ~(c = "retry" /\ e.attempt < MaxAttempts)
    <3>1. RecordOK(finished(e, "failed", "runtime"))
      BY <1>2, FinishedOK DEF TerminalStates
    <3>2. proc' = [proc EXCEPT ![p].pc = "delete", ![p].update = finished(e, "failed", "runtime")]
      BY <1>2, <1>4, <2>4 DEF Status
    <3> QED BY <3>1, <3>2
  <2> QED BY <2>1, <2>2, <2>3, <2>4
<1>6. PICK u, to : /\ RecordOK(u) /\ to \in {"save", "delete"}
                   /\ proc' = [proc EXCEPT ![p].pc = to, ![p].update = u]
  BY <1>5
<1>7. PICK q : q = [proc[p] EXCEPT !.pc = to, !.update = u]
  OBVIOUS
<1>8. /\ q \in ProcSet /\ q.pc = to /\ q.update = u /\ q.stored = e /\ q.op = proc[p].op /\ q.next = proc[p].next
      /\ proc' = [proc EXCEPT ![p] = q]
  BY <1>1, <1>2, <1>6, <1>7 DEF ProcSet, Pcs, RecordOK
<1>9. ProcOK(q)
  BY <1>1, <1>2, <1>6, <1>8 DEF ProcOK
<1> QED BY <1>1, <1>8, <1>9, ProcStep

\* An instance is stopped or deleted, and its record goes on to be saved or finished.
LEMMA StopInv ==
    ASSUME OciInv, NEW p \in Procs, Stop(p) \/ Delete(p)
    PROVE  OciInv'
<1>1. /\ proc[p].pc \in {"stop", "delete"} /\ ProcOK(proc[p]) /\ proc[p] \in ProcSet /\ RecordOK(proc[p].stored)
      /\ UNCHANGED <<active, history, late, clock>>
  BY DEF OciInv, Types, ProcOK, Stop, Delete
<1>2. PICK e : e = proc[p].stored /\ RecordOK(e) /\ e \in Execution
  BY <1>1 DEF RecordOK
<1>3. Attempt(e) \in Attempts
  BY <1>2 DEF Execution, Attempt, Attempts
<1>4. instance' = [instance EXCEPT ![Attempt(e)] = IF @ = "live" THEN "other" ELSE @]
  BY <1>2 DEF Stop, Delete
<1>5. Grows /\ InOrder'
  BY <1>3, <1>4, InstanceEnds
<1>6. CASE Stop(p)
  <2>1. PICK u : /\ u = (IF proc[p].op = "cancel" THEN finished(e, "cancelled", "interrupted")
                         ELSE finished(e, "failed", "deadline"))
                 /\ RecordOK(u) /\ u \in Execution
    BY <1>2, FinishedOK DEF TerminalStates
  <2>2. PICK q : q = [proc[p] EXCEPT !.pc = "delete", !.update = u]
    OBVIOUS
  <2>3. /\ q \in ProcSet /\ q.pc = "delete" /\ q.update = u /\ q.stored = e /\ q.op = proc[p].op /\ q.next = proc[p].next
        /\ proc' = [proc EXCEPT ![p] = q]
    BY <1>1, <1>2, <1>6, <2>1, <2>2 DEF ProcSet, Pcs, Stop
  <2>4. ProcOK(q)
    BY <1>1, <1>2, <2>1, <2>3 DEF ProcOK
  <2> QED BY <1>1, <1>5, <2>3, <2>4, ProcStays, ServiceStep
<1>7. CASE Delete(p)
  <2>1. PICK u : u = proc[p].update /\ RecordOK(u) /\ RecordOK(u)'
    BY <1>1, <1>5, <1>7, RecordStays DEF ProcOK, Delete
  <2>2. CASE terminal(u)
    <3>1. BeginFinish(p, u) /\ proc[p].pc = "delete"
      BY <1>7, <2>1, <2>2 DEF Delete
    <3>2. \E q : ProcOK(q)' /\ proc' = [proc EXCEPT ![p] = q]
      BY <2>1, <2>2, <3>1, Finishing
    <3> QED BY <1>1, <1>5, <3>2, ServiceStep
  <2>3. CASE ~terminal(u)
    <3>1. Goto(p, "save")
      BY <1>7, <2>1, <2>3 DEF Delete
    <3>2. PICK q : /\ proc' = [proc EXCEPT ![p] = q] /\ q \in ProcSet /\ q.pc = "save"
                   /\ q.op = proc[p].op /\ q.next = proc[p].next /\ q.update = proc[p].update
      BY <3>1, Going DEF Pcs
    <3>3. ProcOK(q)
      BY <1>1, <2>1, <3>2 DEF ProcOK
    <3> QED BY <1>1, <1>5, <3>2, <3>3, ProcStays, ServiceStep
  <2> QED BY <2>2, <2>3
<1> QED BY <1>6, <1>7

\* A step that writes the active object or the history, and nothing else.
LEMMA BucketStep ==
    ASSUME OciInv, ActiveOK', HistoryOK', history' \in [Runs -> Execution \cup {None}], UNCHANGED <<instance, late, clock>>,
           NEW p \in Procs, NEW q, ProcOK(q), proc' = [proc EXCEPT ![p] = q]
    PROVE  OciInv'
<1>1. Grows /\ InOrder' /\ late' \subseteq Runs /\ clock' \in 0..MaxClock
  BY DEF OciInv, Types, Grows, InOrder, Earlier
<1> QED BY <1>1, ProcStays, OciStep

\* The active object is right when a right record is put there.
LEMMA ActivePut ==
    ASSUME OciInv, UNCHANGED instance, NEW u, RecordOK(u), NEW v \in Versions, active' = [e |-> u, version |-> v]
    PROVE  ActiveOK'
<1>1. Grows /\ u \in Execution
  BY DEF OciInv, Types, Grows, RecordOK
<1>2. RecordOK(u)'
  BY <1>1, RecordStays
<1> QED BY <1>1, <1>2 DEF ActiveOK

\* save puts the record, and launches a saved retry.
LEMMA SaveInv ==
    ASSUME OciInv, OciAssumption, NEW p \in Procs, Save(p)
    PROVE  OciInv'
<1>1. /\ proc[p].pc = "save" /\ ProcOK(proc[p]) /\ proc[p] \in ProcSet
      /\ UNCHANGED <<history, instance, late, clock>> /\ history \in [Runs -> Execution \cup {None}] /\ Grows
  BY DEF OciInv, Types, ProcOK, Save, Grows
<1>2. PICK u : u = proc[p].update /\ RecordOK(u) /\ u \in Execution
  BY <1>1 DEF ProcOK, RecordOK
<1>3. PICK v \in Versions : v = NewVersion
  BY FreshVersion
<1>4. CASE Fail(p) /\ UNCHANGED active
  BY <1>1, <1>4, FailInv
<1>5. CASE active' = [e |-> u, version |-> v]
  <2>1. ActiveOK' /\ HistoryOK'
    BY <1>1, <1>2, <1>5, ActivePut, ObjectsStay
  <2>2. CASE u.state = "pending" /\ proc' = [proc EXCEPT ![p].pc = "create", ![p].stored = u,
                                                         ![p].version = v, ![p].update = None]
    <3>1. PICK q : q = [proc[p] EXCEPT !.pc = "create", !.stored = u, !.version = v, !.update = None]
      OBVIOUS
    <3>2. /\ q \in ProcSet /\ q.pc = "create" /\ q.stored = u /\ q.op = proc[p].op /\ q.next = proc[p].next
          /\ proc' = [proc EXCEPT ![p] = q]
      BY <1>1, <1>2, <1>3, <2>2, <3>1 DEF ProcSet, Pcs
    <3>3. ProcOK(q)
      BY <1>1, <1>2, <3>2 DEF ProcOK
    <3> QED BY <1>1, <2>1, <3>2, <3>3, BucketStep
  <2>3. CASE Return(p, u)
    BY <1>1, <2>1, <2>3, Returned, BucketStep
  <2> QED BY <1>2, <1>3, <1>5, <2>2, <2>3, <1>1, <1>4 DEF Save
<1> QED BY <1>2, <1>3, <1>4, <1>5 DEF Save

\* finish reads, saves, preserves and releases.
LEMMA FinishInv ==
    ASSUME OciInv, OciAssumption, NEW p \in Procs,
           FinishRead(p) \/ FinishCheck(p) \/ FinishSave(p) \/ FinishHistory(p) \/ Release(p)
    PROVE  OciInv'
<1>1. /\ proc[p].pc \in {"finish", "finish_check", "finish_save", "finish_history", "release"}
      /\ ProcOK(proc[p]) /\ proc[p] \in ProcSet
      /\ UNCHANGED <<instance, late, clock>> /\ history \in [Runs -> Execution \cup {None}] /\ Grows
  BY DEF OciInv, Types, ProcOK, FinishRead, FinishCheck, FinishSave, FinishHistory, Release, Grows
<1>2. PICK u : u = proc[p].update /\ RecordOK(u) /\ u \in Execution /\ terminal(u) /\ u.run \in Runs
  BY <1>1 DEF ProcOK, RecordOK, Execution
<1>3. PICK v \in Versions : v = NewVersion
  BY FreshVersion
<1>4. ASSUME NEW to \in {"finish_check", "finish_save", "finish_history", "release"}, NEW x \in Versions \cup {0},
             proc' = [proc EXCEPT ![p] = [proc[p] EXCEPT !.pc = to, !.version = x]]
      PROVE  \E q : ProcOK(q) /\ proc' = [proc EXCEPT ![p] = q]
  <2>1. PICK q : q = [proc[p] EXCEPT !.pc = to, !.version = x]
    OBVIOUS
  <2>2. q \in ProcSet /\ q.pc = to /\ q.update = u /\ q.op = proc[p].op /\ q.next = proc[p].next
    BY <1>1, <1>2, <2>1 DEF ProcSet, Pcs
  <2>3. ProcOK(q)
    BY <1>1, <1>2, <2>2 DEF ProcOK
  <2> QED BY <1>4, <2>1, <2>3
<1>5. ASSUME NEW to \in {"finish_check", "finish_save", "finish_history", "release"}, Goto(p, to)
      PROVE  \E q : ProcOK(q) /\ proc' = [proc EXCEPT ![p] = q]
  <2>1. PICK q : /\ proc' = [proc EXCEPT ![p] = q] /\ q \in ProcSet /\ q.pc = to
                 /\ q.op = proc[p].op /\ q.next = proc[p].next /\ q.update = proc[p].update
    BY <1>5, Going DEF Pcs
  <2>2. ProcOK(q)
    BY <1>1, <1>2, <2>1 DEF ProcOK
  <2> QED BY <2>1, <2>2
<1>6. CASE FinishRead(p)
  <2>1. UNCHANGED <<active, history>> /\ ActiveOK' /\ HistoryOK'
    BY <1>1, <1>6, ObjectsStay DEF FinishRead
  <2>2. \/ Fail(p) \/ Goto(p, "finish_check")
        \/ active # None /\ proc' = [proc EXCEPT ![p].pc = "finish_save", ![p].version = active.version]
    BY <1>6 DEF FinishRead
  <2>3. CASE active # None /\ proc' = [proc EXCEPT ![p].pc = "finish_save", ![p].version = active.version]
    <3>1. active.version \in Versions \cup {0}
      BY <2>3 DEF OciInv, ActiveOK
    <3>2. proc' = [proc EXCEPT ![p] = [proc[p] EXCEPT !.pc = "finish_save", !.version = active.version]]
      BY <1>1, <2>3
    <3> QED BY <1>1, <1>4, <2>1, <3>1, <3>2, BucketStep
  <2> QED BY <1>1, <1>5, <2>1, <2>2, <2>3, FailInv, BucketStep
<1>7. CASE FinishCheck(p)
  <2>1. UNCHANGED <<active, history>> /\ (Fail(p) \/ Return(p, u))
    BY <1>2, <1>7 DEF FinishCheck
  <2> QED BY <1>1, <2>1, FailInv, Returned, ProcStep
<1>8. CASE FinishSave(p)
  <2>1. UNCHANGED history
    BY <1>8 DEF FinishSave
  <2>2. CASE Fail(p) /\ UNCHANGED active
    BY <1>1, <2>1, <2>2, FailInv
  <2>3. CASE active' = [e |-> u, version |-> v] /\ proc' = [proc EXCEPT ![p].pc = "finish_history", ![p].version = v]
    <3>1. proc' = [proc EXCEPT ![p] = [proc[p] EXCEPT !.pc = "finish_history", !.version = v]]
      BY <1>1, <2>3
    <3>2. ActiveOK' /\ HistoryOK'
      BY <1>1, <1>2, <2>1, <2>3, ActivePut, ObjectsStay
    <3> QED BY <1>1, <1>3, <1>4, <2>1, <3>1, <3>2, BucketStep
  <2> QED BY <1>2, <1>3, <1>8, <2>2, <2>3 DEF FinishSave
<1>9. CASE FinishHistory(p)
  <2>1. UNCHANGED active /\ ActiveOK'
    BY <1>1, <1>9, ObjectsStay DEF FinishHistory
  <2>2. \/ history[u.run] = None /\ history' = [history EXCEPT ![u.run] = u] /\ Goto(p, "release")
        \/ UNCHANGED history /\ (Goto(p, "release") \/ Fail(p))
    BY <1>2, <1>9 DEF FinishHistory
  <2>3. CASE history' = [history EXCEPT ![u.run] = u] /\ Goto(p, "release")
    <3>1. RecordOK(u)'
      BY <1>1, <1>2, RecordStays
    <3>2. /\ history' \in [Runs -> Execution \cup {None}] /\ history'[u.run] = u
          /\ \A r \in Runs \ {u.run} : history'[r] = history[r]
      BY <1>1, <1>2, <2>3
    <3>3. HistoryOK'
      <4>1. ASSUME NEW r \in Runs, NEW e \in {history'[r]}, e # None
            PROVE  RecordOK(e)' /\ terminal(e) /\ e.run = r
        <5>1. CASE r = u.run
          BY <1>2, <3>1, <3>2, <5>1
        <5>2. CASE r # u.run
          BY <1>1, <3>2, <4>1, <5>2, RecordStays DEF OciInv, HistoryOK
        <5> QED BY <5>1, <5>2
      <4> QED BY <4>1 DEF HistoryOK, terminal
    <3> QED BY <1>1, <1>5, <2>1, <2>3, <3>2, <3>3, BucketStep
  <2>4. CASE UNCHANGED history /\ (Goto(p, "release") \/ Fail(p))
    BY <1>1, <1>5, <2>1, <2>4, FailInv, ObjectsStay, BucketStep
  <2> QED BY <2>2, <2>3, <2>4
<1>10. CASE Release(p)
  <2>1. /\ UNCHANGED history /\ active' \in {active, None}
        /\ Return(p, u) \/ (Fail(p) /\ active' = active)
    BY <1>2, <1>10 DEF Release
  <2>2. ActiveOK' /\ HistoryOK'
    BY <1>1, <2>1, ObjectsStay DEF ActiveOK
  <2> QED BY <1>1, <2>1, <2>2, FailInv, Returned, BucketStep
<1> QED BY <1>6, <1>7, <1>8, <1>9, <1>10

\* Steps of nobody: containers exit, time passes.
LEMMA OutsideInv ==
    ASSUME OciInv, OciAssumption, Grows, InOrder', UNCHANGED <<active, history, proc>>,
           late' \subseteq Runs, clock' \in 0..MaxClock
    PROVE  OciInv'
<1>1. Types'
  BY DEF OciInv, Types, Grows
<1>2. ASSUME NEW s \in Procs, NEW x \in {proc'[s]} PROVE ProcOK(x)'
  BY ProcStays DEF OciInv
<1> QED BY <1>1, <1>2, ObjectsStay DEF OciInv

\* No step leaves the invariant.
LEMMA OciInvStep ==
    ASSUME OciInv, OciAssumption, [Next]_vars
    PROVE  OciInv'
<1>1. instance' = instance => Grows /\ InOrder'
  BY DEF OciInv, Types, Grows, InOrder, Earlier
<1>2. late \subseteq Runs /\ clock \in 0..MaxClock /\ MaxClock \in Nat
  BY DEF OciInv, Types, OciAssumption
<1>3. CASE UNCHANGED vars
  BY <1>1, <1>2, <1>3, OutsideInv DEF vars
<1>4. CASE Tick
  <2>1. clock' \in 0..MaxClock
    BY <1>2, <1>4 DEF Tick
  <2> QED BY <1>1, <1>2, <1>4, <2>1, OutsideInv DEF Tick
<1>5. ASSUME NEW r \in Runs, Expire(r) PROVE OciInv'
  BY <1>1, <1>2, <1>5, OutsideInv DEF Expire
<1>6. ASSUME NEW t \in Attempts, Exit(t) PROVE OciInv'
  <2>1. PICK code \in {"zero", "retry", "other"} : instance' = [instance EXCEPT ![t] = IF @ = "live" THEN code ELSE @]
    BY <1>6 DEF Exit
  <2> QED BY <1>2, <1>6, <2>1, InstanceEnds, OutsideInv DEF Exit
<1>7. ASSUME NEW p \in Procs, Crash(p) PROVE OciInv'
  BY <1>7, FailInv DEF Crash
<1>8. ASSUME NEW p \in Procs, Step(p) PROVE OciInv'
  BY <1>8, ClaimInv, GetInv, CreateInv, StatusInv, StopInv, SaveInv, FinishInv DEF Step
<1> QED BY <1>3, <1>4, <1>5, <1>6, <1>7, <1>8, InvokeInv DEF Next

\* The invariant has the objects and the invocations well typed.
LEMMA OciTypes ==
    ASSUME OciInv
    PROVE  TypeOK
<1>1. history \in [Runs -> {h \in Execution : terminal(h)} \cup {None}]
  BY DEF OciInv, Types, HistoryOK
<1>2. ASSUME NEW p \in Procs
      PROVE  /\ proc[p].stored \in Execution \cup {None} /\ proc[p].update \in Execution \cup {None}
             /\ proc[p].version \in Versions \cup {0}
  BY DEF OciInv, Types, ProcSet
<1> QED BY <1>1, <1>2 DEF OciInv, Types, ActiveOK, Codes, TypeOK

\* What the invariant says of the containers.
LEMMA OciMeaning ==
    ASSUME OciAssumption, OciInv
    PROVE  OneAttemptAtATime /\ SuccessIsReal
<1>1. MaxAttempts \in Nat
  BY DEF OciAssumption
<1>2. ASSUME NEW t \in Attempts, instance[t] # "none", t[2] > 1
      PROVE  instance[<<t[1], t[2] - 1>>] = "retry"
  <2>1. PICK r \in Runs, k \in 1..MaxAttempts : t = <<r, k>>
    BY DEF Attempts
  <2>2. Earlier(r, k) /\ k - 1 \in 1..MaxAttempts /\ k - 1 < k
    BY <1>1, <1>2, <2>1 DEF OciInv, InOrder
  <2>3. instance[<<r, k - 1>>] = "retry"
    BY <2>2 DEF Earlier
  <2> QED BY <2>1, <2>3
<1>3. ASSUME NEW r \in Runs, history[r] # None, history[r].state = "succeeded"
      PROVE  instance[<<r, history[r].attempt>>] = "zero" /\ \A t \in Live : t[1] # r
  <2>1. PICK e : e = history[r] /\ RecordOK(e) /\ e.run = r /\ e.attempt \in 1..MaxAttempts
    BY <1>3 DEF OciInv, HistoryOK, RecordOK, Execution
  <2>2. instance[<<r, e.attempt>>] = "zero"
    BY <1>3, <2>1 DEF RecordOK
  <2>3. ASSUME NEW k \in 1..MaxAttempts PROVE instance[<<r, k>>] # "live"
    <3>1. CASE k < e.attempt
      BY <2>1, <3>1 DEF RecordOK, Earlier
    <3>2. CASE k = e.attempt
      BY <2>2, <3>2
    <3>3. CASE e.attempt < k
      <4>1. Earlier(r, k) => instance[<<r, e.attempt>>] = "retry"
        BY <2>1, <3>3 DEF Earlier
      <4>2. instance[<<r, k>>] = "none"
        BY <2>2, <4>1 DEF OciInv, InOrder
      <4> QED BY <4>2
    <3> QED BY <1>1, <2>1, <3>1, <3>2, <3>3
  <2>4. ASSUME NEW t \in Live PROVE t[1] # r
    <3>1. PICK s \in Runs, k \in 1..MaxAttempts : t = <<s, k>>
      BY DEF Live, Attempts
    <3>2. instance[<<s, k>>] = "live"
      BY <3>1 DEF Live
    <3> QED BY <2>3, <3>1, <3>2
  <2> QED BY <2>1, <2>2, <2>4
<1> QED BY <1>2, <1>3 DEF OneAttemptAtATime, SuccessIsReal

\* No step changes a history object that is there.
LEMMA HistoryStep ==
    ASSUME OciInv, [Next]_vars
    PROVE  HistoryImmutable
<1>1. CASE history' = history
  BY <1>1 DEF HistoryImmutable
<1>2. ASSUME NEW p \in Procs, FinishHistory(p) PROVE HistoryImmutable
  <2>1. DOMAIN history = Runs
    BY DEF OciInv, Types
  <2> QED BY <1>2, <2>1 DEF FinishHistory, HistoryImmutable
<1> QED BY <1>1, <1>2 DEF Next, vars, Step, Start, Reconcile, Cancel, Replay, Invoke, Crash, Exit, Tick,
      Expire, ClaimHistory, ClaimPut, ClaimRead, GetActive, GetHistory, CreateSucceeds, CreateFails,
      CreateAnswerLost, Status, Stop, Delete, Save, FinishRead, FinishCheck, FinishSave, Release

\* A run never has two containers at once and skips no attempt, however the
\* invocations of the Function overlap, fail and repeat, and a run preserved as
\* succeeded has a container that exited with 0 and none that still runs.
THEOREM AttemptsAreReal ==
    ASSUME OciAssumption
    PROVE  Spec => [](TypeOK /\ OneAttemptAtATime /\ SuccessIsReal)
<1>1. OciInv => TypeOK /\ OneAttemptAtATime /\ SuccessIsReal
  BY OciTypes, OciMeaning
<1> QED BY <1>1, OciInvInit, OciInvStep, PTL DEF Spec

\* The terminal history of a run never changes once it is preserved, whoever
\* finishes the run again.
THEOREM HistoryIsPreserved ==
    ASSUME OciAssumption
    PROVE  Spec => [][HistoryImmutable]_vars
BY OciInvInit, OciInvStep, HistoryStep, PTL DEF Spec
=============================================================================
