----------------------------- MODULE CloudRunJobs ------------------------------
(***************************************************************************)
(* The Cloud Run execution backend: attempts of Control runs share one     *)
(* deployed Job, which is read, changed and patched back to start each     *)
(* execution, and restored after a date repair.                            *)
(*                                                                         *)
(* A patch names the version it read (the etag).  Its answer may be lost,  *)
(* and a patch whose caller gave up may still arrive later.  The service   *)
(* accepts an execution with the patch that carries its token and shows it *)
(* some time after.                                                        *)
(***************************************************************************)
EXTENDS Integers, FiniteSets

CONSTANTS
    Attempts,       \* each with its execution token
    Repairs,        \* the attempts that repair a date window
    Workers,        \* Control processes at work for an attempt
    AttemptOf,      \* [Workers -> Attempts]
    Images,         \* deployed images; the plans name the first
    Image,          \* the image of the attempts' plan
    MaxFaults,      \* bound on failed, lost and delayed calls
    MaxDeploys,     \* bound on redeployments
    None

JobsAssumption ==
    /\ Image \in Images /\ Repairs \subseteq Attempts /\ AttemptOf \in [Workers -> Attempts]
    /\ None \notin Attempts /\ {MaxFaults, MaxDeploys} \subseteq Nat

VARIABLES
    job,        \* [version, image, token, payload]: the deployed Job
    execs,      \* [Attempts -> [state, payload, image, cancel]]
    pc,         \* [Workers -> where a call of the worker stands]
    seen,       \* [Workers -> the Job that the worker read and will patch]
    late,       \* patches that were given up and are still under way
    cleaned,    \* attempts whose cleanup was reported as confirmed
    outcome,    \* [Attempts -> the outcome that was reported]
    faults, deploys

vars == <<job, execs, pc, seen, late, cleaned, outcome, faults, deploys>>

States == {"absent", "accepted", "visible", "running", "succeeded", "failed", "canceled",
           "canceled_early"}
Terminal == {"succeeded", "failed", "canceled", "canceled_early"}

\* _repair_payload: the date window with the execution's own name.
Payload(a) == IF a \in Repairs THEN a ELSE None

TypeOK ==
    /\ job.token \in Attempts \union {None} /\ job.payload \in Repairs \union {None}
    /\ job.image \in Images
    /\ \A a \in Attempts : execs[a].state \in States
    /\ cleaned \subseteq Attempts
    /\ faults \in 0..MaxFaults /\ deploys \in 0..MaxDeploys

Init ==
    /\ job = [version |-> 0, image |-> Image, token |-> None, payload |-> None]
    /\ execs = [a \in Attempts |-> [state |-> "absent", payload |-> None, image |-> Image, cancel |-> FALSE]]
    /\ pc = [w \in Workers |-> "submit"]
    /\ seen = [w \in Workers |-> None]
    /\ late = {} /\ cleaned = {}
    /\ outcome = [a \in Attempts |-> None]
    /\ faults = 0 /\ deploys = 0

Goto(w, l) == pc' = [pc EXCEPT ![w] = l]

\* A call that fails costs one of the bounded faults.
Fault == faults < MaxFaults /\ faults' = faults + 1

----------------------------------------------------------------------------
(* The service. *)

Shown(a) == execs[a].state \notin {"absent", "accepted"}

\* Mutant: the etag is not sent.
EtagAny(p) == TRUE

\* The etag of a patch is the version of the Job that its caller read.
EtagMatches(p) == p.version = job.version

\* A patch applies when its etag matches and its token names no execution yet.
Applies(p) == EtagMatches(p) /\ (p.token # None => execs[p.token].state = "absent")

Apply(p) ==
    /\ job' = [p EXCEPT !.version = job.version + 1]
    /\ execs' = IF p.token = None THEN execs
                ELSE [execs EXCEPT ![p.token] = [state |-> "accepted", payload |-> p.payload,
                                                 image |-> p.image, cancel |-> FALSE]]

\* What becomes of a patch: answered, answer lost, refused, or delayed.
Patch(w, p, done, unknown) ==
    \/ /\ Applies(p) /\ Apply(p)
       /\ \/ Goto(w, done) /\ UNCHANGED faults
          \/ Fault /\ Goto(w, unknown)
       /\ UNCHANGED late
    \/ /\ ~Applies(p) /\ Goto(w, unknown)
       /\ UNCHANGED <<job, execs, late, faults>>
    \/ /\ Fault /\ late' = late \union {p} /\ Goto(w, unknown)
       /\ UNCHANGED <<job, execs>>

LatePatch ==
    \E p \in late :
        /\ late' = late \ {p}
        /\ IF Applies(p) THEN Apply(p) ELSE UNCHANGED <<job, execs>>
        /\ UNCHANGED <<pc, seen, cleaned, outcome, faults, deploys>>

Progress(a) ==
    /\ execs' = [execs EXCEPT ![a].state =
            CASE @ = "accepted" -> "visible"
              [] @ = "visible" -> IF execs[a].cancel THEN "canceled_early" ELSE "running"
              [] OTHER -> @]
    /\ execs[a].state \in {"accepted", "visible"}
    /\ UNCHANGED <<job, pc, seen, late, cleaned, outcome, faults, deploys>>

Finish(a) ==
    /\ execs[a].state = "running"
    /\ \E s \in {"succeeded", "failed"} \union (IF execs[a].cancel THEN {"canceled"} ELSE {}) :
          execs' = [execs EXCEPT ![a].state = s]
    /\ UNCHANGED <<job, pc, seen, late, cleaned, outcome, faults, deploys>>

\* A deployment replaces the Job; what it does to the token is the tool's choice.
Deploy ==
    /\ deploys < MaxDeploys /\ deploys' = deploys + 1
    /\ \E i \in Images, t \in {job.token, None} :
          job' = [version |-> job.version + 1, image |-> i, token |-> t, payload |-> None]
    /\ UNCHANGED <<execs, pc, seen, late, cleaned, outcome, faults>>

----------------------------------------------------------------------------
(* submit_or_adopt *)

\* _require_repair_payload: the selection is this attempt's, or there is none
\* when the attempt has none.
Selected(x, a) == x.payload = Payload(a)

\* _validate_job: the deployed Job runs the plan's image.
ValidJob(j) == j.image = Image

\* _validate_submission_execution: the execution is the one the plan describes.
ValidExecution(a) == execs[a].image = Image /\ Selected(execs[a], a)

LookForExecution(w) ==
    LET a == AttemptOf[w] IN
    /\ pc[w] = "submit"
    /\ \/ Shown(a) /\ Goto(w, IF ValidExecution(a) THEN "submitted" ELSE "mismatch") /\ UNCHANGED faults
       \/ ~Shown(a) /\ Goto(w, "read_job") /\ UNCHANGED faults
       \/ Fault /\ UNCHANGED pc
    /\ UNCHANGED <<job, execs, seen, late, cleaned, outcome, deploys>>

ReadJob(w) ==
    LET a == AttemptOf[w] IN
    /\ pc[w] = "read_job"
    /\ \/ /\ ValidJob(job) /\ job.token # a
          /\ seen' = [seen EXCEPT ![w] = job] /\ Goto(w, "start")
          /\ UNCHANGED faults
       \/ /\ ~ValidJob(job) \/ job.token = a
          /\ Goto(w, IF ValidJob(job) /\ Selected(job, a) THEN "submitted" ELSE "mismatch")
          /\ UNCHANGED <<seen, faults>>
       \/ Fault /\ Goto(w, "submit") /\ UNCHANGED seen
    /\ UNCHANGED <<job, execs, late, cleaned, outcome, deploys>>

\* Mutant: a normal run keeps the selection of the repair before it.
SelectionKept(j, a) == IF Payload(a) = None THEN j ELSE [j EXCEPT !.payload = Payload(a)]

\* _set_repair_payload: the attempt's selection, or none for a normal run.
Selection(j, a) == [j EXCEPT !.payload = Payload(a)]

StartExecution(w) ==
    LET a == AttemptOf[w] IN
    /\ pc[w] = "start"
    /\ Patch(w, [Selection(seen[w], a) EXCEPT !.token = a], "submitted", "look_again")
    /\ seen' = [seen EXCEPT ![w] = None]
    /\ UNCHANGED <<cleaned, outcome, deploys>>

LookAgain(w) ==
    LET a == AttemptOf[w] IN
    /\ pc[w] = "look_again"
    /\ \/ Shown(a) /\ Goto(w, IF ValidExecution(a) THEN "submitted" ELSE "mismatch") /\ UNCHANGED faults
       \/ ~Shown(a) /\ Goto(w, "read_again") /\ UNCHANGED faults
       \/ Fault /\ Goto(w, "submit")
    /\ UNCHANGED <<job, execs, seen, late, cleaned, outcome, deploys>>

\* Neither the execution nor its token: the submission failed, and is tried again.
ReadAgain(w) ==
    LET a == AttemptOf[w] IN
    /\ pc[w] = "read_again"
    /\ \/ /\ Goto(w, IF ~ValidJob(job) THEN "mismatch"
                     ELSE IF job.token # a THEN "submit"
                     ELSE IF Selected(job, a) THEN "submitted" ELSE "mismatch")
          /\ UNCHANGED faults
       \/ Fault /\ Goto(w, "submit")
    /\ UNCHANGED <<job, execs, seen, late, cleaned, outcome, deploys>>

----------------------------------------------------------------------------
(* observe and cancel *)

\* completionTime, or the condition of a cancellation before any task started.
Over(s) == s \in Terminal

OutcomeOf(s) == IF s \in {"canceled", "canceled_early"} THEN "canceled" ELSE s

\* _execution_repair_payload: the selection that an execution runs with.
RepairOf(a) == execs[a].payload

ObserveRunning(w) ==
    /\ pc[w] = "submitted" /\ AttemptOf[w] \notin cleaned
    /\ ~Shown(AttemptOf[w]) \/ ~Over(execs[AttemptOf[w]].state)
    /\ UNCHANGED vars

\* _restore_repair_job begins only for an execution with a selection.
Observe(w) ==
    LET a == AttemptOf[w] IN
    /\ pc[w] = "submitted" /\ a \notin cleaned
    /\ Shown(a) /\ Over(execs[a].state)
    /\ \/ /\ outcome' = [outcome EXCEPT ![a] = OutcomeOf(execs[a].state)]
          /\ IF RepairOf(a) = None
             THEN cleaned' = cleaned \union {a} /\ UNCHANGED pc
             ELSE Goto(w, "restore_read") /\ UNCHANGED cleaned
          /\ UNCHANGED faults
       \/ Fault /\ UNCHANGED <<pc, outcome, cleaned>>
    /\ UNCHANGED <<job, execs, seen, late, deploys>>

\* _job_has_repair_selection
HasSelection(j, a) == j.token = a /\ Selected(j, a)

Confirm(w) == cleaned' = cleaned \union {AttemptOf[w]} /\ Goto(w, "submitted")

\* A selection that is gone, or a Job that was deployed anew, is not touched.
RestoreRead(w) ==
    /\ pc[w] = "restore_read"
    /\ \/ /\ IF HasSelection(job, AttemptOf[w]) /\ ValidJob(job)
             THEN Goto(w, "restore") /\ seen' = [seen EXCEPT ![w] = job] /\ UNCHANGED cleaned
             ELSE Confirm(w) /\ UNCHANGED seen
          /\ UNCHANGED faults
       \/ Fault /\ Goto(w, "submitted") /\ UNCHANGED <<seen, cleaned>>
    /\ UNCHANGED <<job, execs, late, outcome, deploys>>

\* The patch has no token: it starts nothing.  Its failure is not looked at.
Restore(w) ==
    /\ pc[w] = "restore"
    /\ Patch(w, [seen[w] EXCEPT !.payload = None, !.token = None], "restore_check", "restore_check")
    /\ seen' = [seen EXCEPT ![w] = None]
    /\ UNCHANGED <<cleaned, outcome, deploys>>

RestoreCheck(w) ==
    /\ pc[w] = "restore_check"
    /\ \/ /\ IF HasSelection(job, AttemptOf[w]) THEN Goto(w, "submitted") /\ UNCHANGED cleaned
             ELSE Confirm(w)
          /\ UNCHANGED faults
       \/ Fault /\ Goto(w, "submitted") /\ UNCHANGED cleaned
    /\ UNCHANGED <<job, execs, seen, late, outcome, deploys>>

CancelRead(w) ==
    LET a == AttemptOf[w] IN
    /\ pc[w] = "submitted" /\ ~execs[a].cancel /\ outcome[a] = None
    /\ Shown(a) /\ ~Over(execs[a].state)
    /\ Goto(w, "cancel")
    /\ UNCHANGED <<job, execs, seen, late, cleaned, outcome, faults, deploys>>

\* The answer of the cancellation may be lost; the caller reads the execution
\* again and reports an error unless it is over.
Cancel(w) ==
    LET a == AttemptOf[w] IN
    /\ pc[w] = "cancel"
    /\ \/ execs' = [execs EXCEPT ![a].cancel = (@ \/ execs[a].state \notin Terminal)]
          /\ (UNCHANGED faults \/ Fault)
       \/ Fault /\ UNCHANGED execs
    /\ Goto(w, "submitted")
    /\ UNCHANGED <<job, seen, late, cleaned, outcome, deploys>>

\* A submission that met another plan's Job or execution is an error; Control
\* may submit the attempt again.
Resubmit(w) ==
    /\ pc[w] = "mismatch" /\ Goto(w, "submit")
    /\ UNCHANGED <<job, execs, seen, late, cleaned, outcome, faults, deploys>>

Rest == /\ \A w \in Workers : pc[w] = "mismatch" \/ (pc[w] = "submitted" /\ AttemptOf[w] \in cleaned)
        /\ UNCHANGED vars

Step(w) ==
    \/ LookForExecution(w) \/ ReadJob(w) \/ StartExecution(w) \/ LookAgain(w) \/ ReadAgain(w)
    \/ Observe(w) \/ RestoreRead(w) \/ Restore(w) \/ RestoreCheck(w)

Next ==
    \/ LatePatch \/ Deploy \/ Rest
    \/ \E a \in Attempts : Progress(a) \/ Finish(a)
    \/ \E w \in Workers : Step(w) \/ CancelRead(w) \/ Cancel(w) \/ Resubmit(w) \/ ObserveRunning(w)

Spec == Init /\ [][Next]_vars

----------------------------------------------------------------------------
(* Properties. *)

\* An execution runs its own attempt's selection on the plan's image: a
\* normal run never inherits the date window of a repair before it.
OwnSelection == \A a \in Attempts : execs[a].state # "absent" => ValidExecution(a)

\* A handle is returned only for an execution that the service has accepted.
HandleIsReal == \A w \in Workers : pc[w] = "submitted" => execs[AttemptOf[w]].state # "absent"

\* A cleanup that was confirmed stays: the Job does not hold the selection of
\* that attempt again, whatever arrives late.
CleanedStaysClean == \A a \in cleaned \cap Repairs : ~HasSelection(job, a)

\* A patch of the backend, on time or late, neither undoes a deployment nor
\* takes away the selection of an attempt whose execution is not over.
NoStalePatch ==
    job' # job /\ deploys' = deploys =>
        /\ job'.image = job.image
        /\ job'.token = None => job.token # None /\ execs[job.token].state \in Terminal

\* What was reported as the outcome is the outcome.
TrueOutcome == \A a \in Attempts : outcome[a] # None => OutcomeOf(execs[a].state) = outcome[a]

-----------------------------------------------------------------------------
(***************************************************************************)
(* Proofs.  The shared Job is only ever changed by a patch that was built  *)
(* on the Job as it is: the etag says so.  The inductive invariant is what *)
(* that means for the patches under way: a Job that a worker has read, or  *)
(* that a patch was built on, is the deployed one unless the deployed one  *)
(* is newer.                                                               *)
(***************************************************************************)

Nobody == Attempts \union {None}

JobSet == [version : Nat, image : Images, token : Nobody, payload : Nobody]

ExecSet == [state : States, payload : Nobody, image : Images, cancel : BOOLEAN]

Pcs == {"submit", "read_job", "start", "look_again", "read_again", "submitted", "mismatch",
        "restore_read", "restore", "restore_check", "cancel"}

\* The execution of an attempt is over.
Ended(a) == a # None /\ execs[a].state \in Terminal

JobTypes ==
    /\ job \in JobSet /\ execs \in [Attempts -> ExecSet] /\ pc \in [Workers -> Pcs]
    /\ DOMAIN seen = Workers /\ cleaned \subseteq Attempts /\ DOMAIN outcome = Attempts /\ deploys \in Nat

\* A token on the Job is that of an accepted execution, and a selection on the
\* Job was written for the plan's image.
JobIsRight ==
    /\ job.token # None => execs[job.token].state # "absent"
    /\ job.payload # None => job.image = Image

\* A patch under way starts its own attempt, or restores a Job whose repair is
\* over; it is built on a past Job, or on this one.
PatchOK(p) ==
    /\ p \in JobSet /\ p.version <= job.version
    /\ p.token # None => p.image = Image /\ p.payload = Payload(p.token)
    /\ p.token = None => p.payload = None
    /\ p.version = job.version => p.image = job.image /\ (p.token = None => Ended(job.token))

\* A Job that was read is a past one, or the present one.
SeenOK(j) == j \in JobSet /\ j.version <= job.version /\ (j.version = job.version => j = job)

\* What a worker knows at each point of its call.
WorkerOK(w) ==
    /\ pc[w] \in {"start", "restore"} => SeenOK(seen[w])
    /\ pc[w] = "start" => seen[w].image = Image
    /\ pc[w] = "restore" => seen[w].token = AttemptOf[w]
    /\ pc[w] \in {"submitted", "cancel"} => execs[AttemptOf[w]].state # "absent"
    /\ pc[w] \in {"restore_read", "restore", "restore_check"} => Ended(AttemptOf[w])

ReportsAreRight ==
    /\ \A a \in Attempts : outcome[a] # None => Ended(a) /\ OutcomeOf(execs[a].state) = outcome[a]
    /\ \A a \in cleaned : Ended(a) /\ (a \in Repairs => ~HasSelection(job, a))

\* The inductive invariant.
JobsInv ==
    /\ JobTypes /\ JobIsRight /\ OwnSelection /\ ReportsAreRight
    /\ \A p \in late : PatchOK(p)
    /\ \A w \in Workers : WorkerOK(w)

\* The Job gets a new version with every change, and an execution that was
\* accepted keeps what it runs, and its end.
Forward ==
    /\ job'.version \in Nat /\ job.version <= job'.version
    /\ job'.version = job.version => job' = job
    /\ \A a \in Attempts : execs[a].state # "absent" =>
          /\ execs'[a].state # "absent"
          /\ execs'[a].payload = execs[a].payload /\ execs'[a].image = execs[a].image
          /\ execs[a].state \in Terminal => execs'[a].state = execs[a].state

\* A selection on the Job is that of a repair, and the faults and deployments
\* stay within their bounds.
Bounded ==
    /\ job.payload \in Repairs \union {None}
    /\ faults \in 0..MaxFaults /\ deploys \in 0..MaxDeploys
=============================================================================
