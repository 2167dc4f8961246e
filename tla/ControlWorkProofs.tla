------------------------- MODULE ControlWorkProofs -------------------------
(***************************************************************************)
(* Theorems about the requests, the plans and the executions of Control,   *)
(* for every value of every part's constants.  A behaviour of the suite is *)
(* one of one part, so an invariant of the suite says, part by part, what  *)
(* the part's own inductive invariant says.                                *)
(***************************************************************************)
EXTENDS ControlPlane, FiniteSetTheorems, SequenceTheorems, TLAPS

\* A behaviour of the suite starts as its part does.
LEMMA InitOfPart ==
    ASSUME Init
    PROVE  /\ \A p \in RequestParts : part = p => Requests(p)!Init
           /\ \A p \in SelectParts : part = p => Select(p)!Init
           /\ part = "job" => Jobs!Init
           /\ \A p \in BackendParts : part = p => Execution(p)!Init
           /\ part = "oci_retry" => OciRetry!Init
           /\ part = "oci_cancel" => OciCancel!Init
           /\ \A p \in SparkParts : part = p => Spark(p)!Init
BY DEF Init, StoreParts, ReadParts, ListParts, RequestParts, SelectParts, BackendParts, SparkParts

\* A step of the suite is a step of its part.
LEMMA StepOfPart ==
    ASSUME [Next]_suiteVars
    PROVE  /\ part' = part
           /\ part = "job" => [Jobs!Next]_(Jobs!vars)
           /\ part = "oci_retry" => [OciRetry!Next]_(OciRetry!vars)
           /\ part = "oci_cancel" => [OciCancel!Next]_(OciCancel!vars)
<1>1. CASE UNCHANGED suiteVars
  BY <1>1 DEF suiteVars, Jobs!vars, OciRetry!vars, OciCancel!vars
<1>2. CASE Next
  BY <1>2 DEF Next, StoreParts, ReadParts, ListParts, RequestParts, SelectParts, BackendParts, SparkParts
<1> QED BY <1>1, <1>2

-----------------------------------------------------------------------------
(***************************************************************************)
(* The shared Cloud Run Job.  It is only ever changed by a patch that was  *)
(* built on the Job as it is: the etag says so.  The inductive invariant   *)
(* is what that means for the patches under way.                           *)
(***************************************************************************)

\* A patch under way stays right while the Job moves on.
LEMMA PatchStays ==
    ASSUME Jobs!JobsInv, Jobs!Forward, Jobs!JobsAssumption, NEW p, Jobs!PatchOK(p)
    PROVE  Jobs!PatchOK(p)'
<1>1. p \in Jobs!JobSet /\ p.version \in Nat /\ v1.version \in Nat /\ v1.token \in Jobs!Nobody
  BY DEF Jobs!PatchOK, Jobs!JobsInv, Jobs!JobTypes, Jobs!JobSet
<1>2. p.version <= v1'.version
  BY <1>1 DEF Jobs!PatchOK, Jobs!Forward
<1>3. ASSUME p.version = v1'.version PROVE p.image = v1'.image /\ (p.token = None => Jobs!Ended(v1.token)')
  <2>1. v1'.version = v1.version /\ v1' = v1
    BY <1>1, <1>3 DEF Jobs!PatchOK, Jobs!Forward
  <2>2. p.image = v1.image /\ (p.token = None => Jobs!Ended(v1.token))
    BY <1>3, <2>1 DEF Jobs!PatchOK
  <2>3. ASSUME p.token = None PROVE Jobs!Ended(v1.token)'
    <3>1. v1.token \in Setup["job"].Attempts /\ v2[v1.token].state \in Jobs!Terminal /\ v1'.token = v1.token
      BY <2>1, <2>2, <2>3, <1>1 DEF Jobs!Ended, Jobs!Nobody
    <3>2. v2'[v1.token].state = v2[v1.token].state
      BY <3>1 DEF Jobs!Forward, Jobs!Terminal
    <3> QED BY <3>1, <3>2, <2>1 DEF Jobs!Ended, Jobs!JobsAssumption
  <2> QED BY <2>1, <2>2, <2>3
<1> QED BY <1>1, <1>2, <1>3 DEF Jobs!PatchOK

\* A worker that takes no step stays right.
LEMMA WorkerStays ==
    ASSUME Jobs!JobsInv, Jobs!Forward, Jobs!JobsAssumption, NEW w \in Setup["job"].Workers, v3'[w] = v3[w], v4'[w] = v4[w]
    PROVE  Jobs!WorkerOK(w)'
<1>1. Setup["job"].AttemptOf[w] \in Setup["job"].Attempts /\ Jobs!WorkerOK(w) /\ v1.version \in Nat
  BY DEF Jobs!JobsAssumption, Jobs!JobsInv, Jobs!JobTypes, Jobs!JobSet
<1>2. v2[Setup["job"].AttemptOf[w]].state # "absent" => v2'[Setup["job"].AttemptOf[w]].state # "absent"
  BY <1>1 DEF Jobs!Forward
<1>3. Jobs!Ended(Setup["job"].AttemptOf[w]) => Jobs!Ended(Setup["job"].AttemptOf[w])'
  BY <1>1 DEF Jobs!Forward, Jobs!Ended, Jobs!Terminal
<1>4. ASSUME Jobs!SeenOK(v4[w]) PROVE Jobs!SeenOK(v4[w])'
  <2>1. v4[w] \in Jobs!JobSet /\ v4[w].version \in Nat /\ v4[w].version <= v1.version
    BY <1>4 DEF Jobs!SeenOK, Jobs!JobSet
  <2> QED BY <1>1, <1>4, <2>1 DEF Jobs!SeenOK, Jobs!Forward
<1> QED BY <1>1, <1>2, <1>3, <1>4 DEF Jobs!WorkerOK

\* Reports stay right: the end of an execution is final, and no patch brings
\* the selection of an accepted attempt back.
LEMMA ReportsStay ==
    ASSUME Jobs!JobsInv, Jobs!Forward, Jobs!JobsAssumption, UNCHANGED <<v6, v7>>,
           \A a \in Setup["job"].Attempts : v2[a].state # "absent" /\ Jobs!HasSelection(v1, a)' => Jobs!HasSelection(v1, a)
    PROVE  Jobs!ReportsAreRight'
<1>1. ASSUME NEW a \in Setup["job"].Attempts, Jobs!Ended(a) PROVE Jobs!Ended(a)' /\ v2'[a].state = v2[a].state
  BY <1>1 DEF Jobs!Forward, Jobs!Ended, Jobs!Terminal
<1>2. ASSUME NEW a \in Setup["job"].Attempts, Jobs!Ended(a), Jobs!HasSelection(v1, a)' PROVE Jobs!HasSelection(v1, a)
  BY <1>2 DEF Jobs!Ended, Jobs!Terminal
<1> QED BY <1>1, <1>2 DEF Jobs!ReportsAreRight, Jobs!JobsInv, Jobs!JobTypes

\* Executions keep their own selection when none is accepted.
LEMMA SelectionStays ==
    ASSUME Jobs!OwnSelection, Jobs!Forward,
           \A a \in Setup["job"].Attempts : v2[a].state = "absent" => v2'[a].state = "absent"
    PROVE  Jobs!OwnSelection'
BY DEF Jobs!OwnSelection, Jobs!Forward, Jobs!ValidExecution, Jobs!Selected

\* A patch that applies.
LEMMA PatchApplies ==
    ASSUME Jobs!JobsInv, Jobs!JobsAssumption, NEW p, Jobs!PatchOK(p), Jobs!Applies(p), Jobs!Apply(p), UNCHANGED <<v6, v7>>
    PROVE  /\ Jobs!Forward /\ v1' \in Jobs!JobSet /\ v2' \in [Setup["job"].Attempts -> Jobs!ExecSet]
           /\ Jobs!JobIsRight' /\ Jobs!OwnSelection' /\ Jobs!ReportsAreRight'
           /\ p.token # None => v2'[p.token].state # "absent"
           /\ v1'.image = v1.image /\ v1'.token = p.token
           /\ p.token = None => Jobs!Ended(v1.token)
<1>1. /\ p \in Jobs!JobSet /\ p.version = v1.version /\ v1.version \in Nat
      /\ p.token \in Jobs!Nobody /\ p.image = v1.image /\ p.payload \in Jobs!Nobody /\ p.image \in Setup["job"].Images
      /\ v2 \in [Setup["job"].Attempts -> Jobs!ExecSet]
  BY DEF Jobs!PatchOK, Jobs!Applies, Jobs!EtagMatches, Jobs!JobsInv, Jobs!JobTypes, Jobs!JobSet
<1>2. /\ v1' \in Jobs!JobSet /\ v1'.version = v1.version + 1 /\ v1'.image = p.image
      /\ v1'.token = p.token /\ v1'.payload = p.payload
  BY <1>1 DEF Jobs!Apply, Jobs!JobSet
<1>3. CASE p.token = None
  <2>1. v2' = v2 /\ p.payload = None /\ Jobs!Ended(v1.token)
    BY <1>1, <1>3 DEF Jobs!Apply, Jobs!PatchOK
  <2>2. Jobs!Forward
    BY <1>1, <1>2, <2>1 DEF Jobs!Forward
  <2>3. Jobs!JobIsRight' /\ Jobs!OwnSelection'
    BY <1>2, <1>3, <2>1 DEF Jobs!JobIsRight, Jobs!OwnSelection, Jobs!JobsInv, Jobs!ValidExecution, Jobs!Selected
  <2>4. ASSUME NEW a \in Setup["job"].Attempts PROVE ~Jobs!HasSelection(v1, a)'
    BY <1>2, <1>3, <2>1 DEF Jobs!HasSelection, Jobs!JobsAssumption
  <2>5. Jobs!ReportsAreRight'
    BY <2>2, <2>4, ReportsStay
  <2> QED BY <1>1, <1>2, <1>3, <2>1, <2>2, <2>3, <2>5
<1>4. CASE p.token # None
  <2> DEFINE t == p.token
             x == [state |-> "accepted", payload |-> p.payload, image |-> p.image, cancel |-> FALSE]
  <2>1. /\ t \in Setup["job"].Attempts /\ v2[t].state = "absent" /\ v2' = [v2 EXCEPT ![t] = x]
        /\ x \in Jobs!ExecSet /\ p.image = Setup["job"].Image /\ p.payload = Jobs!Payload(t)
    BY <1>1, <1>4 DEF Jobs!Apply, Jobs!Applies, Jobs!PatchOK, Jobs!Nobody, Jobs!ExecSet, Jobs!States
  <2>2. /\ v2' \in [Setup["job"].Attempts -> Jobs!ExecSet] /\ v2'[t].state = "accepted"
        /\ v2'[t].payload = Jobs!Payload(t) /\ v2'[t].image = Setup["job"].Image
        /\ \A a \in Setup["job"].Attempts \ {t} : v2'[a] = v2[a]
    BY <1>1, <2>1
  <2>3. Jobs!Forward
    BY <1>1, <1>2, <2>1, <2>2 DEF Jobs!Forward
  <2>4. Jobs!JobIsRight'
    BY <1>2, <2>1, <2>2 DEF Jobs!JobIsRight
  <2>5. Jobs!OwnSelection'
    <3>1. ASSUME NEW a \in Setup["job"].Attempts, v2'[a].state # "absent" PROVE Jobs!ValidExecution(a)'
      <4>1. CASE a = t
        BY <4>1, <2>2 DEF Jobs!ValidExecution, Jobs!Selected
      <4>2. CASE a # t
        BY <4>2, <3>1, <2>2 DEF Jobs!JobsInv, Jobs!OwnSelection, Jobs!ValidExecution, Jobs!Selected
      <4> QED BY <4>1, <4>2
    <3> QED BY <3>1 DEF Jobs!OwnSelection
  <2>6. ASSUME NEW a \in Setup["job"].Attempts, v2[a].state # "absent" PROVE ~Jobs!HasSelection(v1, a)'
    BY <2>6, <1>2, <2>1 DEF Jobs!HasSelection
  <2>7. Jobs!ReportsAreRight'
    BY <2>3, <2>6, ReportsStay
  <2> QED BY <1>1, <1>2, <1>4, <2>2, <2>3, <2>4, <2>5, <2>7
<1> QED BY <1>3, <1>4

\* What a step leaves of the invariant: the objects stay right and the worker
\* that takes it, if any, is right after it.
LEMMA ForwardStep ==
    ASSUME Jobs!JobsInv, Jobs!JobsAssumption, Jobs!Forward, Jobs!JobTypes', Jobs!JobIsRight', Jobs!OwnSelection', Jobs!ReportsAreRight',
           \A p \in v5' \ v5 : Jobs!PatchOK(p)',
           \A w \in Setup["job"].Workers : (v3'[w] = v3[w] /\ v4'[w] = v4[w]) \/ Jobs!WorkerOK(w)'
    PROVE  Jobs!JobsInv'
<1>1. ASSUME NEW p \in v5' PROVE Jobs!PatchOK(p)'
  <2>1. CASE p \in v5
    BY <2>1, PatchStays DEF Jobs!JobsInv
  <2> QED BY <2>1
<1>2. ASSUME NEW w \in Setup["job"].Workers PROVE Jobs!WorkerOK(w)'
  BY WorkerStays
<1> QED BY <1>1, <1>2 DEF Jobs!JobsInv

\* The initial state is right.
LEMMA JobsInvInit ==
    ASSUME Jobs!JobsAssumption, Jobs!Init
    PROVE  Jobs!JobsInv
<1>1. Jobs!JobTypes
  BY DEF Jobs!Init, Jobs!JobsAssumption, Jobs!JobTypes, Jobs!JobSet, Jobs!ExecSet, Jobs!Pcs, Jobs!States, Jobs!Nobody
<1> QED BY <1>1 DEF Jobs!Init, Jobs!JobsInv, Jobs!JobIsRight, Jobs!OwnSelection, Jobs!ReportsAreRight, Jobs!WorkerOK

\* A delayed patch arrives.
LEMMA LatePatchInv ==
    ASSUME Jobs!JobsInv, Jobs!JobsAssumption, Jobs!LatePatch
    PROVE  Jobs!JobsInv' /\ Jobs!NoStalePatch
<1>1. PICK p \in v5 :
        /\ v5' = v5 \ {p}
        /\ IF Jobs!Applies(p) THEN Jobs!Apply(p) ELSE UNCHANGED <<v1, v2>>
        /\ UNCHANGED <<v3, v4, v6, v7, v8, v9>>
  BY DEF Jobs!LatePatch
<1>2. Jobs!PatchOK(p)
  BY DEF Jobs!JobsInv
<1>3. CASE Jobs!Applies(p)
  <2>1. /\ Jobs!Forward /\ v1' \in Jobs!JobSet /\ v2' \in [Setup["job"].Attempts -> Jobs!ExecSet]
        /\ Jobs!JobIsRight' /\ Jobs!OwnSelection' /\ Jobs!ReportsAreRight'
        /\ v1'.image = v1.image /\ v1'.token = p.token
        /\ p.token = None => Jobs!Ended(v1.token)
    BY <1>1, <1>2, <1>3, PatchApplies
  <2>2. Jobs!JobTypes'
    BY <1>1, <2>1 DEF Jobs!JobsInv, Jobs!JobTypes
  <2>3. Jobs!JobsInv'
    BY <1>1, <2>1, <2>2, ForwardStep
  <2> QED BY <2>1, <2>3 DEF Jobs!NoStalePatch, Jobs!Ended
<1>4. CASE ~Jobs!Applies(p)
  <2>1. UNCHANGED <<v1, v2>>
    BY <1>1, <1>4
  <2>2. Jobs!Forward /\ Jobs!JobTypes' /\ Jobs!JobIsRight' /\ Jobs!OwnSelection' /\ Jobs!ReportsAreRight'
    BY <1>1, <2>1 DEF Jobs!JobsInv, Jobs!JobTypes, Jobs!JobSet, Jobs!Forward, Jobs!JobIsRight, Jobs!OwnSelection, Jobs!ReportsAreRight, Jobs!Ended,
       Jobs!ValidExecution, Jobs!Selected, Jobs!HasSelection
  <2> QED BY <1>1, <2>1, <2>2, ForwardStep DEF Jobs!NoStalePatch
<1> QED BY <1>3, <1>4

\* Only executions change, and each keeps what it runs, or moves on.
LEMMA ExecutionsMove ==
    ASSUME Jobs!JobsInv, Jobs!JobsAssumption, UNCHANGED <<v1, v4, v5, v6, v7, v9>>,
           v2' \in [Setup["job"].Attempts -> Jobs!ExecSet],
           \A a \in Setup["job"].Attempts :
              /\ v2'[a].payload = v2[a].payload /\ v2'[a].image = v2[a].image
              /\ v2[a].state = "absent" <=> v2'[a].state = "absent"
              /\ v2[a].state \in Jobs!Terminal => v2'[a].state = v2[a].state,
           v3' \in [Setup["job"].Workers -> Jobs!Pcs],
           \A w \in Setup["job"].Workers : v3'[w] = v3[w] \/ Jobs!WorkerOK(w)'
    PROVE  Jobs!JobsInv'
<1>1. Jobs!Forward /\ Jobs!JobTypes'
  BY DEF Jobs!JobsInv, Jobs!JobTypes, Jobs!JobSet, Jobs!Forward
<1>2. Jobs!JobIsRight'
  BY DEF Jobs!JobsInv, Jobs!JobTypes, Jobs!JobSet, Jobs!Nobody, Jobs!JobIsRight
<1>3. Jobs!OwnSelection'
  BY <1>1, SelectionStays DEF Jobs!JobsInv
<1>4. Jobs!ReportsAreRight'
  BY <1>1, ReportsStay DEF Jobs!HasSelection, Jobs!Selected
<1> QED BY <1>1, <1>2, <1>3, <1>4, ForwardStep

\* An execution starts to run, or ends.
LEMMA ProgressInv ==
    ASSUME Jobs!JobsInv, Jobs!JobsAssumption, NEW a \in Setup["job"].Attempts, Jobs!Progress(a) \/ Jobs!Finish(a)
    PROVE  Jobs!JobsInv' /\ Jobs!NoStalePatch
<1>1. v2 \in [Setup["job"].Attempts -> Jobs!ExecSet] /\ v2[a] \in Jobs!ExecSet
  BY DEF Jobs!JobsInv, Jobs!JobTypes
<1>2. /\ UNCHANGED <<v1, v3, v4, v5, v6, v7, v9>>
      /\ v2[a].state \in {"accepted", "visible", "running"}
      /\ \E s \in Jobs!States \ {"absent"} : v2' = [v2 EXCEPT ![a].state = s]
  <2>1. CASE Jobs!Progress(a)
    BY <2>1, <1>1 DEF Jobs!Progress, Jobs!States
  <2>2. CASE Jobs!Finish(a)
    BY <2>2, <1>1 DEF Jobs!Finish, Jobs!States
  <2> QED BY <2>1, <2>2
<1>3. PICK s \in Jobs!States \ {"absent"} : v2' = [v2 EXCEPT ![a].state = s]
  BY <1>2
<1>4. /\ v2' \in [Setup["job"].Attempts -> Jobs!ExecSet] /\ v2'[a].state = s
      /\ v2'[a].payload = v2[a].payload /\ v2'[a].image = v2[a].image
      /\ \A b \in Setup["job"].Attempts \ {a} : v2'[b] = v2[b]
  BY <1>1, <1>3 DEF Jobs!ExecSet
<1>5. v2[a].state # "absent" /\ v2[a].state \notin Jobs!Terminal /\ s # "absent"
  BY <1>2, <1>3 DEF Jobs!Terminal
<1>6. v3' \in [Setup["job"].Workers -> Jobs!Pcs]
  BY <1>2 DEF Jobs!JobsInv, Jobs!JobTypes
<1>7. \A b \in Setup["job"].Attempts :
              /\ v2'[b].payload = v2[b].payload /\ v2'[b].image = v2[b].image
              /\ v2[b].state = "absent" <=> v2'[b].state = "absent"
              /\ v2[b].state \in Jobs!Terminal => v2'[b].state = v2[b].state
  BY <1>4, <1>5
<1>8. Jobs!JobsInv'
  BY <1>2, <1>4, <1>6, <1>7, ExecutionsMove
<1> QED BY <1>2, <1>8 DEF Jobs!NoStalePatch

\* The tool deploys the Job anew.
LEMMA DeployInv ==
    ASSUME Jobs!JobsInv, Jobs!JobsAssumption, Jobs!Deploy
    PROVE  Jobs!JobsInv' /\ Jobs!NoStalePatch
<1>1. PICK i \in Setup["job"].Images, t \in {v1.token, None} :
          v1' = [version |-> v1.version + 1, image |-> i, token |-> t, payload |-> None]
  BY DEF Jobs!Deploy
<1>2. UNCHANGED <<v2, v3, v4, v5, v6, v7>> /\ v9' = v9 + 1 /\ v9' # v9
  BY DEF Jobs!Deploy, Jobs!JobsInv, Jobs!JobTypes
<1>3. v1.version \in Nat /\ v1.token \in Jobs!Nobody
  BY DEF Jobs!JobsInv, Jobs!JobTypes, Jobs!JobSet
<1>4. /\ v1' \in Jobs!JobSet /\ v1'.version = v1.version + 1 /\ v1'.payload = None
      /\ v1'.token \in {v1.token, None}
  BY <1>1, <1>3 DEF Jobs!JobSet, Jobs!Nobody
<1>5. Jobs!Forward /\ Jobs!JobTypes'
  BY <1>2, <1>3, <1>4 DEF Jobs!Forward, Jobs!JobsInv, Jobs!JobTypes
<1>6. Jobs!JobIsRight'
  BY <1>2, <1>4 DEF Jobs!JobsInv, Jobs!JobIsRight
<1>7. Jobs!OwnSelection'
  BY <1>2, <1>5, SelectionStays DEF Jobs!JobsInv
<1>8. Jobs!ReportsAreRight'
  <2>1. \A a \in Setup["job"].Attempts : Jobs!HasSelection(v1, a)' => Jobs!HasSelection(v1, a) \/ a \notin Setup["job"].Repairs
    BY <1>4 DEF Jobs!HasSelection, Jobs!Selected, Jobs!Payload, Jobs!JobsAssumption
  <2>2. \A a \in Setup["job"].Attempts : Jobs!Ended(a)' = Jobs!Ended(a)
    BY <1>2 DEF Jobs!Ended
  <2> QED BY <1>2, <2>1, <2>2 DEF Jobs!ReportsAreRight, Jobs!JobsInv, Jobs!JobTypes
<1>9. Jobs!JobsInv'
  BY <1>2, <1>5, <1>6, <1>7, <1>8, ForwardStep
<1> QED BY <1>2, <1>9 DEF Jobs!NoStalePatch

\* A worker that sends a patch: it applies, is refused, or is under way.
LEMMA PatchInv ==
    ASSUME Jobs!JobsInv, Jobs!JobsAssumption, NEW w \in Setup["job"].Workers, NEW p, Jobs!PatchOK(p),
           NEW done \in {"submitted", "restore_check"}, NEW unknown \in {"look_again", "restore_check"},
           Jobs!Patch(w, p, done, unknown), v4' = [v4 EXCEPT ![w] = None],
           UNCHANGED <<v6, v7, v9>>,
           done = "submitted" => p.token = Setup["job"].AttemptOf[w],
           "restore_check" \in {done, unknown} => Jobs!Ended(Setup["job"].AttemptOf[w])
    PROVE  Jobs!JobsInv' /\ Jobs!NoStalePatch
<1>1. Setup["job"].AttemptOf[w] \in Setup["job"].Attempts /\ None \notin Setup["job"].Attempts
  BY DEF Jobs!JobsAssumption
<1>2. /\ v3' \in [Setup["job"].Workers -> Jobs!Pcs] /\ v3'[w] \in {done, unknown} /\ DOMAIN v4' = Setup["job"].Workers
      /\ \A v \in Setup["job"].Workers \ {w} : v3'[v] = v3[v] /\ v4'[v] = v4[v]
  BY DEF Jobs!Patch, Jobs!Goto, Jobs!JobsInv, Jobs!JobTypes, Jobs!Pcs
<1>3. CASE Jobs!Applies(p) /\ Jobs!Apply(p) /\ UNCHANGED v5
  <2>1. /\ Jobs!Forward /\ v1' \in Jobs!JobSet /\ v2' \in [Setup["job"].Attempts -> Jobs!ExecSet]
        /\ Jobs!JobIsRight' /\ Jobs!OwnSelection' /\ Jobs!ReportsAreRight'
        /\ p.token # None => v2'[p.token].state # "absent"
        /\ v1'.image = v1.image /\ v1'.token = p.token
        /\ p.token = None => Jobs!Ended(v1.token)
    BY <1>3, PatchApplies
  <2>2. Jobs!JobTypes'
    BY <1>2, <2>1 DEF Jobs!JobsInv, Jobs!JobTypes
  <2>3. Jobs!Ended(Setup["job"].AttemptOf[w]) => Jobs!Ended(Setup["job"].AttemptOf[w])'
    BY <1>1, <2>1 DEF Jobs!Forward, Jobs!Ended, Jobs!Terminal
  <2>4. Jobs!WorkerOK(w)'
    BY <1>1, <1>2, <2>1, <2>3 DEF Jobs!WorkerOK
  <2>5. Jobs!JobsInv'
    BY <1>2, <1>3, <2>1, <2>2, <2>4, ForwardStep
  <2> QED BY <2>1, <2>5 DEF Jobs!NoStalePatch, Jobs!Ended
<1>4. CASE UNCHANGED <<v1, v2>> /\ v3'[w] = unknown /\ v5' \in {v5, v5 \union {p}}
  <2>1. Jobs!Forward /\ Jobs!JobTypes' /\ Jobs!JobIsRight' /\ Jobs!OwnSelection' /\ Jobs!ReportsAreRight'
    BY <1>2, <1>4 DEF Jobs!JobsInv, Jobs!JobTypes, Jobs!JobSet, Jobs!Forward, Jobs!JobIsRight, Jobs!OwnSelection, Jobs!ReportsAreRight, Jobs!Ended,
       Jobs!ValidExecution, Jobs!Selected, Jobs!HasSelection
  <2>2. Jobs!PatchOK(p)' /\ (Jobs!Ended(Setup["job"].AttemptOf[w]) => Jobs!Ended(Setup["job"].AttemptOf[w])')
    BY <1>4, <2>1, PatchStays DEF Jobs!Ended
  <2>3. Jobs!WorkerOK(w)'
    BY <1>2, <1>4, <2>2 DEF Jobs!WorkerOK
  <2>4. Jobs!JobsInv'
    BY <1>2, <1>4, <2>1, <2>2, <2>3, ForwardStep
  <2> QED BY <1>4, <2>4 DEF Jobs!NoStalePatch
<1>5. v3 \in [Setup["job"].Workers -> Jobs!Pcs]
  BY DEF Jobs!JobsInv, Jobs!JobTypes
<1> QED BY <1>3, <1>4, <1>5 DEF Jobs!Patch, Jobs!Goto

\* The patch that starts an execution carries the attempt's own selection.
LEMMA StartExecutionInv ==
    ASSUME Jobs!JobsInv, Jobs!JobsAssumption, NEW w \in Setup["job"].Workers, Jobs!StartExecution(w)
    PROVE  Jobs!JobsInv' /\ Jobs!NoStalePatch
<1>1. PICK a \in Setup["job"].Attempts : a = Setup["job"].AttemptOf[w]
  BY DEF Jobs!JobsAssumption
<1>2. PICK j \in Jobs!JobSet : j = v4[w] /\ j.version <= v1.version /\ (j.version = v1.version => j = v1) /\ j.image = Setup["job"].Image
  BY DEF Jobs!JobsInv, Jobs!WorkerOK, Jobs!SeenOK, Jobs!StartExecution
<1>3. Jobs!Payload(a) \in Jobs!Nobody /\ None \notin Setup["job"].Attempts
  BY <1>1 DEF Jobs!Payload, Jobs!Nobody, Jobs!JobsAssumption
<1>4. PICK p : p = [Jobs!Selection(j, a) EXCEPT !.token = a]
  OBVIOUS
<1>5. /\ p \in Jobs!JobSet /\ p.version = j.version /\ p.image = j.image /\ p.token = a /\ p.payload = Jobs!Payload(a)
  BY <1>1, <1>2, <1>3, <1>4 DEF Jobs!Selection, Jobs!JobSet, Jobs!Nobody
<1>6. Jobs!PatchOK(p)
  BY <1>1, <1>2, <1>3, <1>5 DEF Jobs!PatchOK
<1>7. /\ Jobs!Patch(w, p, "submitted", "look_again") /\ v4' = [v4 EXCEPT ![w] = None]
      /\ UNCHANGED <<v6, v7, v9>>
  BY <1>1, <1>2, <1>4 DEF Jobs!StartExecution
<1> QED BY <1>1, <1>5, <1>6, <1>7, PatchInv

\* The patch that restores the Job is built on the selection of an execution
\* that is over.
LEMMA RestoreInv ==
    ASSUME Jobs!JobsInv, Jobs!JobsAssumption, NEW w \in Setup["job"].Workers, Jobs!Restore(w)
    PROVE  Jobs!JobsInv' /\ Jobs!NoStalePatch
<1>1. PICK a \in Setup["job"].Attempts : a = Setup["job"].AttemptOf[w]
  BY DEF Jobs!JobsAssumption
<1>2. PICK j \in Jobs!JobSet :
        j = v4[w] /\ j.version <= v1.version /\ (j.version = v1.version => j = v1) /\ j.token = a
  BY <1>1 DEF Jobs!JobsInv, Jobs!WorkerOK, Jobs!SeenOK, Jobs!Restore
<1>3. Jobs!Ended(a)
  BY <1>1 DEF Jobs!JobsInv, Jobs!WorkerOK, Jobs!Restore
<1>4. PICK p : p = [j EXCEPT !.payload = None, !.token = None]
  OBVIOUS
<1>5. /\ p \in Jobs!JobSet /\ p.version = j.version /\ p.image = j.image /\ p.token = None /\ p.payload = None
  BY <1>2, <1>4 DEF Jobs!JobSet, Jobs!Nobody
<1>6. Jobs!PatchOK(p)
  BY <1>2, <1>3, <1>5 DEF Jobs!PatchOK
<1>7. /\ Jobs!Patch(w, p, "restore_check", "restore_check") /\ v4' = [v4 EXCEPT ![w] = None]
      /\ UNCHANGED <<v6, v7, v9>>
  BY <1>2, <1>4 DEF Jobs!Restore
<1> QED BY <1>1, <1>3, <1>6, <1>7, PatchInv

\* A step that reads the Job or the execution, and may report.
LEMMA ReadingStep ==
    ASSUME Jobs!JobsInv, Jobs!JobsAssumption, NEW w \in Setup["job"].Workers, UNCHANGED <<v1, v2, v5, v9>>,
           v3' \in [Setup["job"].Workers -> Jobs!Pcs], DOMAIN v4' = Setup["job"].Workers,
           \A v \in Setup["job"].Workers \ {w} : v3'[v] = v3[v] /\ v4'[v] = v4[v],
           Jobs!WorkerOK(w)', Jobs!ReportsAreRight', v6' \subseteq Setup["job"].Attempts, DOMAIN v7' = Setup["job"].Attempts
    PROVE  Jobs!JobsInv' /\ Jobs!NoStalePatch
<1>1. Jobs!Forward /\ Jobs!JobTypes' /\ Jobs!JobIsRight' /\ Jobs!OwnSelection'
  BY DEF Jobs!JobsInv, Jobs!JobTypes, Jobs!JobSet, Jobs!Forward, Jobs!JobIsRight, Jobs!OwnSelection, Jobs!ValidExecution, Jobs!Selected
<1>2. Jobs!JobsInv'
  BY <1>1, ForwardStep
<1> QED BY <1>2 DEF Jobs!NoStalePatch

\* Such a step that reports nothing.
LEMMA QuietStep ==
    ASSUME Jobs!JobsInv, Jobs!JobsAssumption, NEW w \in Setup["job"].Workers, UNCHANGED <<v1, v2, v5, v6, v7, v9>>,
           NEW l \in Jobs!Pcs, v3' = [v3 EXCEPT ![w] = l],
           v4' = v4 \/ \E j : v4' = [v4 EXCEPT ![w] = j], Jobs!WorkerOK(w)'
    PROVE  Jobs!JobsInv' /\ Jobs!NoStalePatch
<1>1. /\ v3' \in [Setup["job"].Workers -> Jobs!Pcs] /\ DOMAIN v4' = Setup["job"].Workers
      /\ \A v \in Setup["job"].Workers \ {w} : v3'[v] = v3[v] /\ v4'[v] = v4[v]
  BY DEF Jobs!JobsInv, Jobs!JobTypes
<1>2. Jobs!ReportsAreRight' /\ v6' \subseteq Setup["job"].Attempts /\ DOMAIN v7' = Setup["job"].Attempts
  BY DEF Jobs!JobsInv, Jobs!JobTypes, Jobs!ReportsAreRight, Jobs!Ended, Jobs!HasSelection, Jobs!Selected
<1> QED BY <1>1, <1>2, ReadingStep

\* The steps of submit_or_adopt that read.
LEMMA SubmitInv ==
    ASSUME Jobs!JobsInv, Jobs!JobsAssumption, NEW w \in Setup["job"].Workers,
           Jobs!LookForExecution(w) \/ Jobs!ReadJob(w) \/ Jobs!LookAgain(w) \/ Jobs!ReadAgain(w) \/ Jobs!Resubmit(w)
    PROVE  Jobs!JobsInv' /\ Jobs!NoStalePatch
<1>1. PICK a \in Setup["job"].Attempts : a = Setup["job"].AttemptOf[w]
  BY DEF Jobs!JobsAssumption
<1>2. /\ v3 \in [Setup["job"].Workers -> Jobs!Pcs] /\ w \in DOMAIN v4 /\ Jobs!WorkerOK(w) /\ None \notin Setup["job"].Attempts
      /\ v1 \in Jobs!JobSet /\ v1.version \in Nat /\ (v1.token = a => v2[a].state # "absent")
  BY DEF Jobs!JobsInv, Jobs!JobTypes, Jobs!JobsAssumption, Jobs!JobIsRight, Jobs!JobSet
<1>3. CASE Jobs!LookForExecution(w)
  <2>1. /\ UNCHANGED <<v1, v2, v4, v5, v6, v7, v9>>
        /\ \E l \in Jobs!Pcs : /\ v3' = [v3 EXCEPT ![w] = l] /\ l \in {"submit", "read_job", "submitted", "mismatch"}
                               /\ l = "submitted" => Jobs!Shown(a)
    BY <1>1, <1>2, <1>3 DEF Jobs!LookForExecution, Jobs!Goto, Jobs!Pcs
  <2>2. Jobs!WorkerOK(w)'
    BY <1>1, <1>2, <2>1 DEF Jobs!WorkerOK, Jobs!Shown
  <2> QED BY <2>1, <2>2, QuietStep
<1>4. CASE Jobs!ReadJob(w)
  <2>1. /\ UNCHANGED <<v1, v2, v5, v6, v7, v9>>
        /\ \E l \in Jobs!Pcs : /\ v3' = [v3 EXCEPT ![w] = l] /\ l \in {"submit", "start", "submitted", "mismatch"}
                               /\ l = "submitted" => v1.token = a
                               /\ l = "start" => v1.image = Setup["job"].Image /\ v4' = [v4 EXCEPT ![w] = v1]
                               /\ l # "start" => v4' = v4
    BY <1>1, <1>2, <1>4 DEF Jobs!ReadJob, Jobs!ValidJob, Jobs!Goto, Jobs!Pcs
  <2>2. Jobs!WorkerOK(w)'
    BY <1>1, <1>2, <2>1 DEF Jobs!WorkerOK, Jobs!SeenOK
  <2>3. v4' = v4 \/ \E j : v4' = [v4 EXCEPT ![w] = j]
    BY <2>1
  <2> QED BY <2>1, <2>2, <2>3, QuietStep
<1>5. CASE Jobs!LookAgain(w)
  <2>1. /\ UNCHANGED <<v1, v2, v4, v5, v6, v7, v9>>
        /\ \E l \in Jobs!Pcs : /\ v3' = [v3 EXCEPT ![w] = l] /\ l \in {"submit", "read_again", "submitted", "mismatch"}
                               /\ l = "submitted" => Jobs!Shown(a)
    BY <1>1, <1>2, <1>5 DEF Jobs!LookAgain, Jobs!Goto, Jobs!Pcs
  <2>2. Jobs!WorkerOK(w)'
    BY <1>1, <1>2, <2>1 DEF Jobs!WorkerOK, Jobs!Shown
  <2> QED BY <2>1, <2>2, QuietStep
<1>6. CASE Jobs!ReadAgain(w)
  <2>1. /\ UNCHANGED <<v1, v2, v4, v5, v6, v7, v9>>
        /\ \E l \in Jobs!Pcs : /\ v3' = [v3 EXCEPT ![w] = l] /\ l \in {"submit", "submitted", "mismatch"}
                               /\ l = "submitted" => v1.token = a
    BY <1>1, <1>2, <1>6 DEF Jobs!ReadAgain, Jobs!Goto, Jobs!Pcs
  <2>2. Jobs!WorkerOK(w)'
    BY <1>1, <1>2, <2>1 DEF Jobs!WorkerOK
  <2> QED BY <2>1, <2>2, QuietStep
<1>7. CASE Jobs!Resubmit(w)
  <2>1. UNCHANGED <<v1, v2, v4, v5, v6, v7, v9>> /\ v3' = [v3 EXCEPT ![w] = "submit"]
        /\ "submit" \in Jobs!Pcs
    BY <1>7 DEF Jobs!Resubmit, Jobs!Goto, Jobs!Pcs
  <2>2. Jobs!WorkerOK(w)'
    BY <1>2, <2>1 DEF Jobs!WorkerOK
  <2> QED BY <2>1, <2>2, QuietStep
<1> QED BY <1>3, <1>4, <1>5, <1>6, <1>7

\* An observation of an execution that is over reports its outcome, and the
\* cleanup of an attempt without a selection.
LEMMA ObserveInv ==
    ASSUME Jobs!JobsInv, Jobs!JobsAssumption, NEW w \in Setup["job"].Workers, Jobs!Observe(w)
    PROVE  Jobs!JobsInv' /\ Jobs!NoStalePatch
<1>1. PICK a \in Setup["job"].Attempts : a = Setup["job"].AttemptOf[w]
  BY DEF Jobs!JobsAssumption
<1>2. /\ v3[w] = "submitted" /\ UNCHANGED <<v1, v2, v4, v5, v9>>
      /\ v2[a].state \in Jobs!Terminal
  BY <1>1 DEF Jobs!Observe, Jobs!Over
<1>3. /\ v3 \in [Setup["job"].Workers -> Jobs!Pcs] /\ DOMAIN v4 = Setup["job"].Workers /\ Jobs!WorkerOK(w) /\ None \notin Setup["job"].Attempts
      /\ v6 \subseteq Setup["job"].Attempts /\ DOMAIN v7 = Setup["job"].Attempts /\ Jobs!ReportsAreRight
  BY DEF Jobs!JobsInv, Jobs!JobTypes, Jobs!JobsAssumption
<1>4. Jobs!Ended(a) /\ Jobs!Ended(a)' /\ (\A b \in Setup["job"].Attempts : Jobs!Ended(b)' = Jobs!Ended(b))
      /\ (\A b \in Setup["job"].Attempts : Jobs!HasSelection(v1, b)' = Jobs!HasSelection(v1, b))
  BY <1>2, <1>3 DEF Jobs!Ended, Jobs!HasSelection, Jobs!Selected
<1>5. Jobs!RepairOf(a) = None => a \notin Setup["job"].Repairs
  BY <1>1, <1>3, <1>4 DEF Jobs!RepairOf, Jobs!JobsInv, Jobs!OwnSelection, Jobs!ValidExecution, Jobs!Selected, Jobs!Payload, Jobs!Ended, Jobs!Terminal
<1>6. \/ /\ v7' = [v7 EXCEPT ![a] = Jobs!OutcomeOf(v2[a].state)]
         /\ \/ a \notin Setup["job"].Repairs /\ v6' = v6 \union {a} /\ v3' = v3
            \/ v3' = [v3 EXCEPT ![w] = "restore_read"] /\ v6' = v6
      \/ UNCHANGED <<v3, v7, v6>>
  BY <1>1, <1>5 DEF Jobs!Observe, Jobs!Goto
<1>7. /\ v3' \in [Setup["job"].Workers -> Jobs!Pcs] /\ v3'[w] \in {"submitted", "restore_read"}
      /\ (\A v \in Setup["job"].Workers \ {w} : v3'[v] = v3[v] /\ v4'[v] = v4[v])
  BY <1>2, <1>3, <1>6 DEF Jobs!Pcs
<1>8. Jobs!WorkerOK(w)'
  BY <1>1, <1>2, <1>4, <1>7 DEF Jobs!WorkerOK, Jobs!Terminal
<1>9. /\ v6' \subseteq v6 \union {a} /\ (a \in Setup["job"].Repairs => v6' = v6)
      /\ DOMAIN v7' = Setup["job"].Attempts
      /\ v7'[a] \in {v7[a], Jobs!OutcomeOf(v2[a].state)}
      /\ \A b \in Setup["job"].Attempts \ {a} : v7'[b] = v7[b]
  BY <1>3, <1>6
<1>10. Jobs!ReportsAreRight'
  <2>1. ASSUME NEW b \in Setup["job"].Attempts, v7'[b] # None
        PROVE  Jobs!Ended(b)' /\ Jobs!OutcomeOf(v2'[b].state) = v7'[b]
    BY <2>1, <1>2, <1>3, <1>4, <1>9 DEF Jobs!ReportsAreRight
  <2>2. ASSUME NEW b \in v6' PROVE Jobs!Ended(b)' /\ (b \in Setup["job"].Repairs => ~Jobs!HasSelection(v1, b)')
    BY <1>3, <1>4, <1>9 DEF Jobs!ReportsAreRight
  <2> QED BY <2>1, <2>2 DEF Jobs!ReportsAreRight
<1> QED BY <1>2, <1>3, <1>7, <1>8, <1>9, <1>10, ReadingStep

\* The cleanup is confirmed when the Job no longer has the selection.
LEMMA RestoreReads ==
    ASSUME Jobs!JobsInv, Jobs!JobsAssumption, NEW w \in Setup["job"].Workers, Jobs!RestoreRead(w) \/ Jobs!RestoreCheck(w)
    PROVE  Jobs!JobsInv' /\ Jobs!NoStalePatch
<1>1. PICK a \in Setup["job"].Attempts : a = Setup["job"].AttemptOf[w]
  BY DEF Jobs!JobsAssumption
<1>2. /\ v3 \in [Setup["job"].Workers -> Jobs!Pcs] /\ DOMAIN v4 = Setup["job"].Workers /\ None \notin Setup["job"].Attempts
      /\ v6 \subseteq Setup["job"].Attempts /\ DOMAIN v7 = Setup["job"].Attempts /\ Jobs!ReportsAreRight
      /\ v1 \in Jobs!JobSet /\ v1.version \in Nat
  BY DEF Jobs!JobsInv, Jobs!JobTypes, Jobs!JobsAssumption, Jobs!JobSet
<1>3. Jobs!Ended(a) /\ UNCHANGED <<v1, v2, v5, v7, v9>>
  BY <1>1 DEF Jobs!RestoreRead, Jobs!RestoreCheck, Jobs!JobsInv, Jobs!WorkerOK
<1>4. /\ \A b \in Setup["job"].Attempts : Jobs!Ended(b)' = Jobs!Ended(b)
      /\ \A b \in Setup["job"].Attempts : Jobs!HasSelection(v1, b)' = Jobs!HasSelection(v1, b)
  BY <1>3 DEF Jobs!Ended, Jobs!HasSelection, Jobs!Selected
<1>5. a \in Setup["job"].Repairs /\ Jobs!HasSelection(v1, a) => Jobs!ValidJob(v1)
  BY <1>2 DEF Jobs!JobsInv, Jobs!JobIsRight, Jobs!HasSelection, Jobs!Selected, Jobs!Payload, Jobs!ValidJob
<1>6. \E l \in {"submitted", "restore"} :
        /\ v3' = [v3 EXCEPT ![w] = l]
        /\ l = "restore" => v1.token = a /\ v6' = v6 /\ v4' = [v4 EXCEPT ![w] = v1]
        /\ l # "restore" => v4' = v4
        /\ \/ v6' = v6
           \/ v6' = v6 \union {a} /\ (a \in Setup["job"].Repairs => ~Jobs!HasSelection(v1, a))
  BY <1>1, <1>5 DEF Jobs!RestoreRead, Jobs!RestoreCheck, Jobs!Confirm, Jobs!Goto, Jobs!HasSelection
<1>7. /\ v3' \in [Setup["job"].Workers -> Jobs!Pcs] /\ DOMAIN v4' = Setup["job"].Workers
      /\ \A v \in Setup["job"].Workers \ {w} : v3'[v] = v3[v] /\ v4'[v] = v4[v]
  BY <1>2, <1>6 DEF Jobs!Pcs
<1>8. Jobs!WorkerOK(w)'
  <2>1. v2'[a].state # "absent" /\ Jobs!Ended(a)'
    BY <1>3, <1>4 DEF Jobs!Ended, Jobs!Terminal
  <2> QED BY <1>1, <1>2, <1>3, <1>6, <2>1 DEF Jobs!WorkerOK, Jobs!SeenOK
<1>9. v6' \subseteq Setup["job"].Attempts
  BY <1>2, <1>6
<1>10. Jobs!ReportsAreRight'
  <2>1. ASSUME NEW b \in Setup["job"].Attempts, v7'[b] # None
        PROVE  Jobs!Ended(b)' /\ Jobs!OutcomeOf(v2'[b].state) = v7'[b]
    BY <2>1, <1>2, <1>3, <1>4 DEF Jobs!ReportsAreRight
  <2>2. ASSUME NEW b \in v6' PROVE Jobs!Ended(b)' /\ (b \in Setup["job"].Repairs => ~Jobs!HasSelection(v1, b)')
    BY <1>2, <1>3, <1>4, <1>6 DEF Jobs!ReportsAreRight
  <2> QED BY <2>1, <2>2 DEF Jobs!ReportsAreRight
<1> QED BY <1>2, <1>3, <1>7, <1>8, <1>9, <1>10, ReadingStep

\* A cancellation is asked for, and changes nothing but the request.
LEMMA CancelInv ==
    ASSUME Jobs!JobsInv, Jobs!JobsAssumption, NEW w \in Setup["job"].Workers, Jobs!CancelRead(w) \/ Jobs!Cancel(w)
    PROVE  Jobs!JobsInv' /\ Jobs!NoStalePatch
<1>1. PICK a \in Setup["job"].Attempts : a = Setup["job"].AttemptOf[w]
  BY DEF Jobs!JobsAssumption
<1>2. /\ v3 \in [Setup["job"].Workers -> Jobs!Pcs] /\ v2 \in [Setup["job"].Attempts -> Jobs!ExecSet] /\ v2[a] \in Jobs!ExecSet /\ Jobs!WorkerOK(w)
  BY DEF Jobs!JobsInv, Jobs!JobTypes
<1>3. v2[a].state # "absent" /\ UNCHANGED <<v1, v4, v5, v6, v7, v9>>
  BY <1>1, <1>2 DEF Jobs!CancelRead, Jobs!Cancel, Jobs!WorkerOK
<1>4. /\ \E l \in {"submitted", "cancel"} : v3' = [v3 EXCEPT ![w] = l]
      /\ v2' = v2 \/ \E c \in BOOLEAN : v2' = [v2 EXCEPT ![a].cancel = c]
  BY <1>1, <1>2 DEF Jobs!CancelRead, Jobs!Cancel, Jobs!Goto, Jobs!ExecSet
<1>5. /\ v2' \in [Setup["job"].Attempts -> Jobs!ExecSet]
      /\ \A b \in Setup["job"].Attempts : /\ v2'[b].state = v2[b].state /\ v2'[b].image = v2[b].image
                                          /\ v2'[b].payload = v2[b].payload
  BY <1>2, <1>4 DEF Jobs!ExecSet
<1>6. /\ v3' \in [Setup["job"].Workers -> Jobs!Pcs] /\ v3'[w] \in {"submitted", "cancel"}
      /\ \A v \in Setup["job"].Workers \ {w} : v3'[v] = v3[v]
  BY <1>2, <1>4 DEF Jobs!Pcs
<1>7. Jobs!WorkerOK(w)'
  BY <1>1, <1>3, <1>5, <1>6 DEF Jobs!WorkerOK
<1>8. Jobs!JobsInv'
  BY <1>3, <1>5, <1>6, <1>7, ExecutionsMove
<1> QED BY <1>3, <1>8 DEF Jobs!NoStalePatch

\* No step leaves the invariant, and none undoes a deployment or takes a
\* selection from an execution that is not over.
LEMMA JobsInvStep ==
    ASSUME Jobs!JobsInv, Jobs!JobsAssumption, [Jobs!Next]_(Jobs!vars)
    PROVE  Jobs!JobsInv' /\ Jobs!NoStalePatch
<1>1. CASE UNCHANGED Jobs!vars
  <2>1. Jobs!Forward /\ Jobs!JobTypes' /\ Jobs!JobIsRight' /\ Jobs!OwnSelection' /\ Jobs!ReportsAreRight'
    BY <1>1 DEF Jobs!vars, Jobs!JobsInv, Jobs!JobTypes, Jobs!JobSet, Jobs!Forward, Jobs!JobIsRight, Jobs!OwnSelection, Jobs!ReportsAreRight, Jobs!Ended,
       Jobs!ValidExecution, Jobs!Selected, Jobs!HasSelection
  <2>2. Jobs!JobsInv'
    BY <1>1, <2>1, ForwardStep DEF Jobs!vars
  <2> QED BY <1>1, <2>2 DEF Jobs!vars, Jobs!NoStalePatch
<1>2. CASE Jobs!LatePatch
  BY <1>2, LatePatchInv
<1>3. CASE Jobs!Deploy
  BY <1>3, DeployInv
<1>4. ASSUME NEW a \in Setup["job"].Attempts, Jobs!Progress(a) \/ Jobs!Finish(a) PROVE Jobs!JobsInv' /\ Jobs!NoStalePatch
  BY <1>4, ProgressInv
<1>5. ASSUME NEW w \in Setup["job"].Workers, Jobs!Step(w) \/ Jobs!CancelRead(w) \/ Jobs!Cancel(w) \/ Jobs!Resubmit(w)
      PROVE  Jobs!JobsInv' /\ Jobs!NoStalePatch
  BY <1>5, SubmitInv, StartExecutionInv, ObserveInv, RestoreReads, RestoreInv, CancelInv DEF Jobs!Step
<1> QED BY <1>1, <1>2, <1>3, <1>4, <1>5 DEF Jobs!Next, Jobs!Rest, Jobs!ObserveRunning

\* A patch writes the selection of its own attempt.
LEMMA AppliedBounded ==
    ASSUME Jobs!Bounded, NEW p \in Jobs!JobSet, p.payload \in Setup["job"].Repairs \union {None}, Jobs!Apply(p)
    PROVE  v1'.payload \in Setup["job"].Repairs \union {None}
BY DEF Jobs!Apply, Jobs!JobSet

\* The faults only grow by calls that fail.
LEMMA FaultBounded ==
    ASSUME Jobs!JobsAssumption, Jobs!Bounded, UNCHANGED v8 \/ Jobs!Fault
    PROVE  v8' \in 0..Setup["job"].MaxFaults
BY DEF Jobs!JobsAssumption, Jobs!Bounded, Jobs!Fault

\* No step leaves the bounds.
LEMMA BoundedStep ==
    ASSUME Jobs!JobsAssumption, Jobs!JobsInv, Jobs!Bounded, [Jobs!Next]_(Jobs!vars)
    PROVE  Jobs!Bounded'
<1>1. CASE UNCHANGED Jobs!vars
  BY <1>1 DEF Jobs!vars, Jobs!Bounded
<1>2. CASE Jobs!LatePatch
  <2>1. PICK p \in v5 : (IF Jobs!Applies(p) THEN Jobs!Apply(p) ELSE UNCHANGED <<v1, v2>>) /\ UNCHANGED <<v8, v9>>
    BY <1>2 DEF Jobs!LatePatch
  <2>2. p \in Jobs!JobSet /\ p.payload \in Setup["job"].Repairs \union {None}
    BY DEF Jobs!JobsInv, Jobs!PatchOK, Jobs!Payload
  <2> QED BY <2>1, <2>2, AppliedBounded DEF Jobs!Bounded
<1>3. CASE Jobs!Deploy
  BY <1>3 DEF Jobs!Deploy, Jobs!Bounded, Jobs!JobsAssumption
<1>4. ASSUME NEW w \in Setup["job"].Workers, Jobs!StartExecution(w) \/ Jobs!Restore(w) PROVE Jobs!Bounded'
  <2>1. PICK p \in Jobs!JobSet, d \in Jobs!Pcs, u \in Jobs!Pcs :
             Jobs!Patch(w, p, d, u) /\ p.payload \in Setup["job"].Repairs \union {None} /\ UNCHANGED v9
    <3>1. v4[w] \in Jobs!JobSet /\ Setup["job"].AttemptOf[w] \in Setup["job"].Attempts
      BY <1>4 DEF Jobs!StartExecution, Jobs!Restore, Jobs!JobsInv, Jobs!WorkerOK, Jobs!SeenOK, Jobs!JobsAssumption
    <3>2. CASE Jobs!StartExecution(w)
      <4> DEFINE a == Setup["job"].AttemptOf[w]
                 p == [Jobs!Selection(v4[w], a) EXCEPT !.token = a]
      <4>1. p \in Jobs!JobSet /\ p.payload = Jobs!Payload(a)
        BY <3>1 DEF Jobs!Selection, Jobs!JobSet, Jobs!Payload, Jobs!Nobody
      <4> QED BY <3>2, <4>1 DEF Jobs!StartExecution, Jobs!Payload, Jobs!Pcs
    <3>3. CASE Jobs!Restore(w)
      <4> DEFINE p == [v4[w] EXCEPT !.payload = None, !.token = None]
      <4>1. p \in Jobs!JobSet /\ p.payload = None
        BY <3>1 DEF Jobs!JobSet, Jobs!Nobody
      <4> QED BY <3>3, <4>1 DEF Jobs!Restore, Jobs!Pcs
    <3> QED BY <1>4, <3>2, <3>3
  <2>2. UNCHANGED v8 \/ Jobs!Fault
    BY <2>1 DEF Jobs!Patch
  <2>3. v1'.payload \in Setup["job"].Repairs \union {None}
    BY <2>1, AppliedBounded DEF Jobs!Patch, Jobs!Bounded
  <2> QED BY <2>1, <2>2, <2>3, FaultBounded DEF Jobs!Bounded
<1>5. ASSUME UNCHANGED <<v1, v9>>, UNCHANGED v8 \/ Jobs!Fault PROVE Jobs!Bounded'
  BY <1>5, FaultBounded DEF Jobs!Bounded
<1> QED
  BY <1>1, <1>2, <1>3, <1>4, <1>5
  DEF Jobs!Next, Jobs!Rest, Jobs!ObserveRunning, Jobs!Progress, Jobs!Finish, Jobs!Step, Jobs!LookForExecution, Jobs!ReadJob, Jobs!LookAgain, Jobs!ReadAgain,
      Jobs!Observe, Jobs!RestoreRead, Jobs!RestoreCheck, Jobs!CancelRead, Jobs!Cancel, Jobs!Resubmit

\* What the invariant says of the Job, its executions and the reports.
LEMMA JobsMeaning ==
    ASSUME Jobs!JobsInv, Jobs!Bounded
    PROVE  Jobs!TypeOK /\ Jobs!OwnSelection /\ Jobs!HandleIsReal /\ Jobs!CleanedStaysClean /\ Jobs!TrueOutcome
<1>1. Jobs!TypeOK
  BY DEF Jobs!JobsInv, Jobs!Bounded, Jobs!JobTypes, Jobs!JobSet, Jobs!ExecSet, Jobs!Nobody, Jobs!TypeOK
<1> QED BY <1>1 DEF Jobs!JobsInv, Jobs!HandleIsReal, Jobs!WorkerOK, Jobs!CleanedStaysClean, Jobs!ReportsAreRight, Jobs!TrueOutcome

\* The bounds hold at the start.
LEMMA BoundedInit ==
    ASSUME Jobs!JobsAssumption, Jobs!Init
    PROVE  Jobs!Bounded
BY DEF Jobs!JobsAssumption, Jobs!Init, Jobs!Bounded

-----------------------------------------------------------------------------
(***************************************************************************)
(* Executions of the Cloud Run Job and of the OCI controller.              *)
(***************************************************************************)

JobInv == part = "job" => Jobs!JobsInv /\ Jobs!Bounded

\* The shared Job starts right.
LEMMA JobInitial == Init => JobInv
BY InitOfPart, InstancesAssumption, JobsInvInit, BoundedInit DEF JobInv

\* It stays right, and no late patch undoes another's.
LEMMA JobStep ==
    ASSUME JobInv, [Next]_suiteVars
    PROVE  JobInv' /\ (part = "job" => Jobs!NoStalePatch)
BY StepOfPart, InstancesAssumption, JobsInvStep, BoundedStep DEF JobInv

\* Whatever calls fail, are lost or come late, and whoever deploys in between,
\* an execution of the shared Cloud Run Job runs its own attempt's selection.
THEOREM SelectionsAreOwn == Spec => []OwnSelection
<1>1. JobInv => OwnSelection
  BY JobsMeaning DEF JobInv, OwnSelection
<1> QED BY <1>1, JobInitial, JobStep, PTL DEF Spec

OciParts ==
    /\ part = "oci_retry" => OciRetry!OciInv
    /\ part = "oci_cancel" => OciCancel!OciInv

\* The OCI controller starts with no attempt.
LEMMA OciInitial == Init => OciParts
BY InitOfPart, InstancesAssumption, OciRetry!OciInvInit, OciCancel!OciInvInit DEF OciParts

\* Its attempts stay in order, and its history is never rewritten.
LEMMA OciStep ==
    ASSUME OciParts, [Next]_suiteVars
    PROVE  /\ OciParts'
           /\ part = "oci_retry" => OciRetry!HistoryImmutable
           /\ part = "oci_cancel" => OciCancel!HistoryImmutable
BY StepOfPart, InstancesAssumption, OciRetry!OciInvStep, OciCancel!OciInvStep, OciRetry!HistoryStep,
   OciCancel!HistoryStep DEF OciParts

\* Over retries, cancellations and processes that take over from one another, an
\* OCI attempt is created only after the one before it has ended, and a run
\* preserved as succeeded did succeed.
THEOREM AttemptsTakeTurns == Spec => []OneAttemptAtATime
<1>1. OciParts => OneAttemptAtATime
  BY InstancesAssumption, OciRetry!OciTypes, OciCancel!OciTypes, OciRetry!OciMeaning, OciCancel!OciMeaning
     DEF OciParts, OneAttemptAtATime
<1> QED BY <1>1, OciInitial, OciStep, PTL DEF Spec

-----------------------------------------------------------------------------
(***************************************************************************)
(* One attempt on the other backends.  The variables are those of          *)
(* BackendExecutions: exec is v1, starts v2, canceling v3, tasks v4, log   *)
(* v5, shown v6, late v7, pc v8, page v9, summary v10, report v11 and      *)
(* faults v12.                                                             *)
(***************************************************************************)

TaskStates == {"running", "stopped", "gone"}
Records == Nat \X {"line", "done", "failed"}

\* What a step of the service leaves true: a name stays used, what is closed
\* stays as it was, and a task that has stopped does not run again.
Forward(p) ==
    /\ v1 # "absent" => v1' # "absent"
    /\ v3 => v3'
    /\ v1 \in Execution(p)!Closed =>
         /\ v1' = v1 /\ Len(v4') = Len(v4)
         /\ v4[Len(v4)] # "running" => v4'[Len(v4)] # "running"

\* Nothing has been started at first.
LEMMA BackendInitial ==
    ASSUME NEW p \in BackendParts, Execution(p)!Init
    PROVE  Execution(p)!BackendInv
<1> USE DEF Execution!Init
<1>1. Execution(p)!BackendTypes
  BY DEF Execution!BackendTypes, Execution!Pcs
<1>2. Execution(p)!ServiceOK /\ Execution(p)!WorkersOK /\ Execution(p)!ReportOK
  BY DEF Execution!ServiceOK, Execution!WorkersOK, Execution!ReportOK, Execution!Current, Execution!Closed
<1> QED BY <1>1, <1>2 DEF Execution!BackendInv

\* A step that leaves the service alone.
LEMMA ServiceKept ==
    ASSUME NEW p \in BackendParts, Execution(p)!BackendInv, UNCHANGED <<v1, v2, v4, v5, v6>>, v3 => v3',
           v8' \in [Setup[p].Workers -> Execution(p)!Pcs], DOMAIN v10' = Setup[p].Workers
    PROVE  Execution(p)!BackendTypes' /\ Execution(p)!ServiceOK' /\ Forward(p)
BY DEF Execution!BackendInv, Execution!BackendTypes, Execution!ServiceOK, Execution!Current, Forward

\* The name was free, and the execution starts with its first task.
LEMMA StartStep ==
    ASSUME NEW p \in BackendParts, Execution(p)!BackendAssumption, Execution(p)!BackendInv,
           Execution(p)!Free, Execution(p)!Start,
           v8' \in [Setup[p].Workers -> Execution(p)!Pcs], v10' = v10
    PROVE  Execution(p)!BackendTypes' /\ Execution(p)!ServiceOK' /\ Forward(p)
<1> USE DEF Execution!BackendInv, Execution!Free, Execution!Start
<1>1. v4 = <<>> /\ v4' = <<"running">> /\ v1' = "running" /\ v2' = 1 /\ v1 = "absent"
  BY DEF Execution!ServiceOK
<1>2. v4' \in Seq(TaskStates) /\ Len(v4') = 1 /\ v4'[1] = "running"
  BY <1>1 DEF TaskStates
<1>3. \A i \in DOMAIN v5 : v5[i][2] # "done"
  BY <1>1 DEF Execution!ServiceOK
<1>4. Execution(p)!BackendTypes'
  BY <1>1, <1>2 DEF Execution!BackendTypes, TaskStates
<1>5. Execution(p)!ServiceOK'
  BY <1>1, <1>2, <1>3 DEF Execution!ServiceOK, Execution!Current, Execution!BackendAssumption
<1> QED BY <1>1, <1>4, <1>5 DEF Forward, Execution!Closed

\* A line or a delivery.
LEMMA LogStep ==
    ASSUME NEW p \in BackendParts, Execution(p)!BackendInv, Execution(p)!WriteLine \/ Execution(p)!Deliver
    PROVE  Execution(p)!BackendTypes' /\ Execution(p)!ServiceOK' /\ Forward(p)
<1> USE DEF Execution!BackendInv
<1>1. CASE Execution(p)!Deliver
  <2>1. UNCHANGED <<v1, v2, v3, v4, v5, v7, v8, v9, v10, v11, v12>> /\ v6' \in 0 .. Len(v5')
    BY <1>1 DEF Execution!Deliver, Execution!BackendTypes
  <2> QED BY <2>1 DEF Execution!BackendTypes, Execution!ServiceOK, Execution!Current, Forward
<1>2. CASE Execution(p)!WriteLine
  <2>1. UNCHANGED <<v1, v2, v3, v4, v6, v8, v10>> /\ v5' = Append(v5, <<Len(v4), "line">>)
    BY <1>2 DEF Execution!WriteLine, Execution!Current
  <2>2. v5 \in Seq(Records) /\ <<Len(v4), "line">> \in Records
    BY DEF Records, Execution!BackendTypes
  <2>3. /\ v5' \in Seq(Records) /\ Len(v5') = Len(v5) + 1
        /\ \A i \in 1 .. Len(v5) : v5'[i] = v5[i]
        /\ v5'[Len(v5) + 1] = <<Len(v4), "line">>
    BY <2>1, <2>2, AppendProperties
  <2>4. Execution(p)!BackendTypes'
    BY <2>1, <2>2, <2>3 DEF Execution!BackendTypes, Records
  <2>5. \A i \in DOMAIN v5' : v5'[i][2] = "done" => i \in DOMAIN v5 /\ v5'[i] = v5[i]
    BY <2>2, <2>3
  <2>6. Execution(p)!ServiceOK'
    BY <2>1, <2>5 DEF Execution!ServiceOK, Execution!Current
  <2> QED BY <2>1, <2>4, <2>6 DEF Forward
<1> QED BY <1>1, <1>2

\* A task exits: the execution ends, or goes on with the next task.
LEMMA ExitStep ==
    ASSUME NEW p \in BackendParts, Execution(p)!BackendAssumption, Execution(p)!BackendInv,
           NEW code \in {"ok", "retry", "fail"}, Execution(p)!TaskExits(code)
    PROVE  Execution(p)!BackendTypes' /\ Execution(p)!ServiceOK' /\ Forward(p)
<1> USE DEF Execution!BackendInv
<1> DEFINE n == Len(v4)
           record == <<n, IF code = "ok" THEN "done" ELSE "failed">>
           stopped == [v4 EXCEPT ![n] = "stopped"]
           retried == Execution(p)!CanRetry(code)
<1>1. /\ v1 = "running" /\ v5' = Append(v5, record)
      /\ IF retried THEN v4' = Append(stopped, "running") /\ v1' = v1
         ELSE v4' = stopped /\ v1' = IF code = "ok" THEN "succeeded" ELSE "failed"
      /\ UNCHANGED <<v2, v3, v6, v8, v10>>
  BY DEF Execution!TaskExits, Execution!Current
<1>2. v4 \in Seq(TaskStates) /\ n \in 1 .. Setup[p].Retries + 1 /\ n \in Nat /\ v2 = 1 /\ Setup[p].Retries \in Nat
  BY <1>1 DEF Execution!BackendTypes, Execution!ServiceOK, TaskStates, Execution!BackendAssumption
<1>3. /\ stopped \in Seq(TaskStates) /\ Len(stopped) = n /\ stopped[n] = "stopped"
      /\ \A i \in 1 .. n : i # n => stopped[i] = v4[i]
  BY <1>2, ExceptSeq DEF TaskStates
<1> HIDE DEF stopped
<1>4. \A i \in 1 .. n : stopped[i] = "stopped"
  <2>1. DOMAIN v4 = 1 .. n
    BY <1>2
  <2>2. \A i \in 1 .. n : i # n => v4[i] = "stopped"
    BY <2>1 DEF Execution!ServiceOK, Execution!Current
  <2> QED BY <1>3, <2>2
<1>5. v5 \in Seq(Records) /\ record \in Records /\ v6 \in 0 .. Len(v5)
  BY DEF Records, Execution!BackendTypes
<1>r. record[2] = "done" => code = "ok" /\ record = <<n, "done">>
  OBVIOUS
<1> HIDE DEF record
<1>6. /\ v5' \in Seq(Records) /\ Len(v5') = Len(v5) + 1
      /\ \A i \in 1 .. Len(v5) : v5'[i] = v5[i]
      /\ v5'[Len(v5) + 1] = record
  BY <1>1, <1>5, AppendProperties
<1>7. \A i \in 1 .. Len(v5) : v5'[i][2] # "done"
  BY <1>1, <1>5, <1>6 DEF Execution!ServiceOK
<1>8. CASE retried
  <2>1. code # "ok" /\ n <= Setup[p].Retries
    BY <1>8 DEF Execution!CanRetry, Execution!Current
  <2>2. v4' \in Seq(TaskStates) /\ Len(v4') = n + 1 /\ v4'[n + 1] = "running" /\ \A i \in 1 .. n : v4'[i] = "stopped"
    <3>1. v4' = Append(stopped, "running") /\ "running" \in TaskStates
      BY <1>1, <1>8 DEF TaskStates
    <3>2. /\ Append(stopped, "running") \in Seq(TaskStates)
          /\ Len(Append(stopped, "running")) = Len(stopped) + 1
          /\ \A i \in 1 .. Len(stopped) : Append(stopped, "running")[i] = stopped[i]
          /\ Append(stopped, "running")[Len(stopped) + 1] = "running"
      BY <1>3, <3>1, AppendProperties
    <3> HIDE DEF n
    <3> QED BY <1>3, <1>4, <3>1, <3>2
  <2>3. \A i \in DOMAIN v5' : v5'[i][2] # "done"
    BY <1>r, <1>6, <1>7, <2>1
  <2>4. Execution(p)!BackendTypes'
    BY <1>1, <1>5, <1>6, <1>8, <2>2 DEF Execution!BackendTypes, TaskStates, Records
  <2>5. DOMAIN v4' = 1 .. n + 1 /\ n + 1 \in 1 .. Setup[p].Retries + 1
    BY <1>2, <2>1, <2>2
  <2>6. Execution(p)!ServiceOK'
    BY <1>1, <1>2, <1>8, <2>1, <2>2, <2>3, <2>5 DEF Execution!ServiceOK, Execution!Current
  <2> QED BY <1>1, <1>8, <2>4, <2>6 DEF Forward, Execution!Closed
<1>9. CASE ~retried
  <2>1. v4' \in Seq(TaskStates) /\ Len(v4') = n /\ \A i \in 1 .. n : v4'[i] = "stopped"
    BY <1>1, <1>3, <1>4, <1>9
  <2>2. v1' = (IF code = "ok" THEN "succeeded" ELSE "failed")
    BY <1>1, <1>9
  <2>3. \A i \in DOMAIN v5' : v5'[i][2] = "done" => v1' = "succeeded" /\ v5'[i] = <<n, "done">>
    BY <1>r, <1>6, <1>7, <2>2
  <2>4. Execution(p)!BackendTypes'
    BY <1>1, <1>5, <1>6, <2>1, <2>2 DEF Execution!BackendTypes, TaskStates, Records, Execution!Closed
  <2>5. DOMAIN v4' = 1 .. n
    BY <1>2, <2>1
  <2>6. Execution(p)!ServiceOK'
    BY <1>1, <1>2, <2>1, <2>2, <2>3, <2>5 DEF Execution!ServiceOK, Execution!Current
  <2> QED BY <1>1, <2>2, <2>4, <2>6 DEF Forward, Execution!Closed
<1> QED BY <1>8, <1>9

\* The last task is stopped or forgotten, with its execution or after it.
LEMMA EndStep ==
    ASSUME NEW p \in BackendParts, Execution(p)!BackendInv,
           \/ \E status \in {"timed_out", "aborted"} : Execution(p)!EndEarly(status)
           \/ Execution(p)!StopTask \/ Execution(p)!Forget
    PROVE  Execution(p)!BackendTypes' /\ Execution(p)!ServiceOK' /\ Forward(p)
<1> USE DEF Execution!BackendInv
<1> DEFINE n == Len(v4)
<1>1. PICK state \in {"stopped", "gone"} :
        /\ v4' = v4 \/ v4' = [v4 EXCEPT ![n] = state]
        /\ v1 # "absent" /\ v1' \in Execution(p)!Closed
        /\ v1 \in Execution(p)!Closed => v1' = v1
        /\ v1' # v1 => v1' # "succeeded"
        /\ v1' = "aborted" => v3 \/ v1' = v1
        /\ UNCHANGED <<v2, v3, v5, v6, v8, v10>>
  <2>1. ASSUME NEW status \in {"timed_out", "aborted"}, Execution(p)!EndEarly(status)
        PROVE  /\ v4' = v4 \/ v4' = [v4 EXCEPT ![n] = "stopped"]
               /\ v1 = "running" /\ v1' = status /\ (status = "aborted" => v3)
               /\ UNCHANGED <<v2, v3, v5, v6, v8, v10>>
    BY <2>1 DEF Execution!EndEarly, Execution!Current
  <2>2. CASE Execution(p)!StopTask
    BY <2>2 DEF Execution!StopTask, Execution!Current, Execution!Closed
  <2>3. CASE Execution(p)!Forget
    BY <2>3 DEF Execution!Forget, Execution!Current, Execution!Closed
  <2> QED BY <2>1, <2>2, <2>3 DEF Execution!Closed
<1>2. v4 \in Seq(TaskStates) /\ n \in 1 .. Setup[p].Retries + 1 /\ n \in 1 .. n /\ n \in Nat /\ v2 = 1
  BY <1>1 DEF Execution!BackendTypes, Execution!ServiceOK, TaskStates
<1>3. /\ v4' \in Seq(TaskStates) /\ Len(v4') = n
      /\ \A i \in 1 .. n : i # n => v4'[i] = v4[i]
      /\ v4'[n] \in {v4[n], state}
  BY <1>1, <1>2, ExceptSeq DEF TaskStates
<1>4. Execution(p)!BackendTypes'
  BY <1>1, <1>3 DEF Execution!BackendTypes, TaskStates
<1>5. DOMAIN v4' = 1 .. n /\ DOMAIN v4 = 1 .. n
  BY <1>2, <1>3
<1>6. Execution(p)!ServiceOK'
  BY <1>1, <1>2, <1>3, <1>5 DEF Execution!ServiceOK, Execution!Current, Execution!Closed
<1>7. v1' # "absent"
  BY <1>1 DEF Execution!Closed
<1> QED BY <1>1, <1>3, <1>4, <1>6, <1>7 DEF Forward

\* A step of a worker moves that worker only.
LEMMA WorkerMoves ==
    ASSUME NEW p \in BackendParts, NEW w \in Setup[p].Workers, Execution(p)!BackendInv, Execution(p)!Step(w)
    PROVE  /\ v8' \in [Setup[p].Workers -> Execution(p)!Pcs] /\ DOMAIN v10' = Setup[p].Workers
           /\ \A u \in Setup[p].Workers : u # w => v8'[u] = v8[u] /\ v10'[u] = v10[u]
<1> USE DEF Execution!BackendInv, Execution!BackendTypes, Execution!Pcs, Execution!Goto
<1>1. CASE Execution(p)!Look(w) \/ Execution(p)!LookAgain(w)
  BY <1>1 DEF Execution!Look, Execution!LookAgain
<1>2. CASE Execution(p)!StartExecution(w)
  BY <1>2 DEF Execution!StartExecution
<1>3. CASE Execution(p)!Observe(w)
  BY <1>3 DEF Execution!Observe
<1>4. CASE Execution(p)!Collect(w)
  <2>1. v8' = v8 \/ v8' = [v8 EXCEPT ![w] = "cleanup"] \/ v8' = [v8 EXCEPT ![w] = "submitted"]
    BY <1>4 DEF Execution!Collect
  <2>2. v10' = v10 \/ \E i : v10' = [v10 EXCEPT ![w] = v5[i]]
    BY <1>4 DEF Execution!Collect
  <2> QED BY <2>1, <2>2
<1>5. CASE Execution(p)!Cleanup(w)
  BY <1>5 DEF Execution!Cleanup
<1> QED BY <1>1, <1>2, <1>3, <1>4, <1>5 DEF Execution!Step

\* Every step keeps the service right and goes forward.
LEMMA BackendForward ==
    ASSUME NEW p \in BackendParts, Execution(p)!BackendAssumption, Execution(p)!BackendInv,
           [Execution(p)!Next]_(Execution(p)!vars)
    PROVE  Execution(p)!BackendTypes' /\ Execution(p)!ServiceOK' /\ Forward(p)
<1>0. v8 \in [Setup[p].Workers -> Execution(p)!Pcs] /\ DOMAIN v10 = Setup[p].Workers
  BY DEF Execution!BackendInv, Execution!BackendTypes
<1>1. CASE UNCHANGED Execution(p)!vars
  BY <1>0, <1>1, ServiceKept DEF Execution!vars
<1>2. CASE Execution(p)!LateStart
  <2>1. CASE Execution(p)!Free
    BY <1>0, <1>2, <2>1, StartStep DEF Execution!LateStart
  <2>2. CASE ~Execution(p)!Free
    BY <1>0, <1>2, <2>2, ServiceKept DEF Execution!LateStart
  <2> QED BY <2>1, <2>2
<1>3. CASE Execution(p)!Service /\ ~Execution(p)!LateStart
  BY <1>3, LogStep, ExitStep, EndStep DEF Execution!Service
<1>4. ASSUME NEW w \in Setup[p].Workers, Execution(p)!Step(w)
      PROVE  Execution(p)!BackendTypes' /\ Execution(p)!ServiceOK' /\ Forward(p)
  <2>1. v8' \in [Setup[p].Workers -> Execution(p)!Pcs] /\ DOMAIN v10' = Setup[p].Workers
    BY <1>4, WorkerMoves
  <2>2. CASE Execution(p)!StartExecution(w)
    <3>1. CASE Execution(p)!Free /\ Execution(p)!Start
      BY <2>1, <2>2, <3>1, StartStep DEF Execution!StartExecution
    <3>2. CASE UNCHANGED <<v1, v2, v3, v4, v5, v6>>
      BY <2>1, <3>2, ServiceKept
    <3> QED BY <2>2, <3>1, <3>2 DEF Execution!StartExecution, Execution!service
  <2>3. CASE ~Execution(p)!StartExecution(w)
    <3>1. UNCHANGED <<v1, v2, v3, v4, v5, v6>>
      BY <1>4, <2>3 DEF Execution!Step, Execution!Look, Execution!LookAgain, Execution!Observe, Execution!Collect,
         Execution!Cleanup, Execution!service
    <3> QED BY <2>1, <3>1, ServiceKept
  <2> QED BY <2>2, <2>3
<1>5. ASSUME NEW w \in Setup[p].Workers, Execution(p)!Cancel(w)
      PROVE  Execution(p)!BackendTypes' /\ Execution(p)!ServiceOK' /\ Forward(p)
  BY <1>0, <1>5, ServiceKept DEF Execution!Cancel
<1> QED BY <1>1, <1>2, <1>3, <1>4, <1>5 DEF Execution!Next, Execution!Rest, Execution!ObserveRunning

\* What workers and reports say of the execution stays true as it goes forward.
LEMMA KnownStaysTrue ==
    ASSUME NEW p \in BackendParts, Execution(p)!BackendInv, Forward(p)
    PROVE  /\ \A w \in Setup[p].Workers :
                /\ v8[w] \notin {"submit", "start", "look_again"} => v1' # "absent"
                /\ v8[w] \in {"collect", "cleanup"} => v1' \in Execution(p)!Closed
                /\ v8[w] = "cleanup" /\ v1' = "succeeded" => v10[w] = <<Len(v4'), "done">>
           /\ v11' = v11 => Execution(p)!ReportOK'
BY DEF Execution!BackendInv, Execution!WorkersOK, Execution!ReportOK, Execution!Current, Forward, Execution!OutcomeOf

\* A record that a collection returns is the record of success of the last task.
LEMMA CollectedIsLast ==
    ASSUME NEW p \in BackendParts, Execution(p)!BackendInv, NEW n, NEW i \in Execution(p)!Completions(Execution(p)!Page(n)),
           v5[i][2] = "done"
    PROVE  v5[i] = <<Len(v4), "done">>
<1>1. i \in 1 .. v6
  BY DEF Execution!Completions, Execution!Page, Execution!Readable
<1>2. i \in DOMAIN v5
  BY <1>1 DEF Execution!BackendInv, Execution!BackendTypes
<1> QED BY <1>2 DEF Execution!BackendInv, Execution!ServiceOK, Execution!Current

\* A step of a worker keeps what is known of the execution.
LEMMA WorkerKnows ==
    ASSUME NEW p \in BackendParts, NEW w \in Setup[p].Workers, Execution(p)!BackendInv, Forward(p), Execution(p)!Step(w)
    PROVE  Execution(p)!WorkersOK' /\ Execution(p)!ReportOK'
<1> DEFINE Knows(u) ==
             /\ v8'[u] \notin {"submit", "start", "look_again"} => v1' # "absent"
             /\ v8'[u] \in {"collect", "cleanup"} => v1' \in Execution(p)!Closed
             /\ v8'[u] = "cleanup" /\ v1' = "succeeded" => v10'[u] = <<Len(v4'), "done">>
<1>0. v8 \in [Setup[p].Workers -> Execution(p)!Pcs] /\ DOMAIN v10 = Setup[p].Workers
  BY DEF Execution!BackendInv, Execution!BackendTypes
<1>1. SUFFICES Knows(w) /\ Execution(p)!ReportOK'
  BY WorkerMoves, KnownStaysTrue DEF Execution!WorkersOK, Execution!Current
<1>2. CASE Execution(p)!Look(w) \/ Execution(p)!LookAgain(w)
  BY <1>0, <1>2, KnownStaysTrue DEF Execution!Look, Execution!LookAgain, Execution!Goto, Execution!service
<1>3. CASE Execution(p)!StartExecution(w)
  BY <1>0, <1>3, KnownStaysTrue DEF Execution!StartExecution, Execution!Start, Execution!Goto, Execution!service
<1>4. CASE Execution(p)!Observe(w)
  <2>1. UNCHANGED <<v1, v4, v11>> /\ v1 \in Execution(p)!Closed
        /\ (UNCHANGED <<v8, v10>> \/ v8' = [v8 EXCEPT ![w] = IF v1 = "succeeded" THEN "collect" ELSE "cleanup"])
    BY <1>4 DEF Execution!Observe, Execution!Goto, Execution!service, Execution!OutcomeOf
  <2> QED BY <1>0, <2>1, KnownStaysTrue DEF Execution!Closed
<1>5. CASE Execution(p)!Collect(w)
  <2>1. UNCHANGED <<v1, v4, v11>> /\ v8[w] = "collect" /\ v1 \in Execution(p)!Closed /\ v1 # "absent"
    BY <1>5 DEF Execution!Collect, Execution!service, Execution!BackendInv, Execution!WorkersOK, Execution!Closed
  <2>2. ASSUME NEW i \in Execution(p)!Completions(Execution(p)!Page(v9[w])), v5[i][2] = "done",
               v10' = [v10 EXCEPT ![w] = v5[i]], Execution(p)!Goto(w, "cleanup")
        PROVE  Knows(w)
    BY <1>0, <2>1, <2>2, CollectedIsLast DEF Execution!Goto
  <2>3. ASSUME UNCHANGED v8 \/ Execution(p)!Goto(w, "submitted") PROVE Knows(w)
    BY <1>0, <2>1, <2>3 DEF Execution!Goto
  <2> QED BY <1>5, <2>1, <2>2, <2>3, KnownStaysTrue DEF Execution!Collect
<1>6. CASE Execution(p)!Cleanup(w)
  <2>1. /\ UNCHANGED <<v1, v4>> /\ v8[w] = "cleanup" /\ v1 \in Execution(p)!Closed /\ v1 # "absent"
        /\ v1 = "succeeded" => v10[w] = <<Len(v4), "done">>
    BY <1>6 DEF Execution!Cleanup, Execution!service, Execution!BackendInv, Execution!WorkersOK, Execution!Closed,
       Execution!Current
  <2>2. Knows(w)
    BY <1>0, <1>6, <2>1 DEF Execution!Cleanup, Execution!Goto
  <2>3. PICK cleanup \in {Execution(p)!CleanupOf, "uncertain"} :
          v11' = [outcome |-> Execution(p)!OutcomeOf(v1), cleanup |-> cleanup, result |-> v10[w]]
    BY <1>6 DEF Execution!Cleanup
  <2>4. p = "fargate" /\ cleanup = "confirmed" => v4[Len(v4)] # "running"
    BY <2>3 DEF Execution!CleanupOf, Execution!Current
  <2>5. Execution(p)!ReportOK'
    BY <2>1, <2>3, <2>4 DEF Execution!ReportOK, Execution!Current, Execution!OutcomeOf
  <2> QED BY <2>2, <2>5
<1> QED BY <1>2, <1>3, <1>4, <1>5, <1>6 DEF Execution!Step

\* Every step of the service, of a worker and of a caller keeps the invariant.
LEMMA BackendStep ==
    ASSUME NEW p \in BackendParts, Execution(p)!BackendAssumption, Execution(p)!BackendInv,
           [Execution(p)!Next]_(Execution(p)!vars)
    PROVE  Execution(p)!BackendInv'
<1>1. Execution(p)!BackendTypes' /\ Execution(p)!ServiceOK' /\ Forward(p)
  BY BackendForward
<1>2. CASE UNCHANGED <<v8, v10, v11>>
  BY <1>1, <1>2, KnownStaysTrue DEF Execution!BackendInv, Execution!WorkersOK, Execution!Current
<1>3. ASSUME NEW w \in Setup[p].Workers, Execution(p)!Step(w) PROVE Execution(p)!BackendInv'
  BY <1>1, <1>3, WorkerKnows DEF Execution!BackendInv
<1> QED BY <1>2, <1>3 DEF Execution!Next, Execution!vars, Execution!Service, Execution!Rest, Execution!ObserveRunning,
           Execution!Cancel, Execution!LateStart, Execution!WriteLine, Execution!StopTask, Execution!Forget,
           Execution!Deliver, Execution!TaskExits, Execution!EndEarly

\* A step of the suite in a backend is a step of that backend.
LEMMA BackendStepOfPart ==
    ASSUME [Next]_suiteVars, NEW p \in BackendParts, part = p
    PROVE  [Execution(p)!Next]_(Execution(p)!vars)
<1>1. CASE UNCHANGED suiteVars
  BY <1>1 DEF suiteVars, Execution!vars
<1>2. CASE Next
  BY <1>2 DEF Next, StoreParts, ReadParts, ListParts, RequestParts, SelectParts, BackendParts, SparkParts
<1> QED BY <1>1, <1>2

\* The invariant of an attempt says what is reported of it.
LEMMA BackendMeaning ==
    ASSUME NEW p \in BackendParts, Execution(p)!BackendAssumption, Execution(p)!BackendInv
    PROVE  /\ Execution(p)!TypeOK /\ Execution(p)!OneExecution /\ Execution(p)!ResultOfLastTask
           /\ p = "fargate" => Execution(p)!ConfirmedMeansStopped
<1> USE DEF Execution!BackendInv
<1>1. Execution(p)!TypeOK
  BY DEF Execution!BackendTypes, Execution!ServiceOK, Execution!TypeOK, Execution!BackendAssumption
<1>2. Execution(p)!OneExecution
  BY DEF Execution!BackendTypes, Execution!ServiceOK, Execution!WorkersOK, Execution!OneExecution
<1>3. Execution(p)!ResultOfLastTask
  BY DEF Execution!ReportOK, Execution!ResultOfLastTask, Execution!ServiceOK, Execution!OutcomeOf, Execution!Current
<1>4. p = "fargate" => Execution(p)!ConfirmedMeansStopped
  BY DEF Execution!ReportOK, Execution!ConfirmedMeansStopped, Execution!ServiceOK, Execution!Current
<1> QED BY <1>1, <1>2, <1>3, <1>4

\* The attempt of each backend.
BackendsInv == \A p \in BackendParts : part = p => Execution(p)!BackendInv

\* Whichever calls are lost or come late, for any number of processes, retries
\* and faults: an attempt on Fargate, Cloud Run or Dataproc is one execution, a
\* confirmed cleanup means that no task runs, and the result is the last task's.
THEOREM AttemptsAreOneExecution == Spec => []OneExecution
<1>1. Init => BackendsInv
  BY InitOfPart, BackendInitial DEF BackendsInv
<1>2. ASSUME BackendsInv, [Next]_suiteVars PROVE BackendsInv'
  BY <1>2, StepOfPart, BackendStepOfPart, BackendStep, InstancesAssumption DEF BackendsInv
<1>3. BackendsInv => OneExecution
  BY BackendMeaning, InstancesAssumption DEF BackendsInv, OneExecution
<1> QED BY <1>1, <1>2, <1>3, PTL DEF Spec

-----------------------------------------------------------------------------
(***************************************************************************)
(* What is never undone.  The Spark driver's exchanges are in v4 and its   *)
(* attempt is v6.                                                          *)
(***************************************************************************)

\* An exchange path holds something or nothing.
ExchangesInv == \A p \in SparkParts : part = p => DOMAIN v4 = Spark(p)!Paths

\* A step of the suite in a driver is a step of that driver.
LEMMA SparkStepOfPart ==
    ASSUME [Next]_suiteVars, NEW p \in SparkParts, part = p
    PROVE  [Spark(p)!Next]_(Spark(p)!vars)
<1>1. CASE UNCHANGED suiteVars
  BY <1>1 DEF suiteVars, Spark!vars
<1>2. CASE Next
  BY <1>2 DEF Next, StoreParts, ReadParts, ListParts, RequestParts, SelectParts, BackendParts, SparkParts
<1> QED BY <1>1, <1>2

\* A driver changes one path at a time, of its own attempt.
LEMMA ExchangeStep ==
    ASSUME NEW p \in SparkParts, DOMAIN v4 = Spark(p)!Paths, [Spark(p)!Next]_(Spark(p)!vars)
    PROVE  DOMAIN v4' = Spark(p)!Paths /\ Spark(p)!OthersExchangesKept
<1>1. v4' = v4 \/ \E name, rows : v4' = [v4 EXCEPT ![<<v6, name>>] = rows]
  <2>1. CASE Spark(p)!WriteExchange
    BY <2>1 DEF Spark!WriteExchange, Spark!Path
  <2>2. CASE Spark(p)!DeleteExchange
    BY <2>2 DEF Spark!DeleteExchange, Spark!Path
  <2>3. CASE v4' = v4
    BY <2>3
  <2> QED BY <2>1, <2>2, <2>3 DEF Spark!Next, Spark!Drive, Spark!vars, Spark!SourceChanges, Spark!Begin, Spark!Configure,
             Spark!CountSource, Spark!Transform, Spark!WriteTarget, Spark!ReadBack, Spark!Report, Spark!StageFails,
             Spark!Killed
<1>2. ASSUME NEW x \in Spark(p)!Paths, x[1] # v6 PROVE v4'[x] = v4[x]
  <2>1. \A name : x # <<v6, name>>
    BY <1>2
  <2> QED BY <1>1, <2>1
<1> QED BY <1>1, <1>2 DEF Spark!OthersExchangesKept

\* Nothing is undone behind another's back: a late patch of the Cloud Run Job
\* neither reverts a deployment nor takes a selection in use, preserved OCI
\* history never changes, and no Spark attempt removes another's exchanges.
THEOREM UndoneByNobody == Spec => NothingIsUndone
<1>1. Init => ExchangesInv
  BY InitOfPart DEF ExchangesInv, Spark!Init
<1>2. ASSUME ExchangesInv, [Next]_suiteVars
      PROVE  ExchangesInv' /\ \A p \in SparkParts : part = p => Spark(p)!OthersExchangesKept
  <2>1. ASSUME NEW p \in SparkParts, part = p
        PROVE  DOMAIN v4' = Spark(p)!Paths /\ Spark(p)!OthersExchangesKept
    BY <1>2, <2>1, SparkStepOfPart, ExchangeStep DEF ExchangesInv
  <2> QED BY <1>2, <2>1, StepOfPart DEF ExchangesInv, Spark!Paths
<1> QED BY <1>1, <1>2, JobInitial, JobStep, OciInitial, OciStep, PTL DEF Spec, NothingIsUndone

-----------------------------------------------------------------------------
(***************************************************************************)
(* The selection of plans.  The variables are those of PlanSelection:      *)
(* config is v1, graph v2, metadata v3, runs v4, lock v5 and client v6.    *)
(***************************************************************************)

\* A request that names its size is resolved to the same plan at any time: no
\* estimate is read for it.
LEMMA SelectedStays ==
    ASSUME NEW p \in SelectParts, NEW r, Select(p)!Sized(r), v1' = v1
    PROVE  Select(p)!Selected(r)' = Select(p)!Selected(r)
<1>1. \A e : Select(p)!Estimate(r, e)' = Select(p)!Estimate(r, e)
  BY DEF Select!Estimate, Select!Sized
<1>2. \A e : Select(p)!RouteSelection(r, e)' = Select(p)!RouteSelection(r, e)
  BY <1>1 DEF Select!RouteSelection, Select!SmallestFitting
<1>3. Select(p)!Candidates(r)' = Select(p)!Candidates(r)
  BY <1>2 DEF Select!Candidates
<1> QED BY <1>3 DEF Select!Selected, Select!PlacementMode, Select!Cheapest, Select!Affordable, Select!Far, Select!Cost

\* A route's selection is of plans of that route for the request's revision.
LEMMA RouteOfSelection ==
    ASSUME NEW p \in SelectParts, NEW r, NEW e, NEW plan \in Select(p)!RouteSelection(r, e)
    PROVE  plan \in Setup[p].Plans /\ Setup[p].EnvOf[plan] = e /\ Setup[p].BuiltFor[plan] = r.revision
BY DEF Select!RouteSelection, Select!SmallestFitting, Select!CurrentFor

\* What is selected was a candidate of its own route, which was looked at.
LEMMA SelectedRoute ==
    ASSUME NEW p \in SelectParts, Select(p)!SelectionAssumption, NEW r, NEW plan \in Select(p)!Selected(r)
    PROVE  /\ plan \in Select(p)!RouteSelection(r, Setup[p].EnvOf[plan])
           /\ plan \in Setup[p].Plans /\ Setup[p].BuiltFor[plan] = r.revision
           /\ Setup[p].EnvOf[plan] \in Select(p)!LookupEnvironments(r)
           /\ Select(p)!PlacementMode(r) = "automatic" =>
                plan \in DOMAIN v1.places /\ Select(p)!Cost(plan) <= v1.maxCost
<1>1. plan \in Select(p)!Candidates(r)
  BY DEF Select!Selected, Select!Cheapest, Select!Affordable
<1>2. PICK e : plan \in Select(p)!RouteSelection(r, e)
  BY <1>1 DEF Select!Candidates
<1>3. plan \in Setup[p].Plans /\ Setup[p].EnvOf[plan] = e /\ Setup[p].BuiltFor[plan] = r.revision
  BY <1>2, RouteOfSelection
<1>4. Setup[p].EnvOf[plan] \in Select(p)!LookupEnvironments(r)
  <2>1. CASE Select(p)!PlacementMode(r) = "automatic"
    BY <1>3, <2>1 DEF Select!PlacementMode, Select!LookupEnvironments, Select!Environments
  <2>2. CASE Select(p)!PlacementMode(r) # "automatic"
    BY <2>2 DEF Select!PlacementMode, Select!LookupEnvironments, Select!Selected
  <2> QED BY <2>1, <2>2
<1>5. Select(p)!PlacementMode(r) = "automatic" => plan \in DOMAIN v1.places /\ Select(p)!Cost(plan) <= v1.maxCost
  BY DEF Select!Selected, Select!Cheapest, Select!Affordable
<1> QED BY <1>2, <1>3, <1>4, <1>5

\* resolve() has one plan at most to select.
LEMMA OneSelected ==
    ASSUME NEW p \in SelectParts, Select(p)!SelectionAssumption, Select(p)!SelectTypes, NEW r,
           NEW x \in Select(p)!Selected(r), NEW y \in Select(p)!Selected(r)
    PROVE  x = y
<1>1. CASE Select(p)!PlacementMode(r) # "automatic"
  BY <1>1 DEF Select!Selected
<1>2. CASE Select(p)!PlacementMode(r) = "automatic"
  <2>1. {x, y} \subseteq Select(p)!Cheapest(Select(p)!Affordable(Select(p)!Candidates(r)))
    BY <1>2 DEF Select!Selected
  <2>2. {x, y} \subseteq DOMAIN v1.places /\ {x, y} \subseteq Setup[p].Plans
    BY <2>1, SelectedRoute DEF Select!Cheapest, Select!Affordable
  <2>3. Select(p)!Far(x) \in Nat /\ Select(p)!Far(y) \in Nat /\ Select(p)!Cost(x) \in Nat /\ Select(p)!Cost(y) \in Nat
    BY <2>2 DEF Select!Far, Select!Cost, Select!SelectTypes, Select!SelectionAssumption
  <2>4. Setup[p].Order[x] \in Nat /\ Setup[p].Order[y] \in Nat
    BY <2>2 DEF Select!SelectionAssumption
  <2>5. /\ \/ Select(p)!Far(x) < Select(p)!Far(y)
           \/ Select(p)!Far(x) = Select(p)!Far(y) /\ Select(p)!Cost(x) < Select(p)!Cost(y)
           \/ /\ Select(p)!Far(x) = Select(p)!Far(y) /\ Select(p)!Cost(x) = Select(p)!Cost(y)
              /\ Setup[p].Order[x] <= Setup[p].Order[y]
        /\ \/ Select(p)!Far(y) < Select(p)!Far(x)
           \/ Select(p)!Far(y) = Select(p)!Far(x) /\ Select(p)!Cost(y) < Select(p)!Cost(x)
           \/ /\ Select(p)!Far(y) = Select(p)!Far(x) /\ Select(p)!Cost(y) = Select(p)!Cost(x)
              /\ Setup[p].Order[y] <= Setup[p].Order[x]
    BY <2>1 DEF Select!Cheapest
  <2>6. Setup[p].Order[x] = Setup[p].Order[y]
    BY <2>3, <2>4, <2>5
  <2> QED BY <2>2, <2>6 DEF Select!SelectionAssumption
<1> QED BY <1>1, <1>2

\* The size of a selected plan is the one asked for, or fits what was estimated.
LEMMA SelectedFits ==
    ASSUME NEW p \in SelectParts, NEW r, NEW e, NEW plan \in Select(p)!RouteSelection(r, e), plan \in DOMAIN v1.sizes
    PROVE  /\ Select(p)!Estimate(r, e) # Unavailable => v1.sizes[plan].max >= Select(p)!Estimate(r, e)
           /\ Select(p)!Estimate(r, e) = Unavailable /\ r.class # None => v1.sizes[plan].class = r.class
<1> DEFINE current == {q \in Select(p)!CurrentFor(r.revision) : Setup[p].EnvOf[q] = e}
           choices == current \cap DOMAIN v1.sizes
<1>1. DOMAIN v1.sizes # {} /\ plan \in choices
  BY DEF Select!RouteSelection, Select!SmallestFitting
<1>2. CASE Select(p)!Estimate(r, e) # Unavailable
  BY <1>1, <1>2 DEF Select!RouteSelection, Select!SmallestFitting
<1>3. CASE Select(p)!Estimate(r, e) = Unavailable /\ r.class # None
  BY <1>1, <1>3 DEF Select!RouteSelection
<1> QED BY <1>2, <1>3

\* A submission of resolve() is a run that answers its request.
LEMMA SubmissionGood ==
    ASSUME NEW p \in SelectParts, Select(p)!SelectionAssumption, Select(p)!SelectTypes,
           NEW r, Select(p)!ValidRequest(r), NEW plan \in Select(p)!Transports(r)
    PROVE  LET x == Select(p)!Submission(r, plan) IN
           Select(p)!GoodRun(x) /\ x.by = r /\ x.key = r.key
<1> DEFINE x == Select(p)!Submission(r, plan)
           e == Setup[p].EnvOf[plan]
<1>1. /\ x.plan = plan /\ x.env = e /\ x.revision = r.revision /\ x.key = r.key /\ x.repair = r.repair
      /\ x.by = r /\ x.placement = Select(p)!PlacementMode(r) /\ x.size = Select(p)!SizeDecision(r, plan)
  BY DEF Select!Submission
<1>2. plan \in Select(p)!Selected(r) /\ (r.repair => plan \in Setup[p].Repairs)
  BY DEF Select!Transports
<1>3. /\ plan \in Select(p)!RouteSelection(r, e) /\ plan \in Setup[p].Plans
      /\ Setup[p].BuiltFor[plan] = r.revision /\ e \in Select(p)!LookupEnvironments(r)
      /\ Select(p)!PlacementMode(r) = "automatic" => plan \in DOMAIN v1.places /\ Select(p)!Cost(plan) <= v1.maxCost
  BY <1>2, SelectedRoute
<1>4. plan \in DOMAIN v1.sizes =>
        /\ Select(p)!Estimate(r, e) # Unavailable => v1.sizes[plan].max >= Select(p)!Estimate(r, e)
        /\ Select(p)!Estimate(r, e) = Unavailable /\ r.class # None => v1.sizes[plan].class = r.class
  BY <1>3, SelectedFits
<1>5. x \notin {Select(p)!Conflict, Select(p)!Refused}
  <2>1. "plan" \in DOMAIN x
    BY DEF Select!Submission
  <2> QED BY <2>1 DEF Select!Conflict, Select!Refused
<1>6. Select(p)!Honours(r, x)
  <2>1. r.environment # None => e = r.environment
    BY <1>3 DEF Select!LookupEnvironments
  <2>2. r.class # None => r.bytes = None /\ Select(p)!Estimate(r, e) = Unavailable
    BY DEF Select!Estimate, Select!ValidRequest
  <2>3. r.bytes # None => Select(p)!Estimate(r, e) = r.bytes /\ r.bytes # Unavailable
    BY DEF Select!Estimate, Select!ValidRequest, Select!Request, Select!SelectionAssumption
  <2> QED BY <1>1, <1>4, <2>1, <2>2, <2>3 DEF Select!Honours
<1>7. Select(p)!Decided(x)
  <2>1. x.size.bytes # None => plan \in DOMAIN v1.sizes /\ x.size.bytes = Select(p)!Estimate(r, e)
                               /\ Select(p)!Source(r, e) # None
    BY <1>1 DEF Select!SizeDecision
  <2>2. Select(p)!Source(r, e) # None => Select(p)!Estimate(r, e) # Unavailable
    BY DEF Select!Source, Select!Estimate, Select!ValidRequest, Select!Request, Select!SelectionAssumption
  <2>3. x.size.bytes # None => x.size.bytes <= v1.sizes[plan].max
    BY <1>4, <2>1, <2>2
  <2> QED BY <1>1, <1>2, <1>3, <2>3 DEF Select!Decided
<1>8. ~Select(p)!Sized(r) => Select(p)!SameRequest(r, x)
  <2>1. ~Select(p)!Sized(r) => /\ Select(p)!Source(r, e) # "api_request" \/ Select(p)!Source(r, e) = None
                               /\ Select(p)!SizeMode(r, e) \in {None, "automatic_input", "configured_default"}
                               /\ Select(p)!SizeMode(r, e) = "automatic_input" => Select(p)!Source(r, e) = "metadata"
                                                                                   \/ None = "automatic_input"
    BY DEF Select!Source, Select!SizeMode, Select!Sized
  <2>2. ~Select(p)!Sized(r) => \/ x.size.mode \in {None, "configured_default"}
                               \/ x.size.mode = "automatic_input" /\ x.size.source # "api_request"
    BY <1>1, <2>1 DEF Select!SizeDecision
  <2> QED BY <1>1, <2>2 DEF Select!SameRequest
<1> QED BY <1>1, <1>3, <1>5, <1>6, <1>7, <1>8 DEF Select!GoodRun

\* It stays one while the tables move and the graph is edited.
LEMMA GoodRunStays ==
    ASSUME NEW p \in SelectParts, NEW x, Select(p)!GoodRun(x), v1' = v1
    PROVE  Select(p)!GoodRun(x)'
<1>1. Select(p)!Sized(x.by) => Select(p)!Transports(x.by)' = Select(p)!Transports(x.by)
  BY SelectedStays DEF Select!Transports
<1> QED BY <1>1 DEF Select!GoodRun, Select!ValidRequest, Select!Honours, Select!Decided, Select!LookupEnvironments,
           Select!PlacementMode, Select!SameRequest, Select!Sized, Select!Cost

LEMMA SelectInitial ==
    ASSUME NEW p \in SelectParts, Select(p)!SelectionAssumption, Select(p)!Init
    PROVE  Select(p)!SelectInv
<1>1. Select(p)!SelectTypes
  BY DEF Select!Init, Select!SelectTypes, Select!Idle, Select!SelectionAssumption
<1>2. \A c \in Setup[p].Clients : Select(p)!ClientOK(c)
  BY DEF Select!Init, Select!ClientOK, Select!Idle
<1> QED BY <1>1, <1>2 DEF Select!Init, Select!SelectInv, Select!RunsOK, Select!OneRunPerRequest

\* The preview completes a repair request with the environment it can run in.
LEMMA PreviewedIsValid ==
    ASSUME NEW p \in SelectParts, NEW r \in Select(p)!Request, r.class = None \/ r.bytes = None,
           Select(p)!PreviewAllows(r)
    PROVE  Select(p)!ValidRequest(Select(p)!Previewed(r)) /\ Select(p)!Previewed(r).revision = r.revision
<1>1. CASE r.repair /\ r.environment = None
  <2>1. Select(p)!RepairEnvironments(r.revision) # {}
    BY <1>1 DEF Select!PreviewAllows
  <2>2. PICK e \in Select(p)!Environments : Select(p)!Previewed(r) = [r EXCEPT !.environment = e]
    BY <1>1, <2>1 DEF Select!Previewed, Select!RepairEnvironments, Select!Environments, Select!CurrentFor
  <2> QED BY <2>2 DEF Select!ValidRequest, Select!Request
<1>2. CASE ~(r.repair /\ r.environment = None)
  BY <1>2 DEF Select!ValidRequest, Select!Previewed
<1> QED BY <1>1, <1>2

\* A client moves to pc with its request and answer.
Moved(c, pc, request, answer) ==
    v6' = [v6 EXCEPT ![c] = [pc |-> pc, request |-> request, answer |-> answer]]

\* What each step does to its client.
LEMMA HowClientsMove ==
    ASSUME NEW p \in SelectParts, Select(p)!SelectTypes, NEW c \in Setup[p].Clients, NEW pc, NEW a
    PROVE  /\ v6' = [v6 EXCEPT ![c].pc = pc] => Moved(c, pc, v6[c].request, v6[c].answer)
           /\ v6' = [v6 EXCEPT ![c].pc = pc, ![c].answer = a] => Moved(c, pc, v6[c].request, a)
<1>1. c \in DOMAIN v6 /\ v6[c] = [pc |-> v6[c].pc, request |-> v6[c].request, answer |-> v6[c].answer]
  BY DEF Select!SelectTypes
<1>2. [v6[c] EXCEPT !.pc = pc] = [pc |-> pc, request |-> v6[c].request, answer |-> v6[c].answer]
  BY <1>1
<1>3. [v6[c] EXCEPT !.pc = pc, !.answer = a] = [pc |-> pc, request |-> v6[c].request, answer |-> a]
  <2>1. \A q, b : [[pc |-> pc, request |-> q, answer |-> b] EXCEPT !.answer = a]
                    = [pc |-> pc, request |-> q, answer |-> a]
    OBVIOUS
  <2> QED BY <1>2, <2>1, Zenon
<1>4. [v6 EXCEPT ![c].pc = pc] = [v6 EXCEPT ![c] = [v6[c] EXCEPT !.pc = pc]]
  BY <1>1
<1>5. [v6 EXCEPT ![c].pc = pc, ![c].answer = a] = [v6 EXCEPT ![c] = [v6[c] EXCEPT !.pc = pc, !.answer = a]]
  BY <1>1
<1>6. ASSUME v6' = [v6 EXCEPT ![c].pc = pc] PROVE Moved(c, pc, v6[c].request, v6[c].answer)
  BY <1>2, <1>4, <1>6 DEF Moved
<1>7. ASSUME v6' = [v6 EXCEPT ![c].pc = pc, ![c].answer = a] PROVE Moved(c, pc, v6[c].request, a)
  BY <1>3, <1>5, <1>7 DEF Moved
<1> QED BY <1>6, <1>7

\* Who is at work on a start has the lock.
Working == {"lookup", "resolve", "start"}

\* A client moves on and the others wait.
LEMMA MovesKeepTypes ==
    ASSUME NEW p \in SelectParts, Select(p)!SelectTypes, NEW c \in Setup[p].Clients,
           NEW pc \in {"idle", "checked", "lookup", "resolve", "start", "answered", "lost"}, NEW r, NEW a,
           Moved(c, pc, r, a), pc # "idle" => Select(p)!ValidRequest(r), UNCHANGED <<v1, v2, v3>>,
           \/ v5' = v5 /\ (pc \in Working => v5 = c)
           \/ v5 = None /\ None \notin Setup[p].Clients /\ v5' = c
           \/ v5 = c /\ v5' = None /\ pc \notin Working
    PROVE  Select(p)!SelectTypes'
<1>1. DOMAIN v6' = Setup[p].Clients
  BY DEF Moved, Select!SelectTypes
<1>2. v6'[c] = [pc |-> pc, request |-> r, answer |-> a] /\ \A d \in Setup[p].Clients \ {c} : v6'[d] = v6[d]
  BY DEF Moved, Select!SelectTypes
<1>3. \A d \in Setup[p].Clients : v6[d].pc \in Working => v5 = d
  BY DEF Working, Select!SelectTypes
<1>4. \A d \in Setup[p].Clients : v6'[d].pc \in Working => v5' = d
  BY <1>2, <1>3
<1>5. Select(p)!Acceptable(v1)'
  BY DEF Select!SelectTypes, Select!Acceptable, Select!SizeRoutes
<1>6. \A d \in Setup[p].Clients :
        /\ v6'[d] = [pc |-> v6'[d].pc, request |-> v6'[d].request, answer |-> v6'[d].answer]
        /\ v6'[d].pc \in {"idle", "checked", "lookup", "resolve", "start", "answered", "lost"}
        /\ v6'[d].pc # "idle" => Select(p)!ValidRequest(v6'[d].request)
  BY <1>2 DEF Select!SelectTypes
<1>7. v1' \in Setup[p].Configurations /\ v2' \in Setup[p].Revisions /\ v5' \in Setup[p].Clients \cup {None}
      /\ v3' \in [Select(p)!Environments -> Setup[p].Bytes \cup {Unavailable}]
  BY DEF Select!SelectTypes
<1> QED BY <1>1, <1>4, <1>5, <1>6, <1>7 DEF Working, Select!SelectTypes, Select!ValidRequest

LEMMA SelectTypesStep ==
    ASSUME NEW p \in SelectParts, Select(p)!SelectionAssumption, Select(p)!SelectTypes,
           [Select(p)!Next]_(Select(p)!vars)
    PROVE  Select(p)!SelectTypes' /\ v1' = v1
<1>1. CASE UNCHANGED Select(p)!vars
  BY <1>1 DEF Select!SelectTypes, Select!vars, Select!Acceptable, Select!SizeRoutes, Select!ValidRequest
<1>2. CASE Select(p)!Edit
  BY <1>2 DEF Select!SelectTypes, Select!Edit, Select!Acceptable, Select!SizeRoutes, Select!ValidRequest
<1>3. CASE Select(p)!MetadataMoves
  <2>1. v3' \in [Select(p)!Environments -> Setup[p].Bytes \cup {Unavailable}]
    BY <1>3 DEF Select!SelectTypes, Select!MetadataMoves
  <2> QED BY <1>3, <2>1 DEF Select!SelectTypes, Select!MetadataMoves, Select!Acceptable, Select!SizeRoutes, Select!ValidRequest
<1>4. ASSUME NEW c \in Setup[p].Clients, Select(p)!Send(c) PROVE Select(p)!SelectTypes' /\ v1' = v1
  <2>1. PICK r \in Select(p)!Request :
          /\ r.class = None \/ r.bytes = None
          /\ Select(p)!PreviewAllows(r)
          /\ Moved(c, "checked", Select(p)!Previewed(r), None)
    BY <1>4 DEF Select!Send, Moved
  <2>2. Select(p)!ValidRequest(Select(p)!Previewed(r))
    BY <2>1, PreviewedIsValid
  <2> QED BY <1>4, <2>1, <2>2, MovesKeepTypes DEF Select!Send, Working
<1>5. ASSUME NEW c \in Setup[p].Clients,
             \/ Select(p)!EnterLocked(c) \/ Select(p)!Lookup(c) \/ Select(p)!Resolve(c) \/ Select(p)!Start(c)
             \/ Select(p)!StartLost(c) \/ Select(p)!Retry(c) \/ Select(p)!LoseAnswer(c)
      PROVE  Select(p)!SelectTypes' /\ v1' = v1
  <2> DEFINE r == v6[c].request
  <2>1. Select(p)!ValidRequest(r)
    BY <1>5 DEF Select!SelectTypes, Select!EnterLocked, Select!Lookup, Select!Resolve, Select!Start, Select!StartLost,
                Select!Retry, Select!LoseAnswer
  <2>2. v6[c].pc \in Working => v5 = c
    BY DEF Working, Select!SelectTypes
  <2>3. None \notin Setup[p].Clients
    BY DEF Select!SelectionAssumption
  <2>4. CASE Select(p)!EnterLocked(c)
    <3>1. PICK pc \in {"lookup", "resolve"} : v6' = [v6 EXCEPT ![c].pc = pc]
      BY <2>4 DEF Select!EnterLocked
    <3>2. Moved(c, pc, r, v6[c].answer)
      BY <3>1, HowClientsMove
    <3>3. v5 = None /\ v5' = c /\ UNCHANGED <<v1, v2, v3>>
      BY <2>4 DEF Select!EnterLocked
    <3> QED BY <2>1, <2>3, <3>2, <3>3, MovesKeepTypes
  <2>5. CASE Select(p)!Lookup(c)
    BY <2>1, <2>2, <2>5, HowClientsMove, MovesKeepTypes DEF Select!Lookup, Select!Answer, Working
  <2>6. CASE Select(p)!Resolve(c)
    BY <2>1, <2>2, <2>6, HowClientsMove, MovesKeepTypes DEF Select!Resolve, Select!Answer, Working
  <2>7. CASE Select(p)!Start(c)
    BY <2>1, <2>2, <2>7, HowClientsMove, MovesKeepTypes DEF Select!Start, Select!Answer, Working
  <2>8. CASE Select(p)!StartLost(c)
    <3>1. Moved(c, "lost", r, None)
      BY <2>8, HowClientsMove DEF Select!StartLost
    <3>2. v5 = c /\ v5' = None /\ UNCHANGED <<v1, v2, v3>>
      BY <2>2, <2>8 DEF Select!StartLost, Working
    <3> QED BY <2>1, <3>1, <3>2, MovesKeepTypes DEF Working
  <2>9. CASE Select(p)!Retry(c)
    <3>1. PICK pc \in {"checked", "idle"} : v6' = [v6 EXCEPT ![c].pc = pc]
      BY <2>9 DEF Select!Retry
    <3>2. Moved(c, pc, r, v6[c].answer)
      BY <3>1, HowClientsMove
    <3>3. UNCHANGED <<v1, v2, v3, v5>>
      BY <2>9 DEF Select!Retry
    <3> QED BY <2>1, <3>2, <3>3, MovesKeepTypes DEF Working
  <2>10. CASE Select(p)!LoseAnswer(c)
    <3>1. Moved(c, "lost", r, None)
      BY <2>10, HowClientsMove DEF Select!LoseAnswer
    <3>2. UNCHANGED <<v1, v2, v3, v5>>
      BY <2>10 DEF Select!LoseAnswer
    <3> QED BY <2>1, <3>1, <3>2, MovesKeepTypes DEF Working
  <2> QED BY <1>5, <2>4, <2>5, <2>6, <2>7, <2>8, <2>9, <2>10
<1> QED BY <1>1, <1>2, <1>3, <1>4, <1>5 DEF Select!Next

\* Runs stay what they are, and the one that a start adds is the only one of
\* its request: a request that names its size selects the same plan again, and
\* for any other the lookup under the lock found nothing.
LEMMA RunsStep ==
    ASSUME NEW p \in SelectParts, Select(p)!SelectionAssumption, Select(p)!SelectInv,
           [Select(p)!Next]_(Select(p)!vars)
    PROVE  Select(p)!RunsOK'
<1>1. v1' = v1
  BY SelectTypesStep DEF Select!SelectInv
<1>2. \A x : Select(p)!GoodRun(x) => Select(p)!GoodRun(x)'
  BY <1>1, GoodRunStays
<1>3. CASE v4' = v4
  BY <1>2, <1>3 DEF Select!SelectInv, Select!RunsOK, Select!OneRunPerRequest
<1>4. ASSUME NEW c \in Setup[p].Clients, v6[c].pc = "start",
             Select(p)!Claimed(v6[c].answer) = {}, v4' = v4 \cup {v6[c].answer}
      PROVE  Select(p)!RunsOK'
  <2> DEFINE x == v6[c].answer
             r == v6[c].request
  <2>1. Select(p)!GoodRun(x) /\ x.by = r /\ (Select(p)!Sized(r) \/ Select(p)!Found(r) = {})
    BY <1>4 DEF Select!SelectInv, Select!ClientOK
  <2>2. \A y \in v4 : Select(p)!GoodRun(y) /\ ~(y.key = x.key /\ y.env = x.env)
    BY <1>4 DEF Select!Claimed, Select!SelectInv, Select!RunsOK
  <2>3. ASSUME NEW y \in v4, y.by = r PROVE FALSE
    <3>1. y.key = r.key /\ x.key = r.key /\ y.env \in Select(p)!LookupEnvironments(r)
          /\ y.env = Setup[p].EnvOf[y.plan] /\ x.env = Setup[p].EnvOf[x.plan]
      BY <2>1, <2>2, <2>3 DEF Select!GoodRun
    <3>2. CASE Select(p)!Sized(r)
      <4>1. x.plan \in Select(p)!Transports(r) /\ y.plan \in Select(p)!Transports(r)
        BY <2>1, <2>2, <2>3, <3>2 DEF Select!GoodRun
      <4>2. x.plan = y.plan
        BY <4>1, OneSelected DEF Select!Transports, Select!SelectInv
      <4> QED BY <2>2, <3>1, <4>2
    <3>3. CASE Select(p)!Found(r) = {}
      BY <3>1, <3>3 DEF Select!Found
    <3> QED BY <2>1, <3>2, <3>3
  <2> QED BY <1>2, <1>4, <2>1, <2>2, <2>3 DEF Select!SelectInv, Select!RunsOK, Select!OneRunPerRequest
<1>5. v4' = v4 \/ \E c \in Setup[p].Clients :
                    /\ v6[c].pc = "start" /\ Select(p)!Claimed(v6[c].answer) = {}
                    /\ v4' = v4 \cup {v6[c].answer}
  BY DEF Select!Next, Select!vars, Select!Edit, Select!MetadataMoves, Select!Send, Select!EnterLocked, Select!Lookup,
         Select!Resolve, Select!Start, Select!StartLost, Select!Retry, Select!LoseAnswer
<1> QED BY <1>3, <1>4, <1>5

\* A client that waits knows what it knew: runs are added only by the one that
\* has the lock.
LEMMA WaitingStep ==
    ASSUME NEW p \in SelectParts, NEW d \in Setup[p].Clients, Select(p)!ClientOK(d), v1' = v1, v6'[d] = v6[d],
           v4' = v4 \/ v6[d].pc \notin Working
    PROVE  Select(p)!ClientOK(d)'
<1>1. v4' = v4 => Select(p)!Found(v6[d].request)' = Select(p)!Found(v6[d].request)
  BY DEF Select!Found, Select!LookupEnvironments
<1>2. Select(p)!GoodRun(v6[d].answer) => Select(p)!GoodRun(v6[d].answer)'
  BY GoodRunStays
<1>3. Select(p)!Honours(v6[d].request, v6[d].answer) => Select(p)!Honours(v6[d].request, v6[d].answer)'
  BY DEF Select!Honours
<1> QED BY <1>1, <1>2, <1>3 DEF Select!ClientOK, Select!Sized, Working, Select!Conflict, Select!Refused

\* The client that moves knows what its step told it.
LEMMA ClientStep ==
    ASSUME NEW p \in SelectParts, Select(p)!SelectionAssumption, Select(p)!SelectInv,
           NEW c \in Setup[p].Clients, NEW pc, NEW r, NEW a, Moved(c, pc, r, a), v1' = v1,
           pc = "lookup" => ~Select(p)!Sized(r),
           pc \in {"resolve", "start"} => Select(p)!Sized(r) \/ Select(p)!Found(r) = {},
           pc \in Working => v4' = v4,
           pc = "start" => Select(p)!GoodRun(a) /\ a.by = r,
           pc = "answered" => a \in {Select(p)!Conflict, Select(p)!Refused} \/ Select(p)!Honours(r, a),
           v4' = v4 \/ v5 = c
    PROVE  \A d \in Setup[p].Clients : Select(p)!ClientOK(d)'
<1>1. v6'[c] = [pc |-> pc, request |-> r, answer |-> a] /\ \A d \in Setup[p].Clients \ {c} : v6'[d] = v6[d]
  BY DEF Moved, Select!SelectInv, Select!SelectTypes
<1>2. ASSUME NEW d \in Setup[p].Clients \ {c} PROVE Select(p)!ClientOK(d)'
  <2>1. v4' = v4 \/ v6[d].pc \notin Working
    BY <1>2 DEF Select!SelectInv, Select!SelectTypes, Working
  <2> QED BY <1>1, <1>2, <2>1, WaitingStep DEF Select!SelectInv
<1>3. Select(p)!ClientOK(c)'
  <2>1. pc \in Working => Select(p)!Found(r)' = Select(p)!Found(r)
    BY DEF Select!Found, Select!LookupEnvironments
  <2>2. Select(p)!GoodRun(a) => Select(p)!GoodRun(a)'
    BY GoodRunStays
  <2>3. Select(p)!Honours(r, a) => Select(p)!Honours(r, a)'
    BY DEF Select!Honours
  <2>4. v6'[c].pc = pc /\ v6'[c].request = r /\ v6'[c].answer = a
    BY <1>1
  <2> QED BY <2>1, <2>2, <2>3, <2>4 DEF Select!ClientOK, Select!Sized, Working, Select!Conflict, Select!Refused
<1> QED BY <1>2, <1>3

\* A run that the lookup takes for the request's, or that has the fingerprint
\* of its submission, is one it asked for.
LEMMA AnswersHonour ==
    ASSUME NEW p \in SelectParts, NEW r
    PROVE  /\ \A x \in Select(p)!Found(r) : ~Select(p)!Sized(r) /\ Select(p)!SameRequest(r, x) => Select(p)!Honours(r, x)
           /\ \A x, y : Select(p)!Honours(r, x) /\ Select(p)!Fingerprint(y) = Select(p)!Fingerprint(x)
                            => Select(p)!Honours(r, y)
<1>1. ASSUME NEW x \in Select(p)!Found(r), ~Select(p)!Sized(r), Select(p)!SameRequest(r, x)
      PROVE  Select(p)!Honours(r, x)
  BY <1>1 DEF Select!Found, Select!Sized, Select!SameRequest, Select!Honours, Select!LookupEnvironments
<1>2. ASSUME NEW x, NEW y, Select(p)!Honours(r, x), Select(p)!Fingerprint(y) = Select(p)!Fingerprint(x)
      PROVE  Select(p)!Honours(r, y)
  <2>1. y.env = x.env /\ y.revision = x.revision /\ y.plan = x.plan /\ y.repair = x.repair
    BY <1>2 DEF Select!Fingerprint
  <2> QED BY <1>2, <2>1 DEF Select!Honours
<1> QED BY <1>1, <1>2

LEMMA ClientsStep ==
    ASSUME NEW p \in SelectParts, Select(p)!SelectionAssumption, Select(p)!SelectInv,
           [Select(p)!Next]_(Select(p)!vars)
    PROVE  \A d \in Setup[p].Clients : Select(p)!ClientOK(d)'
<1>1. v1' = v1 /\ Select(p)!SelectTypes
  BY SelectTypesStep DEF Select!SelectInv
<1>2. CASE UNCHANGED <<v4, v6>>
  BY <1>1, <1>2, WaitingStep DEF Select!SelectInv
<1>3. ASSUME NEW c \in Setup[p].Clients, Select(p)!Send(c) PROVE \A d \in Setup[p].Clients : Select(p)!ClientOK(d)'
  <2>1. PICK r : Moved(c, "checked", r, None)
    BY <1>3 DEF Select!Send, Moved
  <2>2. v4' = v4
    BY <1>3 DEF Select!Send
  <2> QED BY <1>1, <2>1, <2>2, ClientStep DEF Working
<1>4. ASSUME NEW c \in Setup[p].Clients,
             \/ Select(p)!EnterLocked(c) \/ Select(p)!Lookup(c) \/ Select(p)!Resolve(c) \/ Select(p)!Start(c)
             \/ Select(p)!StartLost(c) \/ Select(p)!Retry(c) \/ Select(p)!LoseAnswer(c)
      PROVE  \A d \in Setup[p].Clients : Select(p)!ClientOK(d)'
  <2> DEFINE r == v6[c].request
             x == v6[c].answer
  <2>1. Select(p)!ClientOK(c)
    BY DEF Select!SelectInv
  <2>2. v6[c].pc \in Working => v5 = c /\ Select(p)!ValidRequest(r)
    BY <1>1 DEF Select!SelectTypes, Working
  <2>3. CASE Select(p)!EnterLocked(c)
    <3>1. PICK pc \in {"lookup", "resolve"} :
            v6' = [v6 EXCEPT ![c].pc = pc] /\ (pc = "lookup" <=> ~Select(p)!Sized(r))
      BY <2>3 DEF Select!EnterLocked, Select!Sized
    <3>2. Moved(c, pc, r, x) /\ v4' = v4
      BY <1>1, <2>3, <3>1, HowClientsMove DEF Select!EnterLocked
    <3> QED BY <1>1, <3>1, <3>2, ClientStep
  <2>4. CASE Select(p)!Lookup(c)
    <3>1. v6[c].pc = "lookup" /\ v4' = v4 /\ ~Select(p)!Sized(r)
      BY <2>1, <2>4 DEF Select!Lookup, Select!ClientOK
    <3>2. \/ Select(p)!Found(r) = {} /\ Moved(c, "resolve", r, x)
          \/ Moved(c, "answered", r, Select(p)!Conflict)
          \/ \E y \in Select(p)!Found(r) : Select(p)!SameRequest(r, y) /\ Moved(c, "answered", r, y)
      BY <1>1, <2>4, HowClientsMove DEF Select!Lookup, Select!Answer
    <3>3. CASE Select(p)!Found(r) = {} /\ Moved(c, "resolve", r, x)
      BY <1>1, <3>1, <3>3, ClientStep
    <3>4. ASSUME NEW y, Moved(c, "answered", r, y), y = Select(p)!Conflict \/ Select(p)!Honours(r, y)
          PROVE  \A d \in Setup[p].Clients : Select(p)!ClientOK(d)'
      BY <1>1, <3>1, <3>4, ClientStep
    <3> QED BY <3>1, <3>2, <3>3, <3>4, AnswersHonour
  <2>5. CASE Select(p)!Resolve(c)
    <3>1. /\ v6[c].pc = "resolve" /\ v4' = v4 /\ Select(p)!ValidRequest(r)
          /\ Select(p)!Sized(r) \/ Select(p)!Found(r) = {}
      BY <2>1, <2>2, <2>5 DEF Select!Resolve, Select!ClientOK, Working
    <3>2. \/ Moved(c, "answered", r, Select(p)!Refused)
          \/ \E plan \in Select(p)!Transports(r) : Moved(c, "start", r, Select(p)!Submission(r, plan))
      BY <1>1, <2>5, HowClientsMove DEF Select!Resolve, Select!Answer
    <3>3. CASE Moved(c, "answered", r, Select(p)!Refused)
      BY <1>1, <3>1, <3>3, ClientStep
    <3>4. ASSUME NEW plan \in Select(p)!Transports(r), Moved(c, "start", r, Select(p)!Submission(r, plan))
          PROVE  \A d \in Setup[p].Clients : Select(p)!ClientOK(d)'
      <4>1. Select(p)!GoodRun(Select(p)!Submission(r, plan)) /\ Select(p)!Submission(r, plan).by = r
        BY <1>1, <3>1, SubmissionGood
      <4> QED BY <1>1, <3>1, <3>4, <4>1, ClientStep
    <3> QED BY <3>2, <3>3, <3>4
  <2>6. CASE Select(p)!Start(c)
    <3>1. v6[c].pc = "start" /\ v5 = c /\ Select(p)!Honours(r, x)
      BY <2>1, <2>2, <2>6 DEF Select!Start, Select!ClientOK, Select!GoodRun, Working
    <3>2. \E y : /\ y = Select(p)!Conflict \/ y = x \/ Select(p)!Fingerprint(y) = Select(p)!Fingerprint(x)
                 /\ Moved(c, "answered", r, y)
      BY <1>1, <2>6, HowClientsMove DEF Select!Start, Select!Answer
    <3>3. PICK y : Moved(c, "answered", r, y) /\ (y = Select(p)!Conflict \/ Select(p)!Honours(r, y))
      BY <3>1, <3>2, AnswersHonour
    <3>4. "answered" \notin Working
      BY DEF Working
    <3> QED BY <1>1, <3>1, <3>3, <3>4, ClientStep
  <2>7. CASE Select(p)!StartLost(c)
    <3>1. v5 = c /\ Moved(c, "lost", r, None)
      BY <1>1, <2>2, <2>7, HowClientsMove DEF Select!StartLost, Working
    <3>2. "lost" \notin Working
      BY DEF Working
    <3> QED BY <1>1, <3>1, <3>2, ClientStep
  <2>8. CASE Select(p)!Retry(c)
    <3>1. PICK pc \in {"checked", "idle"} : v6' = [v6 EXCEPT ![c].pc = pc]
      BY <2>8 DEF Select!Retry
    <3>2. Moved(c, pc, r, x) /\ v4' = v4
      BY <1>1, <2>8, <3>1, HowClientsMove DEF Select!Retry
    <3> QED BY <1>1, <3>2, ClientStep DEF Working
  <2>9. CASE Select(p)!LoseAnswer(c)
    <3>1. v4' = v4 /\ Moved(c, "lost", r, None)
      BY <1>1, <2>9, HowClientsMove DEF Select!LoseAnswer
    <3> QED BY <1>1, <3>1, ClientStep DEF Working
  <2> QED BY <1>4, <2>3, <2>4, <2>5, <2>6, <2>7, <2>8, <2>9
<1> QED BY <1>2, <1>3, <1>4 DEF Select!Next, Select!vars, Select!Edit, Select!MetadataMoves

\* The invariant of the selection is inductive.
LEMMA SelectStep ==
    ASSUME NEW p \in SelectParts, Select(p)!SelectionAssumption, Select(p)!SelectInv,
           [Select(p)!Next]_(Select(p)!vars)
    PROVE  Select(p)!SelectInv'
BY SelectTypesStep, RunsStep, ClientsStep DEF Select!SelectInv

\* A step of the suite in the selection is a step of PlanSelection.
LEMMA SelectStepOfPart ==
    ASSUME [Next]_suiteVars, NEW p \in SelectParts, part = p
    PROVE  [Select(p)!Next]_(Select(p)!vars)
<1>1. CASE UNCHANGED suiteVars
  BY <1>1 DEF suiteVars, Select!vars
<1>2. CASE Next
  BY <1>2 DEF Next, StoreParts, ReadParts, ListParts, RequestParts, SelectParts, BackendParts, SparkParts
<1> QED BY <1>1, <1>2

\* Where a route has several plans of a revision, each is the one of its class.
LEMMA NobodyShadowed ==
    ASSUME NEW p \in SelectParts, Select(p)!SelectionAssumption, Select(p)!SelectTypes
    PROVE  Select(p)!NoPlanShadowed
<1> SUFFICES ASSUME NEW plan \in Setup[p].Plans, Setup[p].BuiltFor[plan] = v2,
                    NEW other \in Setup[p].Plans, Setup[p].BuiltFor[other] = v2, other # plan,
                    Setup[p].EnvOf[other] = Setup[p].EnvOf[plan]
             PROVE  \E k \in {"small", "large"} :
                      Select(p)!Selected([key |-> CHOOSE x \in Setup[p].Keys : TRUE, revision |-> v2,
                                          environment |-> Setup[p].EnvOf[plan], class |-> k, bytes |-> None,
                                          repair |-> FALSE]) = {plan}
  BY DEF Select!NoPlanShadowed
<1> DEFINE e == Setup[p].EnvOf[plan]
           k == v1.sizes[plan].class
           r == [key |-> CHOOSE x \in Setup[p].Keys : TRUE, revision |-> v2, environment |-> e, class |-> k,
                 bytes |-> None, repair |-> FALSE]
<1>1. e \in Select(p)!Environments /\ e # None /\ e # AnyEnvironment
  <2>1. e \in Select(p)!Environments
    BY DEF Select!Environments
  <2>2. Select(p)!Environments \cap {None, AnyEnvironment} = {}
    BY DEF Select!SelectionAssumption
  <2> QED BY <2>1, <2>2
<1>2. /\ Select(p)!Route(e) \subseteq DOMAIN v1.sizes /\ plan \in Select(p)!Route(e)
      /\ \A q \in Select(p)!Route(e) : v1.sizes[q].class = k => q = plan
  BY <1>1 DEF Select!SelectTypes, Select!Acceptable, Select!SizeRoutes, Select!Route
<1>3. k \in {"small", "large"} /\ k # None
  BY <1>2 DEF Select!SelectTypes, Select!SelectionAssumption
<1>4. r.class = k /\ r.bytes = None /\ r.environment = e /\ r.revision = v2
  OBVIOUS
<1> HIDE DEF k, r
<1>5. Select(p)!Estimate(r, e) = Unavailable
  BY <1>3, <1>4 DEF Select!Estimate
<1>6. Select(p)!RouteSelection(r, e) = {plan}
  <2> DEFINE current == {q \in Select(p)!CurrentFor(r.revision) : Setup[p].EnvOf[q] = e}
             choices == current \cap DOMAIN v1.sizes
             named == {q \in choices : v1.sizes[q].class = k}
  <2>1. plan \in choices /\ DOMAIN v1.sizes # {} /\ choices # {}
    BY <1>2, <1>4 DEF Select!CurrentFor
  <2>2. named = {plan}
    BY <1>2, <2>1 DEF Select!CurrentFor, Select!Route, k
  <2>3. Select(p)!RouteSelection(r, e) = named
    BY <1>3, <1>4, <1>5, <2>1 DEF Select!RouteSelection
  <2> QED BY <2>2, <2>3
<1>7. Select(p)!Candidates(r) = {plan}
  <2>1. Select(p)!Candidates(r) = UNION {Select(p)!RouteSelection(r, x) : x \in {e} \cap Select(p)!Environments}
    BY <1>1, <1>4 DEF Select!Candidates
  <2>2. \A q : q \in Select(p)!Candidates(r) <=> q \in Select(p)!RouteSelection(r, e)
    BY <1>1, <2>1
  <2> QED BY <1>6, <2>2
<1>8. Select(p)!Selected(r) = {plan}
  BY <1>1, <1>4, <1>7 DEF Select!Selected, Select!PlacementMode
<1> QED BY <1>3, <1>8 DEF r

\* The invariant says that a request starts one run of what it asked for.
LEMMA SelectMeaning ==
    ASSUME NEW p \in SelectParts, Select(p)!SelectionAssumption, Select(p)!SelectInv
    PROVE  /\ Select(p)!TypeOK /\ Select(p)!OneRunPerRequest /\ Select(p)!OverrideIsHonoured
           /\ Select(p)!DecisionsAccepted /\ Select(p)!NoPlanShadowed
<1>1. Select(p)!TypeOK
  BY DEF Select!TypeOK, Select!SelectInv, Select!SelectTypes, Select!RunsOK, Select!GoodRun, Select!ValidRequest
<1>2. Select(p)!OverrideIsHonoured
  BY DEF Select!OverrideIsHonoured, Select!SelectInv, Select!ClientOK, Select!RunsOK, Select!GoodRun
<1>3. Select(p)!DecisionsAccepted
  BY DEF Select!DecisionsAccepted, Select!SelectInv, Select!RunsOK, Select!GoodRun
<1> QED BY <1>1, <1>2, <1>3, NobodyShadowed DEF Select!SelectInv, Select!RunsOK

\* The requests of each part.
SelectionsInv == \A p \in SelectParts : part = p => Select(p)!SelectInv

LEMMA SelectionsInductive ==
    /\ Init => SelectionsInv
    /\ SelectionsInv /\ [Next]_suiteVars => SelectionsInv'
<1>1. Init => SelectionsInv
  BY InitOfPart, SelectInitial, InstancesAssumption DEF SelectionsInv
<1>2. ASSUME SelectionsInv, [Next]_suiteVars PROVE SelectionsInv'
  BY <1>2, StepOfPart, SelectStepOfPart, SelectStep, InstancesAssumption DEF SelectionsInv
<1> QED BY <1>1, <1>2

\* For any plans, configurations, sizes and clients: a request starts one run of
\* the plan it asked for, however often it is sent while tables grow and graphs
\* are edited; and in whatever configuration the resolver accepts its decisions
\* are ones the decision records accept, and no plan is shadowed.
THEOREM RequestsStartOneRun == Spec => []OneRunPerRequest
<1>1. SelectionsInv => OneRunPerRequest
  BY SelectMeaning, InstancesAssumption DEF SelectionsInv, OneRunPerRequest, SelectParts
<1> QED BY <1>1, SelectionsInductive, PTL DEF Spec

\* A repeated request is answered with the run that it started.
LEMMA AnsweredStep ==
    ASSUME NEW p \in SelectParts, Select(p)!SelectionAssumption, Select(p)!SelectInv,
           [Select(p)!Next]_(Select(p)!vars)
    PROVE  Select(p)!AnsweredWithItsRun
<1> SUFFICES ASSUME NEW c \in Setup[p].Clients, NEW x \in v4,
                    v6[c].pc # "answered", v6'[c].pc = "answered",
                    v6[c].request = x.by, \A y \in v4 : y.key = x.key => y = x
             PROVE  v6'[c].answer = x
  BY DEF Select!AnsweredWithItsRun
<1> DEFINE r == v6[c].request
<1>1. /\ Select(p)!GoodRun(x) /\ Select(p)!ClientOK(c) /\ Select(p)!SelectTypes
      /\ x.key = r.key /\ x.env \in Select(p)!LookupEnvironments(r)
  BY DEF Select!SelectInv, Select!RunsOK, Select!GoodRun
<1>2. x \in Select(p)!Found(r) /\ Select(p)!Found(r) = {x}
  BY <1>1 DEF Select!Found
<1>3. CASE Select(p)!Lookup(c)
  <2>1. ~Select(p)!Sized(r) /\ Select(p)!SameRequest(r, x)
    BY <1>1, <1>3 DEF Select!Lookup, Select!ClientOK, Select!GoodRun
  <2> QED BY <1>1, <1>2, <1>3, <2>1 DEF Select!Lookup, Select!Answer, Select!SelectTypes
<1>4. CASE Select(p)!Resolve(c)
  <2>1. Select(p)!Sized(r)
    BY <1>1, <1>2, <1>4 DEF Select!Resolve, Select!ClientOK
  <2>2. Select(p)!Transports(r) # {}
    BY <1>1, <2>1 DEF Select!GoodRun
  <2> QED BY <1>1, <1>4, <2>2 DEF Select!Resolve, Select!SelectTypes
<1>5. CASE Select(p)!Start(c)
  <2> DEFINE a == v6[c].answer
  <2>1. Select(p)!Sized(r) /\ Select(p)!GoodRun(a) /\ a.by = r
    BY <1>1, <1>2, <1>5 DEF Select!Start, Select!ClientOK
  <2>2. a.plan = x.plan
    BY <1>1, <2>1, OneSelected DEF Select!GoodRun, Select!Transports
  <2>3. a.env = x.env /\ a.key = x.key /\ Select(p)!Fingerprint(x) = Select(p)!Fingerprint(a)
    BY <1>1, <2>1, <2>2 DEF Select!GoodRun, Select!Honours, Select!Fingerprint
  <2>4. Select(p)!Claimed(a) = {x}
    BY <2>3 DEF Select!Claimed
  <2> QED BY <1>1, <1>5, <2>3, <2>4 DEF Select!Start, Select!Answer, Select!SelectTypes
<1>6. Select(p)!Lookup(c) \/ Select(p)!Resolve(c) \/ Select(p)!Start(c)
  <2>1. PICK d \in Setup[p].Clients :
          \/ Select(p)!Send(d) \/ Select(p)!EnterLocked(d) \/ Select(p)!Lookup(d) \/ Select(p)!Resolve(d)
          \/ Select(p)!Start(d) \/ Select(p)!StartLost(d) \/ Select(p)!Retry(d) \/ Select(p)!LoseAnswer(d)
    BY DEF Select!Next, Select!vars, Select!Edit, Select!MetadataMoves
  <2>2. c = d
    BY <1>1, <2>1 DEF Select!SelectTypes, Select!Send, Select!EnterLocked, Select!Lookup, Select!Resolve, Select!Start,
       Select!StartLost, Select!Retry, Select!LoseAnswer, Select!Answer
  <2>3. c \in DOMAIN v6
    BY <1>1 DEF Select!SelectTypes
  <2>4. ~Select(p)!Send(c)
    BY <2>3 DEF Select!Send
  <2>5. ~Select(p)!EnterLocked(c) /\ ~Select(p)!StartLost(c) /\ ~Select(p)!Retry(c) /\ ~Select(p)!LoseAnswer(c)
    <3>1. \A pc, a : \/ v6' = [v6 EXCEPT ![c].pc = pc] \/ v6' = [v6 EXCEPT ![c].pc = pc, ![c].answer = a]
                    => v6'[c].pc = pc
      BY <1>1, <2>3, HowClientsMove DEF Moved
    <3> QED BY <3>1 DEF Select!EnterLocked, Select!StartLost, Select!Retry, Select!LoseAnswer
  <2> QED BY <2>1, <2>2, <2>4, <2>5
<1> QED BY <1>3, <1>4, <1>5, <1>6

-----------------------------------------------------------------------------
(***************************************************************************)
(* HTTP requests.  The variables are those of ControlRequests: graph is v1,*)
(* revision v2, created v3, deleted v4, runs v5, req v6, phase v7, status  *)
(* v8, pinned v9, etag v10, listed v11 and shown v12.                      *)
(***************************************************************************)

LEMMA RequestInitial ==
    ASSUME NEW p \in RequestParts, Requests(p)!Init
    PROVE  Requests(p)!RequestInv
<1>1. Requests(p)!TypeOK
  BY DEF Requests!Init, Requests!TypeOK
<1>2. Requests(p)!ListedOK
  BY DEF Requests!Init, Requests!ListedOK
<1>3. \A c \in Setup[p].Clients : Requests(p)!ClientOK(c)
  BY DEF Requests!Init, Requests!ClientOK
<1> QED BY <1>1, <1>2, <1>3 DEF Requests!RequestInv

\* What the type invariant says of the graph store.
StoreTyped(p) ==
    /\ v2 \in Nat /\ v1 \in 0..v2
    /\ DOMAIN v3 = Setup[p].Keys /\ DOMAIN v4 = Setup[p].Keys /\ DOMAIN v5 = Setup[p].Keys

\* What a client knows changes only with its own requests.
LEMMA ClientFrame ==
    ASSUME NEW p \in RequestParts, NEW c \in Setup[p].Clients, Requests(p)!ClientOK(c),
           v6'[c] = v6[c], v7'[c] = v7[c], v9'[c] = v9[c], v10'[c] = v10[c], v12'[c] = v12[c]
    PROVE  Requests(p)!ClientOK(c)'
BY DEF Requests!ClientOK, Requests!Authorized, Requests!MayEnter

\* An answer is heard or lost, and tells the client what is so.
LEMMA AnswerKeeps ==
    ASSUME NEW p \in RequestParts, Requests(p)!RequestInv, NEW c \in Setup[p].Clients, v7[c] # "idle",
           NEW code, NEW rev, NEW ops, Requests(p)!AnswerWith(c, code, rev, ops),
           ops # {} => /\ ops = Requests(p)!ListedFor(v6[c].who)
                       /\ Setup[p].Hosted => Requests(p)!MayEnter(v6[c].who),
           StoreTyped(p)'
    PROVE  Requests(p)!RequestInv' /\ v8'[c] = Requests(p)!Final(c, code)
<1> DEFINE r == v6[c]
<1>1. /\ DOMAIN v6 = Setup[p].Clients /\ DOMAIN v7 = Setup[p].Clients /\ DOMAIN v8 = Setup[p].Clients
      /\ DOMAIN v9 = Setup[p].Clients /\ DOMAIN v10 = Setup[p].Clients /\ DOMAIN v12 = Setup[p].Clients
      /\ DOMAIN v11 = Setup[p].Principals /\ r.who \in Setup[p].Principals
  BY DEF Requests!RequestInv, Requests!TypeOK
<1>2. /\ v7' = [v7 EXCEPT ![c] = "idle"] /\ v6' = [v6 EXCEPT ![c] = Requests(p)!NoRequest]
      /\ v9' = [v9 EXCEPT ![c] = 0] /\ v8' = [v8 EXCEPT ![c] = Requests(p)!Final(c, code)]
  BY DEF Requests!AnswerWith, Requests!Goto
<1>3. \/ UNCHANGED <<v10, v11, v12>>
      \/ /\ v10' = [v10 EXCEPT ![c] = IF rev = 0 THEN @ ELSE rev]
         /\ v12' = [v12 EXCEPT ![c] = @ \cup ({rev} \ {0})]
         /\ v11' = [v11 EXCEPT ![r.who] = IF ops = {} THEN @ ELSE ops]
  BY DEF Requests!AnswerWith
<1>4. Requests(p)!TypeOK'
  <2>1. /\ DOMAIN v6' = Setup[p].Clients /\ DOMAIN v7' = Setup[p].Clients /\ DOMAIN v8' = Setup[p].Clients
        /\ DOMAIN v9' = Setup[p].Clients /\ DOMAIN v10' = Setup[p].Clients /\ DOMAIN v12' = Setup[p].Clients
        /\ DOMAIN v11' = Setup[p].Principals
    BY <1>1, <1>2, <1>3
  <2>2. \A d \in Setup[p].Clients :
           /\ v7'[d] \in {"idle", "sent", "auth", "body", "handler", "start"}
           /\ v7'[d] # "idle" => v6'[d].who \in Setup[p].Principals /\ v6'[d].key \in Setup[p].Keys
    BY <1>1, <1>2 DEF Requests!RequestInv, Requests!TypeOK
  <2> QED BY <2>1, <2>2 DEF Requests!TypeOK, StoreTyped
<1>5. Requests(p)!ListedOK'
  <2>1. \A q \in Setup[p].Principals : v11'[q] = v11[q] \/ (v11'[q] = ops /\ ops # {} /\ q = r.who)
    BY <1>1, <1>3
  <2> QED BY <2>1 DEF Requests!RequestInv, Requests!ListedOK, Requests!ListedFor, Requests!MayEnter
<1>6. ASSUME NEW d \in Setup[p].Clients PROVE Requests(p)!ClientOK(d)'
  <2>1. CASE d = c
    <3>1. v10'[c] \in v12'[c] \cup {0}
      BY <1>1, <1>3 DEF Requests!RequestInv, Requests!ClientOK
    <3>2. v7'[c] = "idle"
      BY <1>1, <1>2
    <3> QED BY <2>1, <3>1, <3>2 DEF Requests!ClientOK
  <2>2. CASE d # c
    <3>1. v6'[d] = v6[d] /\ v7'[d] = v7[d] /\ v9'[d] = v9[d] /\ v10'[d] = v10[d] /\ v12'[d] = v12[d]
      BY <1>1, <1>2, <1>3, <2>2
    <3> QED BY <3>1, ClientFrame DEF Requests!RequestInv
  <2> QED BY <2>1, <2>2
<1>7. v8'[c] = Requests(p)!Final(c, code)
  BY <1>1, <1>2
<1> QED BY <1>4, <1>5, <1>6, <1>7 DEF Requests!RequestInv

\* A request that goes on to its next phase.
LEMMA GoesOn ==
    ASSUME NEW p \in RequestParts, Requests(p)!RequestInv, NEW c \in Setup[p].Clients, v7[c] # "idle",
           NEW label \in {"auth", "body", "handler"}, Requests(p)!Goto(c, label),
           UNCHANGED <<Requests(p)!store, Requests(p)!told, v6, v8, v9>>,
           label \in {"body", "handler"} => Requests(p)!Authorized(v6[c])
    PROVE  Requests(p)!RequestInv'
<1>1. UNCHANGED <<v1, v2, v3, v4, v5, v6, v8, v9, v10, v11, v12>> /\ v7' = [v7 EXCEPT ![c] = label]
  BY DEF Requests!store, Requests!told, Requests!Goto
<1>2. Requests(p)!TypeOK'
  BY <1>1 DEF Requests!RequestInv, Requests!TypeOK
<1>3. Requests(p)!ListedOK'
  BY <1>1 DEF Requests!RequestInv, Requests!ListedOK, Requests!ListedFor, Requests!MayEnter
<1>4. ASSUME NEW d \in Setup[p].Clients PROVE Requests(p)!ClientOK(d)'
  <2>1. CASE d = c
    <3>1. v7'[c] = label
      BY <1>1 DEF Requests!RequestInv, Requests!TypeOK
    <3> QED BY <1>1, <2>1, <3>1 DEF Requests!RequestInv, Requests!ClientOK, Requests!Authorized, Requests!MayEnter
  <2>2. CASE d # c
    <3>1. v7'[d] = v7[d]
      BY <1>1, <2>2 DEF Requests!RequestInv, Requests!TypeOK
    <3> QED BY <1>1, <3>1, ClientFrame DEF Requests!RequestInv
  <2> QED BY <2>1, <2>2
<1> QED BY <1>2, <1>3, <1>4 DEF Requests!RequestInv

\* The table of the routes and that of the operations name the same capability.
LEMMA TablesAgree ==
    ASSUME NEW p \in RequestParts, NEW route, Requests(p)!Operation(route) # "none"
    PROVE  Requests(p)!OperationCapability(Requests(p)!Operation(route)) = Requests(p)!Capability(route)
BY DEF Requests!Operation, Requests!OperationCapability, Requests!Capability, Requests!Previews

\* An answer agrees with what the principal was told of its operations.
Agrees(p, c, code) ==
    LET op == Requests(p)!Operation(v6[c].route) IN
    (v11[v6[c].who] # {} /\ op # "none" /\ v6[c].flaw = "none") =>
        IF op \in Requests(p)!ListedFor(v6[c].who)
        THEN code # 403 /\ (code = 501 => v6[c].route \in Requests(p)!PlanRoutes)
        ELSE code \in {401, 403, 404, 412, 501}

\* A handler agrees if it refuses the operations that the profile lacks, and of
\* the others only those that need a plan.
LEMMA HandlerAgrees ==
    ASSUME NEW p \in RequestParts, NEW c \in Setup[p].Clients, Requests(p)!Authorized(v6[c]), NEW code,
           v6[c].flaw = "none" /\ Requests(p)!Operation(v6[c].route) # "none" =>
             IF Requests(p)!Operation(v6[c].route) \in Requests(p)!Available
             THEN code # 403 /\ (code = 501 => v6[c].route \in Requests(p)!PlanRoutes)
             ELSE code \in {404, 412, 501}
    PROVE  Agrees(p, c, code)
<1> DEFINE op == Requests(p)!Operation(v6[c].route)
<1>1. op # "none" => (op \in Requests(p)!ListedFor(v6[c].who) <=> op \in Requests(p)!Available)
  BY TablesAgree DEF Requests!ListedFor, Requests!Authorized
<1> HIDE DEF op
<1> QED BY <1>1 DEF Agrees, op

\* The authorizer forbids nothing that was listed.
LEMMA AuthorizerAgrees ==
    ASSUME NEW p \in RequestParts, Requests(p)!RequestInv, NEW c \in Setup[p].Clients, v7[c] # "idle",
           Setup[p].Hosted,
           \/ ~Requests(p)!MayEnter(v6[c].who)
           \/ Requests(p)!Capability(v6[c].route) \notin Requests(p)!CapabilitiesFor(Setup[p].RolesOf[v6[c].who])
    PROVE  Agrees(p, c, 403)
<1> DEFINE op == Requests(p)!Operation(v6[c].route)
<1> SUFFICES ASSUME v11[v6[c].who] # {}, op # "none", op \in Requests(p)!ListedFor(v6[c].who) PROVE FALSE
  BY DEF Agrees
<1>1. Requests(p)!MayEnter(v6[c].who)
  BY DEF Requests!RequestInv, Requests!ListedOK, Requests!TypeOK
<1>2. Requests(p)!OperationCapability(op) \in Requests(p)!CapabilitiesFor(Setup[p].RolesOf[v6[c].who])
  BY DEF Requests!ListedFor
<1> QED BY <1>1, <1>2, TablesAgree

\* A capability is held by one of the roles that the documentation gives it.
LEMMA RolesOfCapability ==
    ASSUME NEW p \in RequestParts, NEW roles, Requests(p)!Accepted(roles)
    PROVE  /\ "edit" \in Requests(p)!CapabilitiesFor(roles) => roles \cap {"editor", "operator", "admin"} # {}
           /\ "run" \in Requests(p)!CapabilitiesFor(roles) => roles \cap {"operator", "admin"} # {}
           /\ "admin" \in Requests(p)!CapabilitiesFor(roles) => roles \cap {"admin"} # {}
<1>1. roles \subseteq {"viewer", "editor", "operator", "admin"}
  BY DEF Requests!Accepted, Requests!RoleCapabilities
<1>2. ASSUME NEW right, right \in Requests(p)!CapabilitiesFor(roles)
      PROVE  \E r \in roles : right \in Requests(p)!RoleCapabilities[r]
  BY <1>2 DEF Requests!CapabilitiesFor
<1>3. /\ Requests(p)!RoleCapabilities["viewer"] = {"read"}
      /\ Requests(p)!RoleCapabilities["editor"] = {"read", "edit", "validate_preview"}
      /\ Requests(p)!RoleCapabilities["operator"] = {"read", "edit", "validate_preview", "run"}
  BY DEF Requests!RoleCapabilities
<1> QED BY <1>1, <1>2, <1>3

\* The properties of one step.
RequestKept(p) ==
    /\ Requests(p)!EditsWereSeen /\ Requests(p)!OnlyCapable /\ Requests(p)!AnswersAreHonest
    /\ Requests(p)!ListedIsHonoured /\ Requests(p)!RunsAreWhatWasAsked

\* A step answers the client whose request it is about, and no other.
LEMMA OneIsAnswered ==
    ASSUME NEW p \in RequestParts, Requests(p)!RequestInv, NEW c \in Setup[p].Clients, NEW label,
           Requests(p)!Goto(c, label), NEW d \in Setup[p].Clients, Requests(p)!Answers(d)
    PROVE  d = c /\ label = "idle"
BY DEF Requests!RequestInv, Requests!TypeOK, Requests!Goto, Requests!Answers

LEMMA UnansweredKeeps ==
    ASSUME NEW p \in RequestParts, \A d \in Setup[p].Clients : ~Requests(p)!Answers(d)
    PROVE  RequestKept(p)
BY DEF RequestKept, Requests!EditsWereSeen, Requests!OnlyCapable, Requests!AnswersAreHonest,
       Requests!ListedIsHonoured, Requests!RunsAreWhatWasAsked

\* An answer is honest if its code is, and what it changed is what an authorized
\* client that knew the graph asked for.
LEMMA AnsweredHonestly ==
    ASSUME NEW p \in RequestParts, Requests(p)!RequestInv, NEW c \in Setup[p].Clients, v7[c] # "idle",
           NEW code, NEW rev, NEW ops, Requests(p)!AnswerWith(c, code, rev, ops),
           ops # {} => /\ ops = Requests(p)!ListedFor(v6[c].who)
                       /\ Setup[p].Hosted => Requests(p)!MayEnter(v6[c].who),
           StoreTyped(p)', Agrees(p, c, code),
           code = 200 => v6[c].route # "put" \/ v1' # v1,
           code = 202 => v5'[v6[c].key] = v6[c].match,
           code = 201 => v3'[v6[c].key].what = v6[c].doc,
           \/ UNCHANGED <<v1, v2, v3, v4, v5>>
           \/ /\ code \notin (400..499) \cup {501} /\ Requests(p)!Authorized(v6[c])
              /\ v6[c].route \in {"create", "put", "delete", "start", "repair"}
              /\ v1 # 0 /\ v1' # v1 => v1 = v6[c].match
              /\ v5' # v5 => v5'[v6[c].key] = v6[c].match
    PROVE  Requests(p)!RequestInv' /\ RequestKept(p)
<1> DEFINE r == v6[c]
<1>1. Requests(p)!RequestInv' /\ v8'[c] = Requests(p)!Final(c, code)
  BY AnswerKeeps
<1>2. \A d \in Setup[p].Clients : Requests(p)!Answers(d) => d = c
  BY OneIsAnswered DEF Requests!AnswerWith
<1>3. v8'[c] = code \/ (v8'[c] = 500 /\ r.flaw # "none")
  BY <1>1 DEF Requests!Final
<1>4. Requests(p)!EditsWereSeen
  <2>1. r.match \in v12[c] \cup {0}
    BY DEF Requests!RequestInv, Requests!ClientOK
  <2> QED BY <1>2, <2>1 DEF Requests!EditsWereSeen
<1>5. Requests(p)!OnlyCapable
  <2> SUFFICES ASSUME Setup[p].Hosted, UNCHANGED <<v1, v2, v3, v4, v5>> => FALSE
               PROVE  /\ Setup[p].RolesOf[r.who] \cap Requests(p)!MayChange(c) # {}
                      /\ Setup[p].Allowlist = {} \/ r.who \in Setup[p].Allowlist
                      /\ r.flaw # "expired"
    BY <1>2 DEF Requests!OnlyCapable, Requests!store
  <2>1. /\ r.flaw # "expired" /\ Requests(p)!MayEnter(r.who)
        /\ Requests(p)!Capability(r.route) \in Requests(p)!CapabilitiesFor(Setup[p].RolesOf[r.who])
        /\ r.route \in {"create", "put", "delete", "start", "repair"}
    BY DEF Requests!Authorized
  <2>2. /\ r.route \in {"create", "put"} => Requests(p)!Capability(r.route) = "edit"
                                            /\ Requests(p)!MayChange(c) = {"editor", "operator", "admin"}
        /\ r.route = "delete" => Requests(p)!Capability(r.route) = "admin" /\ Requests(p)!MayChange(c) = {"admin"}
        /\ r.route \in {"start", "repair"} => Requests(p)!Capability(r.route) = "run"
                                              /\ Requests(p)!MayChange(c) = {"operator", "admin"}
    BY DEF Requests!Capability, Requests!MayChange, Requests!Previews
  <2>3. Setup[p].RolesOf[r.who] \cap Requests(p)!MayChange(c) # {}
    BY <2>1, <2>2, RolesOfCapability DEF Requests!MayEnter
  <2> QED BY <2>1, <2>3 DEF Requests!MayEnter
<1>6. Requests(p)!RunsAreWhatWasAsked
  BY <1>2 DEF Requests!RunsAreWhatWasAsked
<1>7. Requests(p)!AnswersAreHonest
  BY <1>2, <1>3 DEF Requests!AnswersAreHonest, Requests!store
<1>8. Requests(p)!ListedIsHonoured
  <2>1. v11[r.who] # {} => v11[r.who] = Requests(p)!ListedFor(r.who)
    BY DEF Requests!RequestInv, Requests!TypeOK, Requests!ListedOK
  <2> QED BY <1>2, <1>3, <2>1 DEF Requests!ListedIsHonoured, Agrees
<1> QED BY <1>1, <1>4, <1>5, <1>6, <1>7, <1>8 DEF RequestKept

\* An answer that changes nothing is honest if its code is.
LEMMA RefusedHonestly ==
    ASSUME NEW p \in RequestParts, Requests(p)!RequestInv, NEW c \in Setup[p].Clients, v7[c] # "idle",
           NEW code, Requests(p)!Refuse(c, code), Agrees(p, c, code),
           code = 200 => v6[c].route # "put",
           code = 202 => v5[v6[c].key] = v6[c].match,
           code # 201
    PROVE  Requests(p)!RequestInv' /\ RequestKept(p)
<1>1. UNCHANGED <<v1, v2, v3, v4, v5>> /\ Requests(p)!AnswerWith(c, code, 0, {})
  BY DEF Requests!Refuse, Requests!Answer, Requests!store
<1>2. StoreTyped(p)'
  BY <1>1 DEF StoreTyped, Requests!RequestInv, Requests!TypeOK
<1> QED BY <1>1, <1>2, AnsweredHonestly

\* A client sends a request with the ETag it holds.
LEMMA SendKeeps ==
    ASSUME NEW p \in RequestParts, Requests(p)!RequestInv, NEW c \in Setup[p].Clients, Requests(p)!Send(c)
    PROVE  Requests(p)!RequestInv' /\ RequestKept(p)
<1>1. UNCHANGED <<v1, v2, v3, v4, v5, v9, v10, v11, v12>> /\ v7' = [v7 EXCEPT ![c] = "sent"] /\ v8' = [v8 EXCEPT ![c] = 0]
  BY DEF Requests!Send, Requests!store, Requests!told
<1>2. PICK r : /\ v6' = [v6 EXCEPT ![c] = r] /\ r.match = v10[c]
               /\ r.who \in Setup[p].Principals /\ r.key \in Setup[p].Keys
  <2>1. PICK route \in Setup[p].Used, q \in Setup[p].Principals, k \in Setup[p].Keys, doc \in Setup[p].Docs,
             flaw \in Setup[p].Flaws :
          v6' = [v6 EXCEPT ![c] = [route |-> route, who |-> q, key |-> k, doc |-> doc, flaw |-> flaw,
                                   match |-> v10[c]]]
    BY DEF Requests!Send
  <2> DEFINE r == [route |-> route, who |-> q, key |-> k, doc |-> doc, flaw |-> flaw, match |-> v10[c]]
  <2>2. r.match = v10[c] /\ r.who \in Setup[p].Principals /\ r.key \in Setup[p].Keys
    OBVIOUS
  <2> HIDE DEF r
  <2> QED BY <2>1, <2>2 DEF r
<1>3. DOMAIN v6 = Setup[p].Clients /\ DOMAIN v7 = Setup[p].Clients /\ DOMAIN v8 = Setup[p].Clients
  BY DEF Requests!RequestInv, Requests!TypeOK
<1>4. /\ v7'[c] = "sent" /\ v6'[c] = r
      /\ \A d \in Setup[p].Clients \ {c} : v7'[d] = v7[d] /\ v6'[d] = v6[d]
  BY <1>1, <1>2, <1>3
<1>5. Requests(p)!TypeOK'
  BY <1>1, <1>2, <1>3, <1>4 DEF Requests!RequestInv, Requests!TypeOK
<1>6. Requests(p)!ListedOK'
  BY <1>1 DEF Requests!RequestInv, Requests!ListedOK, Requests!ListedFor, Requests!MayEnter
<1>7. Requests(p)!ClientOK(c)'
  BY <1>1, <1>2, <1>4 DEF Requests!RequestInv, Requests!ClientOK
<1>8. \A d \in Setup[p].Clients \ {c} : Requests(p)!ClientOK(d)'
  BY <1>1, <1>4, ClientFrame DEF Requests!RequestInv
<1>9. \A d \in Setup[p].Clients : ~Requests(p)!Answers(d)
  BY <1>4 DEF Requests!Answers
<1> QED BY <1>5, <1>6, <1>7, <1>8, <1>9, UnansweredKeeps DEF Requests!RequestInv

\* A request that goes on is not answered.
LEMMA GoesOnKeeps ==
    ASSUME NEW p \in RequestParts, Requests(p)!RequestInv, NEW c \in Setup[p].Clients, v7[c] # "idle",
           NEW label \in {"auth", "body", "handler"}, Requests(p)!Goto(c, label),
           UNCHANGED <<Requests(p)!store, Requests(p)!told, v6, v8, v9>>,
           label \in {"body", "handler"} => Requests(p)!Authorized(v6[c])
    PROVE  Requests(p)!RequestInv' /\ RequestKept(p)
<1>1. Requests(p)!RequestInv'
  BY GoesOn
<1>2. \A d \in Setup[p].Clients : ~Requests(p)!Answers(d)
  BY OneIsAnswered
<1> QED BY <1>1, <1>2, UnansweredKeeps

\* The middleware, the authorizer and the reading of the body.
LEMMA AdmitKeeps ==
    ASSUME NEW p \in RequestParts, Requests(p)!RequestInv, NEW c \in Setup[p].Clients, Requests(p)!Admit(c)
    PROVE  Requests(p)!RequestInv' /\ RequestKept(p)
<1>1. v7[c] # "idle"
  BY DEF Requests!Admit
<1>2. CASE \E code \in {400, 403} : Requests(p)!Refuse(c, code) /\ v6[c].flaw # "none"
  <2>1. \A code : v6[c].flaw # "none" => Agrees(p, c, code)
    BY DEF Agrees
  <2> QED BY <1>1, <1>2, <2>1, RefusedHonestly
<1>3. CASE Requests(p)!Goto(c, "auth") /\ UNCHANGED <<Requests(p)!store, Requests(p)!told, v6, v8, v9>>
  BY <1>1, <1>3, GoesOnKeeps
<1> QED BY <1>2, <1>3 DEF Requests!Admit

LEMMA AuthenticateKeeps ==
    ASSUME NEW p \in RequestParts, Requests(p)!RequestInv, NEW c \in Setup[p].Clients, Requests(p)!Authenticate(c)
    PROVE  Requests(p)!RequestInv' /\ RequestKept(p)
<1> DEFINE denied == \/ ~Requests(p)!MayEnter(v6[c].who)
                     \/ Requests(p)!Capability(v6[c].route)
                            \notin Requests(p)!CapabilitiesFor(Setup[p].RolesOf[v6[c].who])
<1>1. v7[c] # "idle"
  BY DEF Requests!Authenticate
<1>2. CASE Requests(p)!Refuse(c, 401) /\ v6[c].flaw = "expired"
  <2>1. Agrees(p, c, 401)
    BY <1>2 DEF Agrees
  <2> QED BY <1>1, <1>2, <2>1, RefusedHonestly
<1>3. CASE Requests(p)!Refuse(c, 403) /\ Setup[p].Hosted /\ denied
  <2>1. Agrees(p, c, 403)
    BY <1>1, <1>3, AuthorizerAgrees
  <2> QED BY <1>1, <1>3, <2>1, RefusedHonestly
<1>4. CASE /\ Requests(p)!Goto(c, "body") /\ UNCHANGED <<Requests(p)!store, Requests(p)!told, v6, v8, v9>>
           /\ Requests(p)!Authorized(v6[c])
  BY <1>1, <1>4, GoesOnKeeps
<1> QED BY <1>2, <1>3, <1>4 DEF Requests!Authenticate, Requests!Authorized, Requests!MayEnter

LEMMA ReadRequestKeeps ==
    ASSUME NEW p \in RequestParts, Requests(p)!RequestInv, NEW c \in Setup[p].Clients, Requests(p)!ReadRequest(c)
    PROVE  Requests(p)!RequestInv' /\ RequestKept(p)
<1>1. v7[c] = "body" /\ Requests(p)!Authorized(v6[c])
  BY DEF Requests!ReadRequest, Requests!RequestInv, Requests!ClientOK
<1>2. CASE \E code \in {413, 415, 422} : Requests(p)!Refuse(c, code) /\ v6[c].flaw # "none"
  <2>1. \A code : v6[c].flaw # "none" => Agrees(p, c, code)
    BY DEF Agrees
  <2> QED BY <1>1, <1>2, <2>1, RefusedHonestly
<1>3. CASE Requests(p)!Goto(c, "handler") /\ UNCHANGED <<Requests(p)!store, Requests(p)!told, v6, v8, v9>>
  BY <1>1, <1>3, GoesOnKeeps
<1> QED BY <1>2, <1>3 DEF Requests!ReadRequest

\* What the handlers may rely on.
LEMMA InHandler ==
    ASSUME NEW p \in RequestParts, Requests(p)!RequestInv, NEW c \in Setup[p].Clients,
           v7[c] \in {"handler", "start"}
    PROVE  /\ v7[c] # "idle" /\ Requests(p)!Authorized(v6[c]) /\ StoreTyped(p)
           /\ v6[c].who \in Setup[p].Principals /\ v6[c].key \in Setup[p].Keys
BY DEF Requests!RequestInv, Requests!TypeOK, Requests!ClientOK, StoreTyped

\* The operations on the graph itself are in every profile.
LEMMA GraphRoutesAgree ==
    ASSUME NEW p \in RequestParts, NEW c \in Setup[p].Clients, Requests(p)!Authorized(v6[c]),
           v6[c].route \in {"get", "capabilities", "create", "put", "delete"}, NEW code, code \notin {403, 501}
    PROVE  Agrees(p, c, code)
<1>1. Requests(p)!Operation(v6[c].route) \in Requests(p)!Available \cup {"none"}
  BY DEF Requests!Operation, Requests!Available, Requests!Previews, Requests!RunReads
<1> QED BY <1>1, HandlerAgrees

LEMMA GetGraphKeeps ==
    ASSUME NEW p \in RequestParts, Requests(p)!RequestInv, NEW c \in Setup[p].Clients, Requests(p)!GetGraph(c)
    PROVE  Requests(p)!RequestInv' /\ RequestKept(p)
<1>1. v7[c] = "handler" /\ v6[c].route = "get"
  BY DEF Requests!GetGraph, Requests!At
<1>2. v7[c] # "idle" /\ Requests(p)!Authorized(v6[c]) /\ StoreTyped(p)
  BY <1>1, InHandler
<1>3. Agrees(p, c, 404) /\ Agrees(p, c, 200)
  BY <1>1, <1>2, GraphRoutesAgree
<1>4. CASE Requests(p)!Refuse(c, 404)
  BY <1>2, <1>3, <1>4, RefusedHonestly
<1>5. CASE Requests(p)!AnswerWith(c, 200, v1, {}) /\ UNCHANGED Requests(p)!store
  <2>1. UNCHANGED <<v1, v2, v3, v4, v5>>
    BY <1>5 DEF Requests!store
  <2>2. StoreTyped(p)'
    BY <1>2, <2>1 DEF StoreTyped
  <2> QED BY <1>1, <1>2, <1>3, <1>5, <2>1, <2>2, AnsweredHonestly
<1> QED BY <1>4, <1>5 DEF Requests!GetGraph

LEMMA CapabilitiesKeeps ==
    ASSUME NEW p \in RequestParts, Requests(p)!RequestInv, NEW c \in Setup[p].Clients, Requests(p)!Capabilities(c)
    PROVE  Requests(p)!RequestInv' /\ RequestKept(p)
<1>1. v7[c] = "handler" /\ v6[c].route = "capabilities"
  BY DEF Requests!Capabilities, Requests!At
<1>2. v7[c] # "idle" /\ Requests(p)!Authorized(v6[c]) /\ StoreTyped(p)
  BY <1>1, InHandler
<1>3. Agrees(p, c, 200)
  BY <1>1, <1>2, GraphRoutesAgree
<1>4. UNCHANGED <<v1, v2, v3, v4, v5>> /\ Requests(p)!AnswerWith(c, 200, 0, Requests(p)!ListedFor(v6[c].who))
  BY DEF Requests!Capabilities, Requests!store
<1>5. StoreTyped(p)'
  BY <1>2, <1>4 DEF StoreTyped
<1>6. Setup[p].Hosted => Requests(p)!MayEnter(v6[c].who)
  BY <1>2 DEF Requests!Authorized
<1> QED BY <1>1, <1>2, <1>3, <1>4, <1>5, <1>6, AnsweredHonestly

LEMMA CreateGraphKeeps ==
    ASSUME NEW p \in RequestParts, Requests(p)!RequestInv, NEW c \in Setup[p].Clients, Requests(p)!CreateGraph(c)
    PROVE  Requests(p)!RequestInv' /\ RequestKept(p)
<1> DEFINE r == v6[c]
<1>1. v7[c] = "handler" /\ r.route = "create"
  BY DEF Requests!CreateGraph, Requests!At
<1>2. v7[c] # "idle" /\ Requests(p)!Authorized(r) /\ StoreTyped(p) /\ r.key \in Setup[p].Keys
  BY <1>1, InHandler
<1>3. Agrees(p, c, 404) /\ Agrees(p, c, 409) /\ Agrees(p, c, 201)
  BY <1>1, <1>2, GraphRoutesAgree
<1>4. CASE \E code \in {404, 409} : Requests(p)!Refuse(c, code)
  BY <1>2, <1>3, <1>4, RefusedHonestly
<1>5. CASE /\ Requests(p)!Same(v3[r.key], r.doc)
           /\ Requests(p)!AnswerWith(c, 201, v3[r.key].rev, {}) /\ UNCHANGED Requests(p)!store
  <2>1. UNCHANGED <<v1, v2, v3, v4, v5>> /\ v3[r.key].what = r.doc
    BY <1>5 DEF Requests!store, Requests!Same
  <2>2. StoreTyped(p)'
    BY <1>2, <2>1 DEF StoreTyped
  <2> QED BY <1>1, <1>2, <1>3, <1>5, <2>1, <2>2, AnsweredHonestly
<1>6. CASE /\ v1 = 0 /\ v2' = v2 + 1 /\ v1' = v2 + 1
           /\ v3' = [v3 EXCEPT ![r.key] = [rev |-> v2 + 1, what |-> r.doc]]
           /\ Requests(p)!AnswerWith(c, 201, v2 + 1, {}) /\ UNCHANGED <<v4, v5>>
  <2>1. v3'[r.key].what = r.doc /\ DOMAIN v3' = Setup[p].Keys
    BY <1>2, <1>6 DEF StoreTyped
  <2>2. StoreTyped(p)'
    BY <1>2, <1>6, <2>1 DEF StoreTyped
  <2>3. v1 = 0 /\ v5' = v5 /\ Requests(p)!AnswerWith(c, 201, v2 + 1, {})
    BY <1>6
  <2> QED BY <1>1, <1>2, <1>3, <2>1, <2>2, <2>3, AnsweredHonestly
<1> QED BY <1>4, <1>5, <1>6 DEF Requests!CreateGraph

LEMMA PutGraphKeeps ==
    ASSUME NEW p \in RequestParts, Requests(p)!RequestInv, NEW c \in Setup[p].Clients, Requests(p)!PutGraph(c)
    PROVE  Requests(p)!RequestInv' /\ RequestKept(p)
<1>1. v7[c] = "handler" /\ v6[c].route = "put"
  BY DEF Requests!PutGraph, Requests!At
<1>2. v7[c] # "idle" /\ Requests(p)!Authorized(v6[c]) /\ StoreTyped(p)
  BY <1>1, InHandler
<1>3. Agrees(p, c, 400) /\ Agrees(p, c, 404) /\ Agrees(p, c, 409) /\ Agrees(p, c, 200)
  BY <1>1, <1>2, GraphRoutesAgree
<1>4. CASE \E code \in {400, 404, 409} : Requests(p)!Refuse(c, code)
  BY <1>2, <1>3, <1>4, RefusedHonestly
<1>5. CASE /\ Requests(p)!Matched(c) /\ v2' = v2 + 1 /\ v1' = v2 + 1
           /\ Requests(p)!AnswerWith(c, 200, v2 + 1, {}) /\ UNCHANGED <<v3, v4, v5>>
  <2>1. StoreTyped(p)' /\ v1' # v1 /\ v1 = v6[c].match
    BY <1>2, <1>5 DEF StoreTyped, Requests!Matched
  <2>2. v5' = v5 /\ Requests(p)!AnswerWith(c, 200, v2 + 1, {})
    BY <1>5
  <2> QED BY <1>1, <1>2, <1>3, <2>1, <2>2, AnsweredHonestly
<1> QED BY <1>4, <1>5 DEF Requests!PutGraph

LEMMA DeleteGraphKeeps ==
    ASSUME NEW p \in RequestParts, Requests(p)!RequestInv, NEW c \in Setup[p].Clients, Requests(p)!DeleteGraph(c)
    PROVE  Requests(p)!RequestInv' /\ RequestKept(p)
<1> DEFINE r == v6[c]
<1>1. v7[c] = "handler" /\ r.route = "delete"
  BY DEF Requests!DeleteGraph, Requests!At
<1>2. v7[c] # "idle" /\ Requests(p)!Authorized(r) /\ StoreTyped(p) /\ r.key \in Setup[p].Keys
  BY <1>1, InHandler
<1>3. Agrees(p, c, 204) /\ Agrees(p, c, 400) /\ Agrees(p, c, 404) /\ Agrees(p, c, 409)
  BY <1>1, <1>2, GraphRoutesAgree
<1>4. CASE \E code \in {204, 400, 404, 409} : Requests(p)!Refuse(c, code)
  BY <1>2, <1>3, <1>4, RefusedHonestly
<1>5. CASE /\ Requests(p)!Matched(c) /\ v1' = 0
           /\ v4' = [v4 EXCEPT ![r.key] = [rev |-> v1, what |-> r.match]]
           /\ Requests(p)!Answer(c, 204) /\ UNCHANGED <<v2, v3, v5>>
  <2>1. DOMAIN v4' = Setup[p].Keys
    BY <1>2, <1>5 DEF StoreTyped
  <2>2. StoreTyped(p)' /\ v1 = r.match
    BY <1>2, <1>5, <2>1 DEF StoreTyped, Requests!Matched
  <2>3. v5' = v5 /\ Requests(p)!AnswerWith(c, 204, 0, {})
    BY <1>5 DEF Requests!Answer
  <2> QED BY <1>1, <1>2, <1>3, <2>2, <2>3, AnsweredHonestly
<1> QED BY <1>4, <1>5 DEF Requests!DeleteGraph

\* Why a conditional operation is refused, and what it means that it is not.
LEMMA ObjectionMeans ==
    ASSUME NEW p \in RequestParts, NEW c, NEW port
    PROVE  /\ Requests(p)!Objection(c, port) = 0 => /\ port \in Setup[p].Wired \cup {"none"}
                                                   /\ v1 # 0 /\ v1 = v6[c].match
           /\ Requests(p)!Objection(c, port) \in {0, 400, 404, 412, 501}
           /\ Requests(p)!Objection(c, port) = 400 => v6[c].flaw = "bad_etag"
           /\ Requests(p)!Objection(c, port) = 501 => port \notin Setup[p].Wired \cup {"none"}
BY DEF Requests!Objection, Requests!Decodes

\* Which ports a conditional operation needs.
LEMMA PortsOfRoutes ==
    ASSUME NEW p \in RequestParts, Requests(p)!PortsAssumption, NEW route
    PROVE  LET op == Requests(p)!Operation(route)
               has == op \in Requests(p)!Available
           IN  /\ route \in {"validate", "changes"} => has
               /\ route = "deployment" => (has <=> "preview" \in Setup[p].Wired)
               /\ route = "repair-preview" => (has <=> "repairs" \in Setup[p].Wired)
               /\ route = "repair" => (has <=> "repairs" \in Setup[p].Wired)
               /\ route = "start" => (has <=> "lifecycle" \in Setup[p].Wired)
               /\ route \in {"run", "explanation", "logs", "cancel", "replay"} => (has <=> "lifecycle" \in Setup[p].Wired)
<1>1. /\ route = "validate" => Requests(p)!Operation(route) = "graph.validate"
      /\ route = "changes" => Requests(p)!Operation(route) = "graph.change-preview"
      /\ route = "deployment" => Requests(p)!Operation(route) = "deployment.preview"
      /\ route = "repair-preview" => Requests(p)!Operation(route) = "graph.repair-preview"
      /\ route = "repair" => Requests(p)!Operation(route) = "run.repair"
      /\ route = "start" => Requests(p)!Operation(route) = "run.start"
      /\ route \in {"run", "explanation", "logs", "cancel", "replay"} =>
           Requests(p)!Operation(route) \in {"run.read", "run.explain", "run.logs", "run.cancel", "run.replay"}
  BY DEF Requests!Operation
<1>2. /\ {"graph.validate", "graph.change-preview"} \subseteq Requests(p)!Available
      /\ "deployment.preview" \in Requests(p)!Available <=> "preview" \in Setup[p].Wired
      /\ "graph.repair-preview" \in Requests(p)!Available <=> "repairs" \in Setup[p].Wired
      /\ "run.repair" \in Requests(p)!Available <=> "repairs" \in Setup[p].Wired
      /\ \A op \in {"run.start", "run.read", "run.explain", "run.logs", "run.cancel", "run.replay"} :
           op \in Requests(p)!Available <=> "lifecycle" \in Setup[p].Wired
  BY DEF Requests!Available
<1> QED BY <1>1, <1>2

LEMMA PreviewKeeps ==
    ASSUME NEW p \in RequestParts, Requests(p)!PortsAssumption, Requests(p)!RequestInv, NEW c \in Setup[p].Clients,
           Requests(p)!Preview(c)
    PROVE  Requests(p)!RequestInv' /\ RequestKept(p)
<1> DEFINE r == v6[c]
           port == Requests(p)!PreviewPort(r.route)
           why == Requests(p)!Objection(c, port)
<1>1. v7[c] = "handler" /\ r.route \in {"validate", "changes", "deployment", "repair-preview"}
  BY DEF Requests!Preview, Requests!At, Requests!Previews
<1>2. v7[c] # "idle" /\ Requests(p)!Authorized(r)
  BY <1>1, InHandler
<1>3. port = IF r.route = "deployment" THEN "preview" ELSE "none"
  BY DEF Requests!PreviewPort
<1>4. CASE why # 0 /\ Requests(p)!Refuse(c, why)
  <2>1. why \in {400, 404, 412, 501} /\ (r.flaw = "none" => why # 400) /\ (why = 501 => port \notin Setup[p].Wired \cup {"none"})
    BY <1>4, ObjectionMeans
  <2> HIDE DEF why
  <2>2. Agrees(p, c, why)
    BY <1>1, <1>2, <1>3, <2>1, PortsOfRoutes, HandlerAgrees
  <2> QED BY <1>2, <1>4, <2>1, <2>2, RefusedHonestly
<1>5. CASE r.route = "repair-preview" /\ "repairs" \notin Setup[p].Wired /\ Requests(p)!Refuse(c, 501)
  <2>1. Agrees(p, c, 501)
    BY <1>2, <1>5, PortsOfRoutes, HandlerAgrees
  <2> QED BY <1>2, <1>5, <2>1, RefusedHonestly
<1>6. CASE /\ why = 0 /\ (r.route = "repair-preview" => "repairs" \in Setup[p].Wired)
           /\ Requests(p)!Refuse(c, 200)
  <2>1. port \in Setup[p].Wired \cup {"none"}
    BY <1>6, ObjectionMeans
  <2>2. r.route = "deployment" => "preview" \in Setup[p].Wired
    BY <1>3, <2>1
  <2>3. Agrees(p, c, 200)
    BY <1>1, <1>2, <1>6, <2>2, PortsOfRoutes, HandlerAgrees
  <2> QED BY <1>1, <1>2, <1>6, <2>3, RefusedHonestly
<1>7. ASSUME NEW code \in {409, 422, 501}, r.route = "repair-preview", "repairs" \in Setup[p].Wired,
             Requests(p)!Refuse(c, code)
      PROVE  Requests(p)!RequestInv' /\ RequestKept(p)
  <2>1. Agrees(p, c, code)
    BY <1>2, <1>7, PortsOfRoutes, HandlerAgrees DEF Requests!PlanRoutes
  <2> QED BY <1>2, <1>7, <2>1, RefusedHonestly
<1> QED BY <1>4, <1>5, <1>6, <1>7 DEF Requests!Preview, Requests!RepairRefusals, Requests!PlanRefusals

LEMMA StartRunKeeps ==
    ASSUME NEW p \in RequestParts, Requests(p)!PortsAssumption, Requests(p)!RequestInv, NEW c \in Setup[p].Clients,
           Requests(p)!StartRun(c)
    PROVE  Requests(p)!RequestInv' /\ RequestKept(p)
<1> DEFINE r == v6[c]
           why == Requests(p)!Objection(c, "lifecycle")
<1>1. v7[c] = "handler" /\ r.route \in {"start", "repair"}
  BY DEF Requests!StartRun, Requests!At
<1>2. v7[c] # "idle" /\ Requests(p)!Authorized(r)
  BY <1>1, InHandler
<1>3. CASE why # 0 /\ Requests(p)!Refuse(c, why)
  <2>1. why \in {400, 404, 412, 501} /\ (r.flaw = "none" => why # 400) /\ (why = 501 => "lifecycle" \notin Setup[p].Wired)
    BY <1>3, ObjectionMeans
  <2> HIDE DEF why
  <2>2. why = 501 => "repairs" \notin Setup[p].Wired
    BY <2>1 DEF Requests!PortsAssumption
  <2>3. Agrees(p, c, why)
    BY <1>1, <1>2, <2>1, <2>2, PortsOfRoutes, HandlerAgrees
  <2> QED BY <1>2, <1>3, <2>1, <2>3, RefusedHonestly
<1>4. CASE r.route = "repair" /\ "repairs" \notin Setup[p].Wired /\ Requests(p)!Refuse(c, 501)
  <2>1. Agrees(p, c, 501)
    BY <1>2, <1>4, PortsOfRoutes, HandlerAgrees
  <2> QED BY <1>2, <1>4, <2>1, RefusedHonestly
<1>5. CASE /\ why = 0 /\ (r.route = "repair" => "repairs" \in Setup[p].Wired)
           /\ v9' = [v9 EXCEPT ![c] = v1] /\ Requests(p)!Goto(c, "start")
           /\ UNCHANGED <<Requests(p)!store, Requests(p)!told, v6, v8>>
  <2>1. "lifecycle" \in Setup[p].Wired /\ v1 = r.match
    BY <1>5, ObjectionMeans
  <2>2. UNCHANGED <<v1, v2, v3, v4, v5, v6, v8, v10, v11, v12>> /\ v7' = [v7 EXCEPT ![c] = "start"]
    BY <1>5 DEF Requests!store, Requests!told, Requests!Goto
  <2>3. DOMAIN v7 = Setup[p].Clients /\ DOMAIN v9 = Setup[p].Clients
    BY DEF Requests!RequestInv, Requests!TypeOK
  <2>4. /\ v7'[c] = "start" /\ v9'[c] = r.match
        /\ \A d \in Setup[p].Clients \ {c} : v7'[d] = v7[d] /\ v9'[d] = v9[d]
    BY <1>5, <2>1, <2>2, <2>3
  <2>5. Requests(p)!TypeOK'
    BY <1>1, <1>5, <2>2, <2>3, <2>4 DEF Requests!RequestInv, Requests!TypeOK
  <2>6. Requests(p)!ListedOK'
    BY <2>2 DEF Requests!RequestInv, Requests!ListedOK, Requests!ListedFor, Requests!MayEnter
  <2>7. Requests(p)!ClientOK(c)'
    BY <1>1, <1>2, <1>5, <2>1, <2>2, <2>4 DEF Requests!RequestInv, Requests!ClientOK, Requests!Authorized, Requests!MayEnter
  <2>8. \A d \in Setup[p].Clients \ {c} : Requests(p)!ClientOK(d)'
    BY <2>2, <2>4, ClientFrame DEF Requests!RequestInv
  <2>9. \A d \in Setup[p].Clients : ~Requests(p)!Answers(d)
    BY <2>4 DEF Requests!Answers
  <2> QED BY <2>5, <2>6, <2>7, <2>8, <2>9, UnansweredKeeps DEF Requests!RequestInv
<1>6. ASSUME NEW code \in {409, 422, 501}, r.route = "repair", "repairs" \in Setup[p].Wired,
             Requests(p)!Refuse(c, code)
      PROVE  Requests(p)!RequestInv' /\ RequestKept(p)
  <2>1. Agrees(p, c, code)
    BY <1>2, <1>6, PortsOfRoutes, HandlerAgrees DEF Requests!PlanRoutes
  <2> QED BY <1>2, <1>6, <2>1, RefusedHonestly
<1> QED BY <1>3, <1>4, <1>5, <1>6 DEF Requests!StartRun, Requests!RepairRefusals, Requests!PlanRefusals

LEMMA SubmitKeeps ==
    ASSUME NEW p \in RequestParts, Requests(p)!PortsAssumption, Requests(p)!RequestInv, NEW c \in Setup[p].Clients,
           Requests(p)!Submit(c)
    PROVE  Requests(p)!RequestInv' /\ RequestKept(p)
<1> DEFINE r == v6[c]
<1>1. /\ v7[c] = "start" /\ r.route \in {"start", "repair"} /\ v9[c] = r.match
      /\ "lifecycle" \in Setup[p].Wired /\ (r.route = "repair" => "repairs" \in Setup[p].Wired)
  BY DEF Requests!Submit, Requests!RequestInv, Requests!ClientOK
<1>2. v7[c] # "idle" /\ Requests(p)!Authorized(r) /\ StoreTyped(p) /\ r.key \in Setup[p].Keys
  BY <1>1, InHandler
<1>3. \A code \in {202, 409, 501, 503} : Agrees(p, c, code)
  BY <1>1, <1>2, PortsOfRoutes, HandlerAgrees DEF Requests!PlanRoutes
<1>4. ASSUME NEW code \in {202, 409, 501, 503}, Requests(p)!Answer(c, code), UNCHANGED <<v1, v2, v3, v4, v5>>,
             code = 202 => v5[r.key] = r.match
      PROVE  Requests(p)!RequestInv' /\ RequestKept(p)
  <2>1. Requests(p)!Refuse(c, code)
    BY <1>4 DEF Requests!Refuse, Requests!store
  <2> QED BY <1>2, <1>3, <1>4, <2>1, RefusedHonestly
<1>5. ASSUME NEW code \in {202, 503}, v5[r.key] = 0, v5' = Requests(p)!Started(c), Requests(p)!Answer(c, code),
             UNCHANGED <<v1, v2, v3, v4>>
      PROVE  Requests(p)!RequestInv' /\ RequestKept(p)
  <2>1. v5'[r.key] = r.match /\ DOMAIN v5' = Setup[p].Keys
    BY <1>1, <1>2, <1>5 DEF StoreTyped, Requests!Started
  <2>2. StoreTyped(p)'
    BY <1>2, <1>5, <2>1 DEF StoreTyped
  <2>3. v1' = v1 /\ Requests(p)!AnswerWith(c, code, 0, {})
    BY <1>5 DEF Requests!Answer
  <2> QED BY <1>1, <1>2, <1>3, <1>5, <2>1, <2>2, <2>3, AnsweredHonestly
<1> QED BY <1>1, <1>4, <1>5 DEF Requests!Submit, Requests!PlanRefusals

LEMMA RunRouteKeeps ==
    ASSUME NEW p \in RequestParts, Requests(p)!PortsAssumption, Requests(p)!RequestInv, NEW c \in Setup[p].Clients,
           Requests(p)!RunRoute(c)
    PROVE  Requests(p)!RequestInv' /\ RequestKept(p)
<1>1. v7[c] = "handler" /\ v6[c].route \in {"run", "explanation", "logs", "cancel", "replay"}
  BY DEF Requests!RunRoute, Requests!At, Requests!RunReads
<1>2. v7[c] # "idle" /\ Requests(p)!Authorized(v6[c])
  BY <1>1, InHandler
<1>3. CASE "lifecycle" \notin Setup[p].Wired /\ Requests(p)!Refuse(c, 501)
  <2>1. Agrees(p, c, 501)
    BY <1>1, <1>2, <1>3, PortsOfRoutes, HandlerAgrees
  <2> QED BY <1>1, <1>2, <1>3, <2>1, RefusedHonestly
<1>4. ASSUME "lifecycle" \in Setup[p].Wired, NEW code \in {200, 404, 409, 501, 503}, Requests(p)!Refuse(c, code),
             code = 501 => v6[c].route \in Requests(p)!PlanRoutes
      PROVE  Requests(p)!RequestInv' /\ RequestKept(p)
  <2>1. Agrees(p, c, code)
    BY <1>1, <1>2, <1>4, PortsOfRoutes, HandlerAgrees
  <2> QED BY <1>1, <1>2, <1>4, <2>1, RefusedHonestly
<1> QED BY <1>3, <1>4 DEF Requests!RunRoute, Requests!PlanRefusals

\* A step of the requests keeps their invariant and their properties.
LEMMA RequestStep ==
    ASSUME NEW p \in RequestParts, Requests(p)!PortsAssumption, Requests(p)!RequestInv,
           [Requests(p)!Next]_(Requests(p)!vars)
    PROVE  Requests(p)!RequestInv' /\ RequestKept(p)
<1>1. CASE UNCHANGED Requests(p)!vars
  <2>1. UNCHANGED <<v1, v2, v3, v4, v5, v6, v7, v8, v9, v10, v11, v12>>
    BY <1>1 DEF Requests!vars, Requests!store, Requests!told
  <2>2. Requests(p)!TypeOK'
    BY <2>1 DEF Requests!RequestInv, Requests!TypeOK
  <2>3. Requests(p)!ListedOK'
    BY <2>1 DEF Requests!RequestInv, Requests!ListedOK, Requests!ListedFor, Requests!MayEnter
  <2>4. \A c \in Setup[p].Clients : Requests(p)!ClientOK(c)' /\ ~Requests(p)!Answers(c)
    BY <2>1, ClientFrame DEF Requests!RequestInv, Requests!Answers
  <2> QED BY <2>2, <2>3, <2>4, UnansweredKeeps DEF Requests!RequestInv
<1>2. CASE Requests(p)!Next
  BY <1>2, SendKeeps, AdmitKeeps, AuthenticateKeeps, ReadRequestKeeps, GetGraphKeeps, CapabilitiesKeeps,
     CreateGraphKeeps, PutGraphKeeps, DeleteGraphKeeps, PreviewKeeps, StartRunKeeps, SubmitKeeps, RunRouteKeeps
     DEF Requests!Next, Requests!Handler
<1> QED BY <1>1, <1>2

\* A step of the suite in the requests is a step of ControlRequests.
LEMMA RequestStepOfPart ==
    ASSUME [Next]_suiteVars, NEW p \in RequestParts, part = p
    PROVE  [Requests(p)!Next]_(Requests(p)!vars)
<1>1. CASE UNCHANGED suiteVars
  BY <1>1 DEF suiteVars, Requests!vars, Requests!store, Requests!told
<1>2. CASE Next
  BY <1>2 DEF Next, StoreParts, ReadParts, ListParts, RequestParts, SelectParts, BackendParts, SparkParts
<1> QED BY <1>1, <1>2

\* The requests of each part.
RequestsInv == \A p \in RequestParts : part = p => Requests(p)!RequestInv

\* For any clients, principals, roles, routes, ports and faults: no editor's work
\* is destroyed unseen, only a client whose roles allow it changes anything, an
\* answer is honest about what happened, an operation that was listed is not
\* refused as forbidden or unavailable, a run is of the revision its request
\* named, and a repeated start is answered with the run that it started.
THEOREM RequestsAreAnsweredHonestly == Spec => AnswersAreHonest
<1>1. Init => RequestsInv
  BY InitOfPart, RequestInitial DEF RequestsInv
<1>2. ASSUME RequestsInv, [Next]_suiteVars
      PROVE  /\ RequestsInv'
             /\ \A p \in RequestParts : part = p =>
                  /\ Requests(p)!EditsWereSeen /\ Requests(p)!OnlyCapable
                  /\ Requests(p)!AnswersAreHonest /\ Requests(p)!ListedIsHonoured
                  /\ Requests(p)!RunsAreWhatWasAsked
  BY <1>2, StepOfPart, RequestStepOfPart, RequestStep, InstancesAssumption DEF RequestsInv, RequestKept
<1>3. ASSUME SelectionsInv, [Next]_suiteVars PROVE part = "retries" => Select("retries")!AnsweredWithItsRun
  BY <1>3, SelectStepOfPart, AnsweredStep, InstancesAssumption DEF SelectionsInv, SelectParts
<1> QED BY <1>1, <1>2, <1>3, SelectionsInductive, PTL DEF Spec, AnswersAreHonest

=============================================================================
