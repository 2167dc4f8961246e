---------------------------- MODULE HostedRollout ----------------------------
(***************************************************************************)
(* Deploying the hosted Control profile: the operator renders a source     *)
(* input into projection files, passes preflight, applies the active or    *)
(* the rollback file, the provider rolls both workloads over in its own    *)
(* time, and the read-only verifier reads the live resources one by one    *)
(* (deployment/aws_control_plane.py, gcp_control_plane.py,                 *)
(* kubernetes_control_plane.py).                                           *)
(*                                                                         *)
(* A revision is an image (active or rollback) and the input its startup   *)
(* configuration was rendered from.  Fields that a projection fixes (ports,*)
(* roles, mounts, cache policies) are part of that configuration.          *)
(***************************************************************************)
EXTENDS Naturals, FiniteSets

CONSTANTS
  None,
  Provider,   \* "aws", "gcp" or "kubernetes"
  Inputs,     \* versions of the source input
  MaxApplies  \* bound: how often the operator applies

RolloutAssumption ==
  /\ Provider \in {"aws", "gcp", "kubernetes"}
  /\ Inputs # {} /\ MaxApplies \in Nat

Workloads == {"control", "druff"}
Environments == {"active", "rollback"}
Files == Environments \cup {"deployment"}

(* What an apply changes at once, beside the workloads. *)
Resources == CASE Provider = "aws" -> {"distribution", "schedules"}
               [] Provider = "gcp" -> {"policies"}
               [] Provider = "kubernetes" -> {"ingress"}

Revision(env, input) == [image |-> env, config |-> input]
Revisions == [image : Environments, config : Inputs]

VARIABLES
  disk,       \* which input each projection file was rendered from
  writing,    \* the render in progress: its input and the files left
  preflight,  \* the input that preflight accepted, while the files are unchanged
  applying,   \* the apply in progress: its revision and the workloads left
  applies,    \* how many applies were started
  spec,       \* what each service is asked to run
  running,    \* what each service runs
  rollout,    \* whether the provider has finished moving it
  resource,   \* the input each other resource was applied from
  ready,      \* whether the workload's status reports a ready instance
  verify      \* the verification in progress, or its outcome

operator == <<disk, writing, preflight>>
live == <<spec, running, rollout, resource, ready>>
vars == <<operator, applying, applies, live, verify>>

NoVerify == [pc |-> "none", env |-> None, input |-> None, left |-> {},
             disturbed |-> FALSE]

Init ==
  /\ \E i \in Inputs :
       /\ disk = [f \in Files |-> i]
       /\ spec = [w \in Workloads |-> Revision("active", i)]
       /\ resource = [r \in Resources |-> i]
  /\ running = spec
  /\ rollout = [w \in Workloads |-> "stable"] /\ ready = [w \in Workloads |-> TRUE]
  /\ writing = None /\ preflight = None /\ applying = None /\ applies = 0
  /\ verify = NoVerify

(***************************************************************************)
(* The operator's files.                                                   *)
(***************************************************************************)
(* Every projection file is the one this input renders to. *)
FilesCurrent(i) == \A f \in Files : disk[f] = i

(* The operator runs one command at a time; an apply may be verified while  *)
(* it is under way.                                                         *)
Unoccupied == writing = None /\ applying = None /\ verify.pc # "reading"

Render(i) ==
  /\ Unoccupied
  /\ writing' = [input |-> i, left |-> Files, check |-> FALSE]
  /\ preflight' = None
  /\ UNCHANGED <<disk, applying, applies, live, verify>>

(* One file is replaced atomically; the set of files is not. *)
WriteFile ==
  /\ writing # None /\ writing.left # {}
  /\ \E f \in writing.left :
       /\ disk' = [disk EXCEPT ![f] = writing.input]
       /\ writing' = [writing EXCEPT !.left = @ \ {f}]
  /\ UNCHANGED <<preflight, applying, applies, live, verify>>

RenderDone ==
  /\ writing # None /\ writing.left = {}
  /\ preflight' = IF writing.check THEN writing.input ELSE None
  /\ writing' = None
  /\ UNCHANGED <<disk, applying, applies, live, verify>>

(* The command dies between two files. *)
RenderCrash ==
  /\ writing # None /\ writing.left # {}
  /\ writing' = None
  /\ UNCHANGED <<disk, preflight, applying, applies, live, verify>>

(* AWS preflight renders again before it validates; the others compare the  *)
(* files on disk with a fresh rendering.                                    *)
Preflight(i) ==
  /\ Unoccupied /\ preflight # i
  /\ IF Provider = "aws"
       THEN /\ writing' = [input |-> i, left |-> Files, check |-> TRUE]
            /\ preflight' = None
       ELSE FilesCurrent(i) /\ preflight' = i /\ UNCHANGED writing
  /\ UNCHANGED <<disk, applying, applies, live, verify>>

(***************************************************************************)
(* Applying and rolling over.                                              *)
(***************************************************************************)
(* The reviewed plan is applied from the file of that environment. *)
Apply(env) ==
  /\ preflight # None /\ writing = None /\ applying = None /\ applies < MaxApplies
  /\ applies' = applies + 1
  /\ applying' = [revision |-> Revision(env, disk[env]), left |-> Workloads \cup Resources]
  /\ verify' = IF verify.pc = "reading" THEN [verify EXCEPT !.disturbed = TRUE]
               ELSE NoVerify
  /\ UNCHANGED <<operator, live>>

(* One resource or service at a time is updated, in any order; an update of *)
(* a service that changes nothing rolls nothing.                            *)
ApplyPart(w) ==
  /\ applying # None /\ w \in applying.left
  /\ applying' = IF applying.left = {w} THEN None
                 ELSE [applying EXCEPT !.left = @ \ {w}]
  /\ UNCHANGED <<operator, applies, running, ready, verify>>

ApplyResource(r) ==
  /\ ApplyPart(r)
  /\ resource' = [resource EXCEPT ![r] = applying.revision.config]
  /\ UNCHANGED <<spec, rollout>>

ApplyWorkload(w) ==
  /\ ApplyPart(w)
  /\ spec' = [spec EXCEPT ![w] = applying.revision]
  /\ rollout' = [rollout EXCEPT ![w] =
                  IF spec[w] = applying.revision /\ rollout[w] = "stable"
                  THEN "stable" ELSE "moving"]
  /\ UNCHANGED resource

(* The apply fails with some services not updated. *)
ApplyFails ==
  /\ applying # None
  /\ applying' = None
  /\ UNCHANGED <<operator, applies, live, verify>>

(* Kubernetes deletes the Control pod first (Recreate); every provider      *)
(* keeps the old instance of the other workloads until the new one serves.  *)
TakesDown(w) ==
  /\ Provider = "kubernetes" /\ w = "control" /\ rollout[w] = "moving" /\ ready[w]
  /\ ready' = [ready EXCEPT ![w] = FALSE]
  /\ UNCHANGED <<operator, applying, applies, spec, running, rollout, resource, verify>>

RolloutDone(w) ==
  /\ rollout[w] = "moving"
  /\ Provider = "kubernetes" /\ w = "control" => ~ready[w]
  /\ running' = [running EXCEPT ![w] = spec[w]]
  /\ rollout' = [rollout EXCEPT ![w] = "stable"]
  /\ ready' = [ready EXCEPT ![w] = TRUE]
  /\ UNCHANGED <<operator, applying, applies, spec, resource, verify>>

(* The new instances never become healthy.  The ECS circuit breaker goes    *)
(* back to the old task definition; elsewhere the rollout stays where it is.*)
RolloutFails(w) ==
  /\ rollout[w] = "moving"
  /\ IF Provider = "aws"
       THEN /\ spec' = [spec EXCEPT ![w] = running[w]]
            /\ rollout' = [rollout EXCEPT ![w] = "stable"]
       ELSE rollout' = [rollout EXCEPT ![w] = "stuck"] /\ UNCHANGED spec
  /\ UNCHANGED <<operator, applying, applies, running, resource, ready, verify>>

(***************************************************************************)
(* The live verifier.                                                      *)
(***************************************************************************)
(* The AWS verifier reads the distribution and both services first and the  *)
(* tasks after them.                                                        *)
FirstReads == Resources \cup (IF Provider = "aws" THEN {"services"} ELSE {})

(* GCP and Kubernetes compare the projection files before they read. *)
StartVerify(i, env) ==
  /\ verify.pc \in {"none", "passed", "failed"} /\ writing = None
  /\ Provider # "aws" => FilesCurrent(i)
  /\ verify' = [pc |-> "reading", env |-> env, input |-> i,
                left |-> Workloads \cup FirstReads \cup {"probes"},
                disturbed |-> applying # None]
  /\ UNCHANGED <<operator, applying, applies, live>>

Selected == Revision(verify.env, verify.input)

(* ECS: exactly one deployment each, one task running and none pending. *)
ServicesStable == \A w \in Workloads : rollout[w] = "stable"

(* AWS: the running task's image and its definition's configuration. *)
TaskExact(w) == running[w] = Selected

(* Cloud Run: the template, and generations, created, ready and serving     *)
(* revision that agree.                                                     *)
RevisionExact(w) == spec[w] = Selected /\ rollout[w] = "stable"

(* Kubernetes: the deployment's template and its ready replicas. *)
DeploymentExact(w) == spec[w] = Selected /\ ready[w]

WorkloadExact(w) ==
  CASE Provider = "aws" -> TaskExact(w)
    [] Provider = "gcp" -> RevisionExact(w)
    [] Provider = "kubernetes" -> DeploymentExact(w)

(* The queues and one EventBridge schedule per trigger. *)
SchedulingExact == resource["schedules"] = verify.input

(* The distribution, its cache policies and the load balancer behind it. *)
DistributionExact == resource["distribution"] = verify.input

(* The graph bucket, its policy and the runtime identities. *)
PoliciesExact == resource["policies"] = verify.input

(* Services, claim and routes. *)
IngressExact == resource["ingress"] = verify.input

(* The public probes and the served bootstrap document. *)
ProbesExact ==
  ready["control"] /\ ready["druff"] /\ running["druff"].config = verify.input

Order(r) ==
  CASE r \in {"distribution", "ingress"} -> IF Provider = "aws" THEN 0 ELSE 4
    [] r = "services" -> 1 [] r = "control" -> 2 [] r = "druff" -> 3
    [] r \in {"schedules", "policies"} -> 4 [] r = "probes" -> 5

VerifyRead ==
  /\ verify.pc = "reading" /\ verify.left # {}
  /\ \E r \in verify.left :
       /\ \A q \in verify.left : Order(r) =< Order(q)
       /\ LET exact == CASE r = "services" -> ServicesStable
                         [] r = "distribution" -> DistributionExact
                         [] r = "schedules" -> SchedulingExact
                         [] r = "policies" -> PoliciesExact
                         [] r = "ingress" -> IngressExact
                         [] r = "probes" -> ProbesExact
                         [] OTHER -> WorkloadExact(r)
          IN verify' = IF ~exact THEN [NoVerify EXCEPT !.pc = "failed"]
                       ELSE IF verify.left = {r} THEN [verify EXCEPT !.pc = "passed", !.left = {}]
                       ELSE [verify EXCEPT !.left = @ \ {r}]
  /\ UNCHANGED <<operator, applying, applies, live>>

Next ==
  \/ \E i \in Inputs : Render(i) \/ Preflight(i)
  \/ \E i \in Inputs, env \in Environments : StartVerify(i, env)
  \/ \E env \in Environments : Apply(env)
  \/ WriteFile \/ RenderDone \/ RenderCrash \/ ApplyFails \/ VerifyRead
  \/ \E w \in Workloads :
       ApplyWorkload(w) \/ RolloutDone(w) \/ RolloutFails(w)
  \/ \E w \in Workloads : TakesDown(w)
  \/ \E r \in Resources : ApplyResource(r)

Spec == Init /\ [][Next]_vars

(***************************************************************************)
(* Properties.                                                             *)
(***************************************************************************)
TypeOK ==
  /\ disk \in [Files -> Inputs] /\ preflight \in Inputs \cup {None}
  /\ spec \in [Workloads -> Revisions] /\ running \in [Workloads -> Revisions]
  /\ rollout \in [Workloads -> {"stable", "moving", "stuck"}]
  /\ resource \in [Resources -> Inputs] /\ ready \in [Workloads -> BOOLEAN]

(* A verification that passed, with no apply since it began, means that     *)
(* both workloads run the selected image with the selected configuration    *)
(* and every other resource is the selected one: reading the resources one by one during a rollout, or after the circuit  *)
(* breaker went back, does not pass (verify_live_*_control_plane).          *)
VerifiedIsRunning ==
  verify.pc = "passed" /\ ~verify.disturbed =>
    /\ \A w \in Workloads : running[w] = Selected
    /\ \A r \in Resources : resource[r] = verify.input

(* Applying the rollback file of a deployment that passed preflight changes *)
(* the images and never the configuration, although a render that died may  *)
(* have left files of two inputs behind.                                    *)
RollbackChangesImagesOnly ==
  applying # None => applying.revision.config = preflight
=============================================================================
