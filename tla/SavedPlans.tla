------------------------------ MODULE SavedPlans ------------------------------
(***************************************************************************)
(* The saved-plan lifecycles of the AWS, Azure and OCI platform            *)
(* deployments: a `plan` command validates a deployment, selects its       *)
(* remote state and leaves one Terraform plan file behind; after a review  *)
(* an `apply` command carries out the file that is there; OCI has a        *)
(* `verify` command that compares and changes nothing.                     *)
(*                                                                         *)
(* AWS and Azure keep the plan and the selected backend in the project's   *)
(* infra directory, OCI in the operator's own artifact directory: Dir says *)
(* which directory an operator works in.  Terraform is external: a saved   *)
(* plan remembers the backend and the serial of the state it was made      *)
(* from, apply refuses a plan whose state has moved on, plan and apply     *)
(* need the state's lock, and an apply can stop after any resource.        *)
(***************************************************************************)
EXTENDS Naturals, FiniteSets

CONSTANTS
    Cloud,        \* "aws", "azure" or "oci"
    Operators,    \* people who run the commands, one command at a time
    Dir,          \* the directory each operator works in
    Deployments,  \* deployments, each with a backend, an account and a registry
    Pipelines,    \* pipelines a deployment may run, one job each
    Inputs,       \* the inputs plan and verify are called with
    Absent,       \* no resource, no plan
    MaxSerial,    \* bound: the serial of a deployment's state
    MaxFailures,  \* bound: Terraform commands that fail
    MaxDrift,     \* bound: changes made to resources behind Terraform's back
    CanBeKilled   \* a command's process may be killed between two steps

CloudAssumption == Cloud \in {"aws", "azure", "oci"}
DirAssumption == Operators \subseteq DOMAIN Dir

VARIABLES
    selected,  \* backend selected by the last `terraform init` of a directory
    saved,     \* plan file of a directory
    command,   \* the command each operator is running
    told,      \* plan last announced to each operator, and reviewed by them
    live,      \* resources of each deployment's state, as they really are
    serial,    \* serial of each deployment's state
    lock,      \* operator whose Terraform holds the lock of a state
    faults     \* failures and drift so far

vars == <<selected, saved, command, told, live, serial, lock, faults>>

Directories == {Dir[o] : o \in Operators}

\* What Terraform manages: the network, vault, identities and roles as one
\* resource, and one job for each pipeline.
Resources == {"foundation"} \union Pipelines

-----------------------------------------------------------------------------
(* What a plan command accepts.                                            *)

\* The AWS data planes: the Google one needs its project, the native one
\* takes neither a project nor the Google free-tier guard.
AwsProfileContext(i) ==
    IF i.profile = "gcp" THEN i.project ELSE ~i.project /\ ~i.guarded

AwsNativeProfile(i) == i.profile = "native" => i.role

\* At least one pipeline, an image in the launcher's own account and region,
\* and one of the two data planes.
AwsAccepts(i) ==
    /\ i.pipelines # {}
    /\ i.image = i.deployment
    /\ AwsProfileContext(i)
    /\ AwsNativeProfile(i)

\* A project selects the Google composition, none the canonical one.
AzurePlatformProfile(i) == i.project <=> (i.profile = "gcp")

\* Pipelines whose projection binds a Key Vault secret.
HasKeyVaultBindings(i) == i.profile = "canonical" /\ i.vault \intersect i.pipelines # {}

\* The image is in the selected registry, the subnet (where there is one) in
\* the selected subscription, and Key Vault references need a subnet.
AzureAccepts(i) ==
    /\ i.pipelines # {}
    /\ AzurePlatformProfile(i)
    /\ i.image = i.deployment
    /\ i.subnet \in {Absent, i.deployment}
    /\ HasKeyVaultBindings(i) => i.subnet # Absent

\* The manifest must be of the deployment the arguments name, and the
\* controller image in its repository.
OciDeploymentProjections(i) ==
    i.manifest = i.deployment /\ i.image = i.deployment /\ i.pipelines # {}

\* Controller image, digest and projections come together or not at all.
OciControllerArgs(i) ==
    i.controller = {} \/ i.controller = {"image", "digest", "projections"}

OciAccepts(i) ==
    /\ OciControllerArgs(i)
    /\ "projections" \in i.controller => OciDeploymentProjections(i)

Accepts(i) ==
    CASE Cloud = "aws" -> AwsAccepts(i)
      [] Cloud = "azure" -> AzureAccepts(i)
      [] Cloud = "oci" -> OciAccepts(i)

-----------------------------------------------------------------------------
(* What a plan command asks for.                                           *)

\* The overlay baked into an AWS job is rendered for its own pipeline alone,
\* so that it carries no other pipeline's secret bindings.
AwsRuntimePlatformsConfig(i, p) == {p}

AzureRuntimePlatformsConfig(i, p) == {p}

\* OCI jobs have no overlay.
RuntimePlatformsConfig(i, p) ==
    CASE Cloud = "aws" -> AwsRuntimePlatformsConfig(i, p)
      [] Cloud = "azure" -> AzureRuntimePlatformsConfig(i, p)
      [] Cloud = "oci" -> {}

Projection(i, p) ==
    [deployment |-> i.deployment, image |-> i.image, release |-> i.release,
     scope |-> RuntimePlatformsConfig(i, p)]

\* A foundation-only Azure plan and an OCI plan without a controller have no
\* jobs.
CreatesJobs(i) ==
    CASE Cloud = "aws" -> TRUE
      [] Cloud = "azure" -> ~i.foundation
      [] Cloud = "oci" -> i.controller # {}

FoundationOnly(i) == Cloud = "azure" /\ i.foundation

Wanted(i) ==
    [r \in Resources |->
        IF r = "foundation"
        THEN [deployment |-> i.deployment, subnet |-> IF Cloud = "azure" THEN i.subnet ELSE Absent]
        ELSE IF CreatesJobs(i) /\ r \in i.pipelines THEN Projection(i, r) ELSE Absent]

-----------------------------------------------------------------------------
(* Terraform (external).                                                   *)

\* The resources that differ, as the refreshing plan finds them.
Changes(k, wants) == {r \in Resources : live[k][r] # wants[r]}

\* A plan: the backend it is for, the state it starts from, and what to do.
\* `foundation` is the mode it was asked for in.
PlanOf(k, i) ==
    [backend |-> k, serial |-> serial[k], wants |-> Wanted(i),
     changes |-> Changes(k, Wanted(i)),
     replaced |-> {r \in Changes(k, Wanted(i)) : live[k][r] # Absent},
     foundation |-> FoundationOnly(i)]

Idle == [at |-> "idle"]

CanFail == faults.failures < MaxFailures

Failed == faults' = [faults EXCEPT !.failures = @ + 1]

-----------------------------------------------------------------------------
(* plan                                                                    *)

\* OCI's workspace: the plan of an earlier command is deleted before a new
\* one is made.  AWS and Azure leave it.
Prepare(o) ==
    saved' = IF Cloud = "oci" THEN [saved EXCEPT ![Dir[o]] = Absent] ELSE saved

StartPlan(o, i) ==
    /\ command[o].at = "idle"
    /\ Accepts(i)
    /\ Prepare(o)
    /\ command' = [command EXCEPT ![o] = [at |-> "init_plan", input |-> i]]
    /\ UNCHANGED <<selected, told, live, serial, lock, faults>>

\* terraform init -reconfigure with the deployment's backend arguments.
InitPlan(o) ==
    /\ command[o].at = "init_plan"
    /\ selected' = [selected EXCEPT ![Dir[o]] = command[o].input.deployment]
    /\ command' = [command EXCEPT ![o].at = "plan"]
    /\ UNCHANGED <<saved, told, live, serial, lock, faults>>

\* The command succeeds: it names the plan file, and the operator reviews it.
Announce(o, plan) ==
    /\ told' = [told EXCEPT ![o] = plan]
    /\ command' = [command EXCEPT ![o] = Idle]

\* terraform plan -out; a foundation-only plan still has to be shown.  Azure
\* then makes the file private: should that fail, the plan is left with nobody
\* told of it, as after a kill, and is not modelled.
Plan(o) ==
    /\ command[o].at = "plan"
    /\ selected[Dir[o]] # Absent
    /\ LET k == selected[Dir[o]]
           i == command[o].input
           plan == PlanOf(k, i)
       IN  /\ lock[k] = Absent
           /\ saved' = [saved EXCEPT ![Dir[o]] = plan]
           /\ IF FoundationOnly(i)
              THEN /\ command' = [command EXCEPT ![o].at = "show"]
                   /\ UNCHANGED told
              ELSE Announce(o, plan)
    /\ UNCHANGED <<selected, live, serial, lock, faults>>

MutPlanUnchecked(o) ==
    /\ command[o].at = "plan"
    /\ CanFail /\ Failed
    /\ IF saved[Dir[o]] = Absent
       THEN /\ command' = [command EXCEPT ![o] = Idle]
            /\ UNCHANGED told
       ELSE Announce(o, PlanOf(selected[Dir[o]], command[o].input))
    /\ UNCHANGED <<selected, saved, live, serial, lock>>

\* Terraform writes no file when the plan fails or its state is locked: an
\* earlier one stays.
PlanFails(o) ==
    /\ command[o].at = "plan"
    /\ IF lock[selected[Dir[o]]] # Absent THEN UNCHANGED faults ELSE CanFail /\ Failed
    /\ command' = [command EXCEPT ![o] = Idle]
    /\ UNCHANGED <<selected, saved, told, live, serial, lock>>

DiscardPlan(o) == saved' = [saved EXCEPT ![Dir[o]] = Absent]

MutatesExisting(plan) == plan.replaced # {}

\* terraform show -json: a foundation plan that updates or deletes anything
\* is discarded and the command fails.
AssertFoundationPlanIsAdditive(o) ==
    /\ command[o].at = "show"
    /\ saved[Dir[o]] # Absent
    /\ IF MutatesExisting(saved[Dir[o]])
       THEN /\ DiscardPlan(o)
            /\ command' = [command EXCEPT ![o] = Idle]
            /\ UNCHANGED told
       ELSE Announce(o, saved[Dir[o]]) /\ UNCHANGED saved
    /\ UNCHANGED <<selected, live, serial, lock, faults>>

\* A plan that cannot be shown is discarded as well.
ShowFails(o) ==
    /\ command[o].at = "show"
    /\ CanFail /\ Failed
    /\ DiscardPlan(o)
    /\ command' = [command EXCEPT ![o] = Idle]
    /\ UNCHANGED <<selected, told, live, serial, lock>>

-----------------------------------------------------------------------------
(* apply                                                                   *)

\* The operator confirms; without a plan file the command fails at once.
StartApply(o) ==
    /\ command[o].at = "idle"
    /\ told[o] # Absent
    /\ saved[Dir[o]] # Absent
    /\ serial[saved[Dir[o]].backend] + Cardinality(saved[Dir[o]].changes) <= MaxSerial
    /\ command' = [command EXCEPT ![o] = [at |-> "init_apply"]]
    /\ UNCHANGED <<selected, saved, told, live, serial, lock, faults>>

\* terraform init -reconfigure with the arguments the plan command printed.
InitApply(o) ==
    /\ command[o].at = "init_apply"
    /\ selected' = [selected EXCEPT ![Dir[o]] = told[o].wants["foundation"].deployment]
    /\ command' = [command EXCEPT ![o].at = "apply"]
    /\ UNCHANGED <<saved, told, live, serial, lock, faults>>

\* Whether Terraform carries the plan out: it is there, its state has not
\* moved on and is not locked.
Applicable(plan) ==
    plan # Absent /\ serial[plan.backend] = plan.serial /\ lock[plan.backend] = Absent

\* terraform apply of the file that is there, in the plan's own backend.
BeginApply(o) ==
    /\ command[o].at = "apply"
    /\ LET plan == saved[Dir[o]]
       IN  /\ Applicable(plan)
           /\ lock' = [lock EXCEPT ![plan.backend] = o]
           /\ command' = [command EXCEPT ![o] =
                  [at |-> "applying", plan |-> plan, left |-> plan.changes]]
    /\ UNCHANGED <<selected, saved, told, live, serial, faults>>

ApplyRefused(o) ==
    /\ command[o].at = "apply"
    /\ ~Applicable(saved[Dir[o]])
    /\ command' = [command EXCEPT ![o] = Idle]
    /\ UNCHANGED <<selected, saved, told, live, serial, lock, faults>>

\* One resource is created, updated or destroyed, the foundation first.
ApplyResource(o, r) ==
    /\ command[o].at = "applying"
    /\ r \in command[o].left
    /\ "foundation" \in command[o].left => r = "foundation"
    /\ LET k == command[o].plan.backend
       IN  /\ live' = [live EXCEPT ![k][r] = command[o].plan.wants[r]]
           /\ serial' = [serial EXCEPT ![k] = @ + 1]
    /\ command' = [command EXCEPT ![o].left = @ \ {r}]
    /\ UNCHANGED <<selected, saved, told, lock, faults>>

\* The apply ends, having done everything or having failed on the way.
EndApply(o) ==
    /\ command[o].at = "applying"
    /\ IF command[o].left = {} THEN UNCHANGED faults ELSE CanFail /\ Failed
    /\ lock' = [lock EXCEPT ![command[o].plan.backend] = Absent]
    /\ command' = [command EXCEPT ![o] = Idle]
    /\ UNCHANGED <<selected, saved, told, live, serial>>

\* An init that fails ends its command.
InitFails(o) ==
    /\ command[o].at \in {"init_plan", "init_apply", "init_verify"}
    /\ CanFail /\ Failed
    /\ command' = [command EXCEPT ![o] = Idle]
    /\ UNCHANGED <<selected, saved, told, live, serial, lock>>

-----------------------------------------------------------------------------
(* verify (OCI)                                                            *)

MutVerifyPrepares(o, i) ==
    /\ Cloud = "oci"
    /\ command[o].at = "idle"
    /\ Accepts(i)
    /\ Prepare(o)
    /\ command' = [command EXCEPT ![o] = [at |-> "init_verify", input |-> i]]
    /\ UNCHANGED <<selected, told, live, serial, lock, faults>>

\* The workspace is prepared with the saved plan preserved.
StartVerify(o, i) ==
    /\ Cloud = "oci"
    /\ command[o].at = "idle"
    /\ Accepts(i)
    /\ command' = [command EXCEPT ![o] = [at |-> "init_verify", input |-> i]]
    /\ UNCHANGED <<selected, saved, told, live, serial, lock, faults>>

InitVerify(o) ==
    /\ command[o].at = "init_verify"
    /\ selected' = [selected EXCEPT ![Dir[o]] = command[o].input.deployment]
    /\ command' = [command EXCEPT ![o].at = "verify"]
    /\ UNCHANGED <<saved, told, live, serial, lock, faults>>

\* terraform plan -detailed-exitcode: 0 says no drift, 2 says drift, and any
\* other exit (here: a locked state) is an error without a verdict.
VerifyNoDrift(o) ==
    /\ command[o].at = "verify"
    /\ LET k == selected[Dir[o]]
       IN  command' = [command EXCEPT ![o].at =
               CASE lock[k] # Absent -> "error"
                 [] lock[k] = Absent /\ Changes(k, Wanted(command[o].input)) = {} -> "no_drift"
                 [] OTHER -> "drift"]
    /\ UNCHANGED <<selected, saved, told, live, serial, lock, faults>>

\* The verdict is printed and the command ends.
PrintVerdict(o) ==
    /\ command[o].at \in {"error", "no_drift", "drift"}
    /\ command' = [command EXCEPT ![o] = Idle]
    /\ UNCHANGED <<selected, saved, told, live, serial, lock, faults>>

-----------------------------------------------------------------------------
(* The environment.                                                        *)

\* A command's process dies; the lock of an apply stays behind.
Kill(o) ==
    /\ CanBeKilled
    /\ command[o].at # "idle"
    /\ command' = [command EXCEPT ![o] = Idle]
    /\ UNCHANGED <<selected, saved, told, live, serial, lock, faults>>

\* An operator removes a lock whose holder is gone.
ForceUnlock(k) ==
    /\ lock[k] # Absent
    /\ command[lock[k]].at # "applying"
    /\ lock' = [lock EXCEPT ![k] = Absent]
    /\ UNCHANGED <<selected, saved, command, told, live, serial, faults>>

\* Somebody removes a resource behind Terraform's back.
Drift(k, r) ==
    /\ faults.drift < MaxDrift
    /\ live[k][r] # Absent
    /\ live' = [live EXCEPT ![k][r] = Absent]
    /\ faults' = [faults EXCEPT !.drift = @ + 1]
    /\ UNCHANGED <<selected, saved, command, told, serial, lock>>

-----------------------------------------------------------------------------

Init ==
    /\ selected = [d \in Directories |-> Absent]
    /\ saved = [d \in Directories |-> Absent]
    /\ command = [o \in Operators |-> Idle]
    /\ told = [o \in Operators |-> Absent]
    /\ live = [k \in Deployments |-> [r \in Resources |-> Absent]]
    /\ serial = [k \in Deployments |-> 0]
    /\ lock = [k \in Deployments |-> Absent]
    /\ faults = [failures |-> 0, drift |-> 0]

\* The steps of a command that is under way.
Step(o) ==
    \/ InitPlan(o) \/ Plan(o) \/ AssertFoundationPlanIsAdditive(o)
    \/ InitApply(o) \/ BeginApply(o) \/ ApplyRefused(o)
    \/ (\E r \in Resources : ApplyResource(o, r)) \/ EndApply(o)
    \/ InitVerify(o) \/ VerifyNoDrift(o) \/ PrintVerdict(o)

Next ==
    \/ \E o \in Operators :
        \/ \E i \in Inputs : StartPlan(o, i) \/ StartVerify(o, i)
        \/ StartApply(o) \/ Step(o)
        \/ PlanFails(o) \/ ShowFails(o) \/ InitFails(o) \/ Kill(o)
    \/ \E k \in Deployments : ForceUnlock(k) \/ \E r \in Resources : Drift(k, r)

Spec == Init /\ [][Next]_vars

-----------------------------------------------------------------------------
(* Properties.                                                             *)

\* Type correctness of the directories, commands and states.
TypeOK ==
    /\ selected \in [Directories -> Deployments \union {Absent}]
    /\ \A d \in Directories : saved[d] = Absent \/ saved[d].backend \in Deployments
    /\ \A o \in Operators : command[o].at \in
         {"idle", "init_plan", "plan", "show", "init_apply", "apply", "applying",
          "init_verify", "verify", "no_drift", "drift", "error"}
    /\ serial \in [Deployments -> 0..MaxSerial]
    /\ lock \in [Deployments -> Operators \union {Absent}]
    /\ faults \in [failures : 0..MaxFailures, drift : 0..MaxDrift]

\* Apply commands carry out "only the previously reviewed" plan: what an
\* operator's apply is doing is the plan that was announced to that operator.
AppliedWasReviewed ==
    \A o \in Operators : command[o].at = "applying" => command[o].plan = told[o]

\* A deployment's state holds resources of that deployment only, running an
\* image of its own registry: no sequence of plans and applies for several
\* deployments in one directory carries one's resources into another's state.
OwnResources ==
    \A k \in Deployments, r \in Resources :
        live[k][r] # Absent =>
            /\ live[k][r].deployment = k
            /\ r \in Pipelines => live[k][r].image = k

\* A job that runs was never given the secret bindings of another pipeline.
LeastScope ==
    \A k \in Deployments, p \in Pipelines :
        live[k][p] # Absent => live[k][p].scope \subseteq {p}

\* Foundation mode "rejects and discards any plan that would update or delete
\* an existing resource": carrying out a foundation-only plan never changes a
\* resource that exists.
FoundationIsAdditive ==
    \A o \in Operators, r \in Resources :
        (ApplyResource(o, r) /\ command[o].plan.foundation) =>
            live[command[o].plan.backend][r] = Absent

\* A plan the operator was told of stays until that directory plans again:
\* a verify, an apply or a failed apply never takes it away.
PlanIsKept ==
    \A d \in Directories :
        (saved[d] # Absent /\ saved'[d] = Absent) =>
            \E o \in Operators : Dir[o] = d /\ command'[o].at \in {"init_plan", "idle"}
                /\ (command'[o].at = "idle" => command[o].at = "show")

\* A verify that reports no drift does so when the deployment it was asked
\* about has exactly the resources it was asked for.
VerdictIsHonest ==
    \A o \in Operators :
        (command[o].at = "verify" /\ command'[o].at = "no_drift") =>
            live[command[o].input.deployment] = Wanted(command[o].input)

\* Operators who keep planning and applying arrive at what they asked for,
\* whatever finite number of plans, applies and inits fail and resources are
\* lost on the way.
Converges == \A i \in Inputs : <>[](live[i.deployment] = Wanted(i))
=============================================================================
