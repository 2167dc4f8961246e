------------------------------- MODULE StageZero -------------------------------
(***************************************************************************)
(* Stage zero of a cloud account (the plan and apply commands          *)
(* init-aws-admin, init-azure-admin, init-oci-admin): a plan is saved against local state, applying it     *)
(* creates the remote backend among other resources, and the local state   *)
(* is then migrated into it.  backend.json in the operator directory is    *)
(* what tells the next command which state to use.  A command can fail or  *)
(* be killed between any two steps; terraform can stop between two         *)
(* resources.                                                              *)
(*                                                                         *)
(* Terraform is external: a state is the set of resources it tracks and a  *)
(* serial, a saved plan names its backend and serial and is refused when   *)
(* the serial has moved, and a resource that exists untracked cannot be    *)
(* created.                                                                *)
(***************************************************************************)
EXTENDS Naturals, Sequences, FiniteSets

CONSTANTS
    None,           \* the absence of a value
    Provider,       \* "aws", "azure" or "oci"
    Resources,      \* what the root declares today, the state bucket among them
    Upgrades,       \* what a later version of the root declares in addition
    StateBucket,    \* the bucket for remote state
    MaxFailures,    \* bound: commands that fail or are killed
    Attempts        \* tries of the migration (_STATE_MIGRATION_ATTEMPTS)

StageZeroAssumption ==
    /\ Provider \in {"aws", "azure", "oci"}
    /\ StateBucket \in Resources
    /\ Resources \cap Upgrades = {}
    /\ Attempts \in Nat \ {0}

Right == [bucket |-> StateBucket, place |-> "here"]
Inputs == {Right, [Right EXCEPT !.place = "elsewhere"]}
Local == [bucket |-> None, place |-> "operator directory"]
Backends == {Local} \cup Inputs

VARIABLES
    world,          \* the resources that exist in the account
    wanted,         \* what the Terraform root declares
    state,          \* the state that lies at each backend
    plan,           \* the saved plan
    record,         \* backend.json: the inputs of the migrated backend
    backendFile,    \* backend.tf.json of the workspace
    initialized,    \* the backend terraform-data is initialised for
    authorized,     \* the new role assignment has reached the bucket
    cmd,            \* the command that runs: its steps left, inputs and attempt
    failures

vars == <<world, wanted, state, plan, record, backendFile, initialized, authorized,
          cmd, failures>>

files == <<plan, record, backendFile, initialized>>
cloud == <<world, wanted, state, authorized>>

NoState == [tracks |-> {}, serial |-> 0]
Idle == [steps |-> <<>>]

Init ==
    /\ world = {}
    /\ wanted = Resources
    /\ state = [b \in Backends |-> NoState]
    /\ plan = None
    /\ record = None
    /\ backendFile = None
    /\ initialized = None
    /\ authorized = (Provider # "azure")
    /\ cmd = Idle
    /\ failures = 0

-----------------------------------------------------------------------------
(* The commands, as the order of their steps. *)

AwsPlan == <<"prepare", "backend", "init", "plan", "secure">>

AzurePlan == <<"prepare", "backend", "init", "plan", "secure">>

OciPlan == <<"prepare", "backend", "init", "plan", "secure">>

AwsApply == <<"keep plan", "backend", "init", "apply", "remote", "migrate", "record">>

AzureApply == <<"keep plan", "backend", "init", "apply", "remote", "migrate", "record">>

OciApply == <<"keep plan", "backend", "init", "apply", "remote", "migrate", "record">>

OciVerify == <<"keep files", "require record", "backend", "init", "verify">>

Commands ==
    [aws   |-> [plan |-> AwsPlan, apply |-> AwsApply],
     azure |-> [plan |-> AzurePlan, apply |-> AzureApply],
     oci   |-> [plan |-> OciPlan, apply |-> OciApply, verify |-> OciVerify]]

(* The command line repeats the inputs of the saved plan until the state has *)
(* moved; after that wrong inputs may be given, which counts as a failure.   *)
Start(kind, inputs) ==
    /\ cmd = Idle
    /\ kind \in DOMAIN Commands[Provider]
    /\ inputs # Right => record # None /\ failures < MaxFailures
    /\ failures' = failures + IF inputs = Right THEN 0 ELSE 1
    /\ cmd' = [steps |-> Commands[Provider][kind], kind |-> kind, inputs |-> inputs,
               first |-> FALSE, attempt |-> 1]
    /\ UNCHANGED <<cloud, files>>

At(step) == cmd.steps # <<>> /\ Head(cmd.steps) = step

Advance == cmd' = [cmd EXCEPT !.steps = Tail(@)]

(* An error ends the command; what it has done so far stays. *)
Raise == cmd' = Idle

(* A new plan command removes the old plan first. *)
Prepare ==
    /\ At("prepare")
    /\ plan' = None
    /\ Advance
    /\ UNCHANGED <<cloud, record, backendFile, initialized, failures>>

RequirePlan ==
    /\ At("keep plan")
    /\ IF plan # None THEN Advance ELSE Raise
    /\ UNCHANGED <<cloud, files, failures>>

(* The OCI workspace drops backend.tf.json with the other sources. *)
OciPrepare ==
    /\ At("keep files")
    /\ backendFile' = None
    /\ Advance
    /\ UNCHANGED <<cloud, plan, record, initialized, failures>>

RequireRecord ==
    /\ At("require record")
    /\ IF record # None THEN Advance ELSE Raise
    /\ UNCHANGED <<cloud, files, failures>>

AwsMatches(backend, inputs) == backend = inputs

AzureMatches(backend, inputs) == backend = inputs

(* A plan of the OCI root takes the namespace from the record itself. *)
OciMatches(backend, inputs) == backend.bucket = inputs.bucket

RequireMatchingBackend(backend, inputs) ==
    CASE Provider = "aws"   -> AwsMatches(backend, inputs)
      [] Provider = "azure" -> AzureMatches(backend, inputs)
      [] Provider = "oci"   -> OciMatches(backend, inputs)
                               /\ (cmd.kind # "plan" => backend.place = inputs.place)

(* The backend that a command writes for the record it has loaded: the OCI  *)
(* root writes the record's own fields, the others the given inputs.        *)
RemoteBackend(backend, inputs) == IF Provider = "oci" THEN backend ELSE inputs

ChooseBackend ==
    /\ At("backend")
    /\ \/ /\ record = None
          /\ backendFile' = Local
          /\ cmd' = [cmd EXCEPT !.steps = Tail(@), !.first = TRUE]
       \/ /\ record # None
          /\ RequireMatchingBackend(record, cmd.inputs)
          /\ backendFile' = RemoteBackend(record, cmd.inputs)
          /\ Advance
       \/ /\ record # None
          /\ ~RequireMatchingBackend(record, cmd.inputs)
          /\ backendFile' = backendFile
          /\ Raise
    /\ UNCHANGED <<cloud, plan, record, initialized, failures>>

TerraformInit ==
    /\ At("init")
    /\ initialized' = backendFile
    /\ Advance
    /\ UNCHANGED <<cloud, plan, record, backendFile, failures>>

TerraformPlan ==
    /\ At("plan")
    /\ plan' = [backend |-> initialized, serial |-> state[initialized].serial,
                creates |-> wanted \ state[initialized].tracks]
    /\ Advance
    /\ UNCHANGED <<cloud, record, backendFile, initialized, failures>>

SecurePlan ==
    /\ At("secure")
    /\ IF plan # None THEN Advance ELSE Raise
    /\ UNCHANGED <<cloud, files, failures>>

Stale(p) == p.serial # state[p.backend].serial

(* The resources that terraform apply creates are tracked as it goes. *)
Create(made) ==
    /\ world' = world \cup made
    /\ state' = [state EXCEPT ![plan.backend] =
           [tracks |-> @.tracks \cup made, serial |-> @.serial + Cardinality(made)]]
    /\ UNCHANGED <<wanted, authorized>>

Clash(p) == p.creates \cap world # {}

(* terraform apply of the saved plan: refused when stale; it fails on a      *)
(* resource that exists already, or may stop, after creating some of the     *)
(* others.  Only the first application goes on to migrate the state.         *)
TerraformApply ==
    /\ At("apply")
    /\ \/ /\ Stale(plan)
          /\ Raise
          /\ UNCHANGED <<cloud, failures>>
       \/ /\ ~Stale(plan) /\ ~Clash(plan)
          /\ Create(plan.creates)
          /\ cmd' = [cmd EXCEPT !.steps = IF cmd.first THEN Tail(@) ELSE <<>>]
          /\ UNCHANGED failures
       \/ /\ ~Stale(plan)
          /\ \E made \in SUBSET (plan.creates \ world) : made # plan.creates /\ Create(made)
          /\ Raise
          /\ failures' = failures + IF Clash(plan) THEN 0 ELSE 1
          /\ failures' <= MaxFailures
    /\ UNCHANGED files

WriteRemoteBackend ==
    /\ At("remote")
    /\ backendFile' = cmd.inputs
    /\ Advance
    /\ UNCHANGED <<cloud, plan, record, initialized, failures>>

(* terraform init -migrate-state -force-copy; a failure puts the local       *)
(* backend back.  Azure tries again while the role assignment propagates.    *)
MigrateState ==
    /\ At("migrate")
    /\ \/ /\ authorized
          /\ cmd.inputs.bucket \in world
          /\ state' = [state EXCEPT ![backendFile] = state[initialized]]
          /\ initialized' = backendFile
          /\ Advance
          /\ UNCHANGED <<world, wanted, authorized, plan, record, backendFile, failures>>
       \/ /\ ~authorized
          /\ cmd.attempt < Attempts
          /\ cmd' = [cmd EXCEPT !.attempt = @ + 1]
          /\ UNCHANGED <<cloud, files, failures>>
       \/ /\ (~authorized /\ cmd.attempt = Attempts) \/ cmd.inputs.bucket \notin world
          /\ backendFile' = Local
          /\ Raise
          /\ UNCHANGED <<cloud, plan, record, initialized, failures>>

WriteRecord ==
    /\ At("record")
    /\ record' = cmd.inputs
    /\ Advance
    /\ UNCHANGED <<cloud, plan, backendFile, initialized, failures>>

(* terraform plan -detailed-exitcode: reports drift, changes nothing. *)
VerifyNoDrift ==
    /\ At("verify")
    /\ Advance
    /\ UNCHANGED <<cloud, files, failures>>

-----------------------------------------------------------------------------
Fail ==
    /\ cmd # Idle /\ cmd.steps # <<>>
    /\ failures < MaxFailures
    /\ failures' = failures + 1
    /\ Raise
    /\ UNCHANGED <<cloud, files>>

Return ==
    /\ cmd # Idle /\ cmd.steps = <<>>
    /\ cmd' = Idle
    /\ UNCHANGED <<cloud, files, failures>>

Propagate ==
    /\ ~authorized
    /\ StateBucket \in world
    /\ authorized' = TRUE
    /\ UNCHANGED <<world, wanted, state, files, cmd, failures>>

Upgrade ==
    /\ wanted = Resources
    /\ wanted' = Resources \cup Upgrades
    /\ UNCHANGED <<world, state, authorized, files, cmd, failures>>

Step ==
    \/ Prepare \/ RequirePlan \/ OciPrepare \/ RequireRecord \/ ChooseBackend
    \/ TerraformInit \/ TerraformPlan \/ SecurePlan \/ TerraformApply
    \/ WriteRemoteBackend \/ MigrateState \/ WriteRecord \/ VerifyNoDrift \/ Return

Next ==
    \/ \E k \in {"plan", "apply", "verify"}, i \in Inputs : Start(k, i)
    \/ Step \/ Fail \/ Propagate \/ Upgrade

Spec == Init /\ [][Next]_vars

-----------------------------------------------------------------------------
(* The state that the next command will use. *)
Current == IF record = None THEN state[Local] ELSE state[record]

(* Types: a plan names a backend, the record one of the inputs. *)
TypeOK ==
    /\ world \subseteq Resources \cup Upgrades
    /\ \A b \in Backends : state[b].tracks \subseteq Resources \cup Upgrades
    /\ plan # None => plan.backend \in Backends
    /\ record \in Inputs \cup {None}
    /\ backendFile \in Backends \cup {None}
    /\ initialized \in Backends \cup {None}
    /\ failures \in 0..MaxFailures

(* No resource is ever lost: whatever exists in the account is tracked by    *)
(* the state that the next command will use, wherever a command stopped      *)
(* (the record is written only after the migration, and matched after it).   *)
NothingLost == world \subseteq Current.tracks

(* Once the state has moved, the local copy is recovery material only: no    *)
(* command changes it again, an old saved plan included.                     *)
LocalIsFrozen == record # None => state'[Local] = state[Local]
=============================================================================
