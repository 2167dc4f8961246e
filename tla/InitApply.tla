------------------------------- MODULE InitApply -------------------------------
(***************************************************************************)
(* dander init on Google Cloud.  By default the state bucket is created    *)
(* with gcloud, stage zero adopts it and creates the bootstrap identity,   *)
(* the command waits until the identity can be impersonated, publishes the *)
(* runtime image, and applies the platform; an operator who names an       *)
(* account skips the administration, one who names an image or asks for no *)
(* runtime skips the publication.  Each call is a step; the command can    *)
(* fail or be killed after each, and is run again from the start, with     *)
(* these options or others.  Terraform, gcloud and the registry are        *)
(* external: that an account the operator names cannot be impersonated is  *)
(* one of their failures.                                                  *)
(***************************************************************************)
EXTENDS Naturals, Sequences, FiniteSets

CONSTANTS
    MaxFailures,    \* bound: commands that fail or are killed
    Polls           \* tries of the impersonation check (attempts)

InitAssumption == Polls \in Nat \ {0}

VARIABLES
    bucket,     \* the state bucket: [exists, versioned]
    admin,      \* stage-zero state in the bucket: what it tracks
    identity,   \* the bootstrap account: none, "granted", then "usable"
    image,      \* the runtime image was published
    platform,   \* the plan the platform was last applied from
    savedPlan,  \* dander-bootstrap.tfplan of the platform root
    cmd,        \* the command that runs: its steps and polls left, and its plan
    failures

vars == <<bucket, admin, identity, image, platform, savedPlan, cmd, failures>>

Idle == [steps |-> <<>>]

(* A plan of the platform: whether its command did the administration, and   *)
(* the image of the hosted runtime, "none" when there is no runtime.         *)
Images == {"none", "missing", "given", "published"}

Plans == [own : BOOLEAN, image : Images]

NoPlan == [own |-> FALSE, image |-> "no plan"]

Init ==
    /\ bucket = [exists |-> FALSE, versioned |-> FALSE]
    /\ admin = {}
    /\ identity = "none"
    /\ image = FALSE
    /\ platform = NoPlan
    /\ savedPlan = NoPlan
    /\ cmd = Idle
    /\ failures = 0

-----------------------------------------------------------------------------
(* The steps of one command. *)

Administration == <<"describe", "enable", "create", "harden", "member", "adopt",
                    "stage zero", "wait">>

PlatformBootstrap == <<"platform init", "platform plan", "platform apply">>

(* What selects the steps: --apply, --bootstrap-service-account,             *)
(* --enable-runtime, --container-image, the guarded free tier and its guard. *)
Options ==
    [apply : BOOLEAN, account : BOOLEAN, runtime : BOOLEAN, given : BOOLEAN,
     guarded : BOOLEAN, costGuard : BOOLEAN]

ValidOptions(o) == o.runtime /\ o.guarded => o.costGuard

Administers(o) == o.apply /\ ~o.account

Publishes(o) == o.apply /\ o.runtime /\ ~o.given

(* Refused only after the administration and the publication: a runtime      *)
(* without an image (plan only), and an image without a runtime.             *)
Refused(o) == (o.runtime /\ ~o.given /\ ~o.apply) \/ (o.given /\ ~o.runtime)

ExecuteInit(o) ==
    (IF Administers(o) THEN Administration ELSE <<>>)
    \o (IF Publishes(o) THEN <<"publish">> ELSE <<>>)
    \o (IF Refused(o) THEN <<"refuse">>
        ELSE IF o.apply THEN PlatformBootstrap ELSE SubSeq(PlatformBootstrap, 1, 2))

PlanOf(o) ==
    [own |-> Administers(o),
     image |-> CASE ~o.runtime -> "none" [] o.given -> "given" [] OTHER -> "missing"]

Start(o) ==
    /\ cmd = Idle
    /\ ValidOptions(o)
    /\ cmd' = [steps |-> ExecuteInit(o), polls |-> Polls, plan |-> PlanOf(o)]
    /\ UNCHANGED <<bucket, admin, identity, image, platform, savedPlan, failures>>

At(step) == cmd.steps # <<>> /\ Head(cmd.steps) = step

Goto(steps) == cmd' = [cmd EXCEPT !.steps = steps]

Raise == cmd' = Idle

(* An existing bucket is left as it is. *)
DescribeBucket ==
    /\ At("describe")
    /\ Goto(IF bucket.exists THEN SubSeq(cmd.steps, 5, Len(cmd.steps)) ELSE Tail(cmd.steps))
    /\ UNCHANGED <<bucket, admin, identity, image, platform, savedPlan, failures>>

EnableServices ==
    /\ At("enable")
    /\ Goto(Tail(cmd.steps))
    /\ UNCHANGED <<bucket, admin, identity, image, platform, savedPlan, failures>>

CreateBucket ==
    /\ At("create")
    /\ \/ bucket.exists /\ Raise /\ UNCHANGED bucket
       \/ /\ ~bucket.exists /\ Goto(Tail(cmd.steps))
          /\ bucket' = [exists |-> TRUE, versioned |-> FALSE]
    /\ UNCHANGED <<admin, identity, image, platform, savedPlan, failures>>

HardenBucket ==
    /\ At("harden")
    /\ bucket' = [bucket EXCEPT !.versioned = TRUE]
    /\ Goto(Tail(cmd.steps))
    /\ UNCHANGED <<admin, identity, image, platform, savedPlan, failures>>

ActiveAdminMember ==
    /\ At("member")
    /\ Goto(Tail(cmd.steps))
    /\ UNCHANGED <<bucket, admin, identity, image, platform, savedPlan, failures>>

(* The bucket is imported unless the state tracks it: terraform import      *)
(* refuses a resource that is already managed.                              *)
AdoptStateBucket ==
    /\ At("adopt")
    /\ IF "bucket" \in admin
       THEN UNCHANGED admin
       ELSE admin' = admin \cup {"bucket"}
    /\ Goto(Tail(cmd.steps))
    /\ UNCHANGED <<bucket, identity, image, platform, savedPlan, failures>>

(* terraform plan and apply of stage zero: a bucket that is not tracked     *)
(* would be created again, which fails; a tracked one gets its declared     *)
(* versioning.                                                              *)
ApplyStageZero ==
    /\ At("stage zero")
    /\ "bucket" \in admin
    /\ bucket' = [bucket EXCEPT !.versioned = TRUE]
    /\ admin' = {"bucket", "identity"}
    /\ identity' = IF identity = "none" THEN "granted" ELSE identity
    /\ Goto(Tail(cmd.steps))
    /\ UNCHANGED <<image, platform, savedPlan, failures>>

WaitForImpersonation ==
    /\ At("wait")
    /\ \/ identity = "usable" /\ Goto(Tail(cmd.steps))
       \/ /\ identity # "usable" /\ cmd.polls > 1
          /\ cmd' = [cmd EXCEPT !.polls = @ - 1]
       \/ identity # "usable" /\ cmd.polls = 1 /\ Raise
    /\ UNCHANGED <<bucket, admin, identity, image, platform, savedPlan, failures>>

PublishImage ==
    /\ At("publish")
    /\ image' = TRUE
    /\ cmd' = [cmd EXCEPT !.steps = Tail(@), !.plan.image = "published"]
    /\ UNCHANGED <<bucket, admin, identity, platform, savedPlan, failures>>

Refuse ==
    /\ At("refuse")
    /\ Raise
    /\ UNCHANGED <<bucket, admin, identity, image, platform, savedPlan, failures>>

PlatformInit ==
    /\ At("platform init")
    /\ IF bucket.exists THEN Goto(Tail(cmd.steps)) ELSE Raise
    /\ UNCHANGED <<bucket, admin, identity, image, platform, savedPlan, failures>>

PlatformPlan ==
    /\ At("platform plan")
    /\ savedPlan' = cmd.plan
    /\ Goto(Tail(cmd.steps))
    /\ UNCHANGED <<bucket, admin, identity, image, platform, failures>>

PlatformApply ==
    /\ At("platform apply")
    /\ platform' = savedPlan
    /\ Goto(Tail(cmd.steps))
    /\ UNCHANGED <<bucket, admin, identity, image, savedPlan, failures>>

Return ==
    /\ cmd # Idle /\ cmd.steps = <<>>
    /\ cmd' = Idle
    /\ UNCHANGED <<bucket, admin, identity, image, platform, savedPlan, failures>>

(* init-platform-apply: the exact plan of a prior plan-only command. *)
ApplySavedPlan ==
    /\ cmd = Idle
    /\ savedPlan # NoPlan
    /\ cmd' = [steps |-> <<"platform init", "platform apply">>, polls |-> Polls, plan |-> savedPlan]
    /\ UNCHANGED <<bucket, admin, identity, image, platform, savedPlan, failures>>

-----------------------------------------------------------------------------
Fail ==
    /\ cmd # Idle
    /\ failures < MaxFailures
    /\ failures' = failures + 1
    /\ Raise
    /\ UNCHANGED <<bucket, admin, identity, image, platform, savedPlan>>

(* A bucket of the operator's own, versioned or not (--state-bucket). *)
OwnBucket ==
    /\ ~bucket.exists
    /\ \E versioned \in BOOLEAN : bucket' = [exists |-> TRUE, versioned |-> versioned]
    /\ UNCHANGED <<admin, identity, image, platform, savedPlan, cmd, failures>>

Propagate ==
    /\ identity = "granted"
    /\ identity' = "usable"
    /\ UNCHANGED <<bucket, admin, image, platform, savedPlan, cmd, failures>>

Step ==
    \/ DescribeBucket \/ EnableServices \/ CreateBucket \/ HardenBucket
    \/ ActiveAdminMember \/ AdoptStateBucket \/ ApplyStageZero
    \/ WaitForImpersonation \/ PublishImage \/ Refuse \/ PlatformInit
    \/ PlatformPlan \/ PlatformApply \/ Return

Next ==
    \/ \E o \in Options : Start(o)
    \/ ApplySavedPlan \/ Step \/ Fail \/ OwnBucket \/ Propagate

Spec == Init /\ [][Next]_vars

-----------------------------------------------------------------------------
(* Types: the impersonation check is tried at most Polls times. *)
TypeOK ==
    /\ bucket \in [exists : BOOLEAN, versioned : BOOLEAN]
    /\ admin \subseteq {"bucket", "identity"}
    /\ identity \in {"none", "granted", "usable"}
    /\ image \in BOOLEAN
    /\ {platform, savedPlan} \subseteq Plans \cup {NoPlan}
    /\ cmd # Idle => cmd.polls \in 1..Polls /\ cmd.plan \in Plans
    /\ failures \in 0..MaxFailures

FirmGround == identity = "usable" /\ bucket.versioned /\ "bucket" \in admin

(* A command that does the administration publishes, plans and applies only  *)
(* with an identity that can be impersonated, into a bucket that stage zero  *)
(* tracks and keeps versioned, and what was planned so stays on that ground, *)
(* whatever commands stopped or ran in between and whoever applies the plan; *)
(* and no platform hosts a runtime without an image that was given or        *)
(* published before (execute_init, _bootstrap_administration).               *)
PlatformOnFirmGround ==
    /\ cmd # Idle /\ cmd.plan.own /\ (At("publish") \/ At("platform init")) => FirmGround
    /\ \A p \in {platform, savedPlan} :
         /\ p.own => FirmGround
         /\ p.image # "missing"
         /\ p.image = "published" => image
=============================================================================
