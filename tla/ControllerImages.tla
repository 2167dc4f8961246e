---------------------------- MODULE ControllerImages ----------------------------
(***************************************************************************)
(* OciControllerImagePublisher: the image of the OCI Functions controller  *)
(* is built from one wheel that was reviewed by its SHA-256.  Operators in *)
(* different directories publish the same wheel to one repository; the     *)
(* wheel on disk may be built again while a command runs; a command can    *)
(* fail or be killed after every call.                                     *)
(*                                                                         *)
(* A wheel stands for its content and so for its SHA-256, an image for its *)
(* digest.                                                                 *)
(***************************************************************************)
EXTENDS Naturals, Sequences, FiniteSets

CONSTANTS
    None,           \* the absence of a value
    Operators,      \* who publishes, each in a project directory
    Reviewed,       \* the wheel whose SHA-256 the operators give
    Wheels,         \* the contents the wheel file can have
    Complete,       \* those that are a dander-platform wheel with the build files
    MaxBuild,       \* bound: images that are ever built
    MaxCrashes      \* bound: commands that fail or are killed

WheelAssumption == Reviewed \in Wheels /\ Complete \subseteq Wheels

VARIABLES
    wheel,      \* content of the wheel file in each directory
    repository, \* [private, immutable] as OCI describes it
    tag,        \* the wheel-bound tag of Reviewed -> image or None
    images,     \* the images the repository holds, by digest
    record,     \* .dander/oci-controller-artifact.json of each directory
    cmd,        \* the command each operator runs
    built,
    crashes

vars == <<wheel, repository, tag, images, record, cmd, built, crashes>>

Images == [wheel : Wheels, by : Operators, build : 1..MaxBuild]

Idle == [at |-> "idle", exists |-> FALSE, context |-> None, digest |-> None]

Init ==
    /\ wheel \in [Operators -> Wheels]
    /\ repository \in [private : BOOLEAN, immutable : BOOLEAN]
    /\ tag = None
    /\ images = {}
    /\ record = [o \in Operators |-> None]
    /\ cmd = [o \in Operators |-> Idle]
    /\ built = 0
    /\ crashes = 0

At(o, step) == cmd[o].at = step

Goto(o, step) == cmd' = [cmd EXCEPT ![o].at = step]

Fail(o) ==
    /\ cmd' = [cmd EXCEPT ![o] = Idle]
    /\ UNCHANGED <<wheel, repository, tag, images, record, built, crashes>>

(* The SHA-256 of the file, its paths, build files and metadata. *)
VerifyWheel(o) == wheel[o] = Reviewed /\ wheel[o] \in Complete

StartPublish(o) ==
    /\ At(o, "idle")
    /\ VerifyWheel(o)
    /\ Goto(o, "repository")
    /\ UNCHANGED <<wheel, repository, tag, images, record, built, crashes>>

VerifyRepository(o) ==
    /\ At(o, "repository")
    /\ \/ /\ repository.private
          /\ Goto(o, "lookup")
          /\ UNCHANGED <<wheel, repository, tag, images, record, built, crashes>>
       \/ ~repository.private /\ Fail(o)

(* The local record binds the tag's digest to this wheel. *)
RequireMatchingRecord(o) ==
    record[o] # None /\ record[o].wheel = Reviewed /\ record[o].digest = tag

Lookup(o) ==
    /\ At(o, "lookup")
    /\ \/ /\ tag # None => RequireMatchingRecord(o)
          /\ cmd' = [cmd EXCEPT ![o] = [at |-> "token", exists |-> tag # None,
                                        context |-> None, digest |-> tag]]
          /\ UNCHANGED <<wheel, repository, tag, images, record, built, crashes>>
       \/ /\ tag # None
          /\ ~RequireMatchingRecord(o)
          /\ Fail(o)

(* A scoped registry token goes into a Docker configuration of its own. *)
RegistryToken(o) ==
    /\ At(o, "token")
    /\ Goto(o, IF cmd[o].exists THEN "inspect" ELSE "extract")
    /\ UNCHANGED <<wheel, repository, tag, images, record, built, crashes>>

(* The wheel is copied into the build context as it is on disk now. *)
ExtractControllerContext(o) ==
    /\ At(o, "extract")
    /\ \/ /\ wheel[o] \in Complete
          /\ cmd' = [cmd EXCEPT ![o].context = wheel[o], ![o].at = "build"]
          /\ UNCHANGED <<wheel, repository, tag, images, record, built, crashes>>
       \/ wheel[o] \notin Complete /\ Fail(o)

BuildAndPush(o) ==
    /\ At(o, "build")
    /\ built < MaxBuild
    /\ \/ /\ repository.immutable => tag = None
          /\ LET image == [wheel |-> cmd[o].context, by |-> o, build |-> built + 1]
             IN tag' = image /\ images' = images \cup {image}
          /\ built' = built + 1
          /\ Goto(o, "resolve")
          /\ UNCHANGED <<wheel, repository, record, crashes>>
       \/ repository.immutable /\ tag # None /\ Fail(o)

Resolve(o) ==
    /\ At(o, "resolve")
    /\ cmd' = [cmd EXCEPT ![o].digest = tag, ![o].at = "inspect"]
    /\ UNCHANGED <<wheel, repository, tag, images, record, built, crashes>>

(* Read back by digest: only linux/amd64, which is all that is ever built. *)
Inspect(o) ==
    /\ At(o, "inspect")
    /\ cmd[o].digest \in images
    /\ Goto(o, "record")
    /\ UNCHANGED <<wheel, repository, tag, images, record, built, crashes>>

WriteRecord(o) ==
    /\ At(o, "record")
    /\ record' = [record EXCEPT ![o] = [wheel |-> Reviewed, digest |-> cmd[o].digest]]
    /\ cmd' = [cmd EXCEPT ![o] = Idle]
    /\ UNCHANGED <<wheel, repository, tag, images, built, crashes>>

Rebuild(o, w) ==
    /\ wheel' = [wheel EXCEPT ![o] = w]
    /\ UNCHANGED <<repository, tag, images, record, cmd, built, crashes>>

Crash(o) ==
    /\ cmd[o] # Idle
    /\ crashes < MaxCrashes
    /\ crashes' = crashes + 1
    /\ cmd' = [cmd EXCEPT ![o] = Idle]
    /\ UNCHANGED <<wheel, repository, tag, images, record, built>>

Publish(o) ==
    \/ StartPublish(o) \/ VerifyRepository(o) \/ Lookup(o) \/ RegistryToken(o)
    \/ ExtractControllerContext(o) \/ BuildAndPush(o) \/ Resolve(o) \/ Inspect(o)
    \/ WriteRecord(o)

Next == \E o \in Operators : Publish(o) \/ Crash(o) \/ \E w \in Wheels : Rebuild(o, w)

Spec == Init /\ [][Next]_vars

-----------------------------------------------------------------------------
(* Types: tags and records name images that the repository holds. *)
TypeOK ==
    /\ wheel \in [Operators -> Wheels]
    /\ images \subseteq Images
    /\ tag \in images \cup {None}
    /\ \A o \in Operators :
         record[o] # None => record[o].wheel = Reviewed /\ record[o].digest \in images
    /\ built \in 0..MaxBuild
    /\ crashes \in 0..MaxCrashes

(* Missing or mismatched bindings fail closed: where tags are immutable, a   *)
(* directory never claims an image that another operator's command, or an    *)
(* earlier command that was killed, has pushed (_require_matching_record).   *)
OwnBuild ==
    repository.immutable =>
        \A o \in Operators : record[o] # None =>
            record[o].digest.by = o /\ record[o].digest = tag
=============================================================================
