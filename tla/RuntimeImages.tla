----------------------------- MODULE RuntimeImages -----------------------------
(***************************************************************************)
(* Publication of the runtime image to Artifact Registry (image-publish)   *)
(* and its promotion to another cloud's registry (image-promote-aws,       *)
(* -azure, -oci).  Every call to docker, gcloud, aws, az or oci is a step  *)
(* of its own, other users of the registries act between the steps, and    *)
(* every command can fail or be killed after each of them.                 *)
(*                                                                         *)
(* An image index is content addressed: the index stands for its digest.   *)
(* A tag is derived from what it names: a published tag from the revision  *)
(* of the build context, a promoted tag from the digest of the index.      *)
(***************************************************************************)
EXTENDS Naturals, Sequences, FiniteSets

CONSTANTS
    None,           \* the absence of a value
    Operators,      \* who runs the commands, each in a project directory
    Cloud,          \* where the image is promoted to: "aws", "azure", "oci"
    MaxTree,        \* bound: versions of a project directory
    MaxBuild,       \* bound: images that are ever built
    MaxCrashes,     \* bound: commands that fail or are killed
    Foreign,        \* somebody else pushes images under the same tags
    Rewrites        \* the destination registry may rewrite an index

CloudAssumption == Cloud \in {"aws", "azure", "oci"}

Required == {"linux/amd64", "linux/arm64"}

VARIABLES
    tree,       \* content of each project directory
    built,      \* number of images built so far
    gar,        \* Artifact Registry: the tag of a revision -> index
    garIndexes, \* the indexes Artifact Registry holds, by digest
    dest,       \* destination registry: tag of an index -> index
    destIndexes,
    repository, \* the destination repository as the provider describes it
    accepted,   \* .dander/runtime-artifact.json of each directory
    promoted,   \* .dander/runtime-artifact-<cloud>.json of each directory
    cmd,        \* the command each operator runs: its steps left and what it has read
    crashes

vars == <<tree, built, gar, garIndexes, dest, destIndexes, repository, accepted,
          promoted, cmd, crashes>>

Trees == 1..MaxTree
Indexes == [tree : Trees, build : 1..MaxBuild, platforms : {Required, {"linux/amd64"}},
            rewritten : BOOLEAN]

(* The runnable manifests of an index: one per platform, attestations left out. *)
PlatformManifests(index) == {<<p, index.tree, index.build>> : p \in index.platforms}

Idle == [steps |-> <<>>, kind |-> None]

(* The revision of a build context is a digest of its files. *)
ContentDigest(t) == t

PublishSteps == <<"hash", "build", "describe", "record">>

(***************************************************************************)
(* The order in which each promoter makes its calls.                       *)
(***************************************************************************)
AwsPromote == <<"repository", "login", "source", "lookup", "copy", "resolve", "inspect", "save">>

AzurePromote == <<"repository", "login", "source", "lookup", "copy", "resolve", "inspect", "save">>

OciPromote == <<"source", "repository", "lookup", "login", "copy", "resolve", "inspect", "save">>

PromoteSteps ==
    CASE Cloud = "aws"   -> AwsPromote
      [] Cloud = "azure" -> AzurePromote
      [] Cloud = "oci"   -> OciPromote

Init ==
    /\ tree \in [Operators -> {1}]
    /\ built = 0
    /\ gar = [t \in Trees |-> None]
    /\ garIndexes = {}
    /\ dest = [i \in Indexes |-> None]
    /\ destIndexes = {}
    /\ repository \in [uri : BOOLEAN, private : BOOLEAN, immutable : BOOLEAN]
    /\ accepted = [o \in Operators |-> None]
    /\ promoted = [o \in Operators |-> None]
    /\ cmd = [o \in Operators |-> Idle]
    /\ crashes = 0

At(o, step) == cmd[o].steps # <<>> /\ Head(cmd[o].steps) = step

Rest(o) == [cmd[o] EXCEPT !.steps = Tail(@)]

(* Raising ProjectBootstrapError ends the command; no file is touched. *)
Fail(o) ==
    /\ cmd' = [cmd EXCEPT ![o] = Idle]
    /\ UNCHANGED <<tree, built, gar, garIndexes, dest, destIndexes, repository,
                   accepted, promoted, crashes>>

-----------------------------------------------------------------------------
(* image-publish *)

StartPublish(o) ==
    /\ cmd[o] = Idle
    /\ built < MaxBuild
    /\ cmd' = [cmd EXCEPT ![o] = [steps |-> PublishSteps, kind |-> "publish",
                                  revision |-> None, digest |-> None]]
    /\ UNCHANGED <<tree, built, gar, garIndexes, dest, destIndexes, repository,
                   accepted, promoted, crashes>>

Hash(o) ==
    /\ At(o, "hash")
    /\ cmd' = [cmd EXCEPT ![o] = [Rest(o) EXCEPT !.revision = ContentDigest(tree[o])]]
    /\ UNCHANGED <<tree, built, gar, garIndexes, dest, destIndexes, repository,
                   accepted, promoted, crashes>>

(* docker buildx build --push reads the directory as it is now. *)
Build(o) ==
    /\ At(o, "build")
    /\ built < MaxBuild
    /\ LET index == [tree |-> tree[o], build |-> built + 1, platforms |-> Required,
                     rewritten |-> FALSE]
       IN /\ gar' = [gar EXCEPT ![cmd[o].revision] = index]
          /\ garIndexes' = garIndexes \cup {index}
    /\ built' = built + 1
    /\ cmd' = [cmd EXCEPT ![o] = Rest(o)]
    /\ UNCHANGED <<tree, dest, destIndexes, repository, accepted, promoted, crashes>>

Describe(o) ==
    /\ At(o, "describe")
    /\ cmd' = [cmd EXCEPT ![o] = [Rest(o) EXCEPT !.digest = gar[cmd[o].revision]]]
    /\ UNCHANGED <<tree, built, gar, garIndexes, dest, destIndexes, repository,
                   accepted, promoted, crashes>>

(* The index is inspected under its tag; an incomplete one is refused. *)
IncompletePlatforms(index) == Required \ index.platforms

WriteArtifactRecord(o) ==
    LET tagged == gar[cmd[o].revision]
    IN accepted' = [accepted EXCEPT ![o] =
           [image |-> cmd[o].digest, manifests |-> PlatformManifests(tagged),
            revision |-> cmd[o].revision]]

RecordPublished(o) ==
    /\ At(o, "record")
    /\ \/ /\ IncompletePlatforms(gar[cmd[o].revision]) = {}
          /\ WriteArtifactRecord(o)
          /\ cmd' = [cmd EXCEPT ![o] = Idle]
          /\ UNCHANGED <<tree, built, gar, garIndexes, dest, destIndexes, repository,
                         promoted, crashes>>
       \/ /\ IncompletePlatforms(gar[cmd[o].revision]) # {}
          /\ Fail(o)

-----------------------------------------------------------------------------
(* image-promote-<cloud> *)

SourceRecord(o, image) == accepted[o] # None /\ accepted[o].image = image

StartPromote(o, image) ==
    /\ cmd[o] = Idle
    /\ SourceRecord(o, image)
    /\ cmd' = [cmd EXCEPT ![o] = [steps |-> PromoteSteps, kind |-> "promote",
                                  source |-> image, expected |-> accepted[o].manifests,
                                  exists |-> FALSE, digest |-> None]]
    /\ UNCHANGED <<tree, built, gar, garIndexes, dest, destIndexes, repository,
                   accepted, promoted, crashes>>

(* A check of the command: it goes on or ends the command. *)
Check(o, step, holds) ==
    /\ At(o, step)
    /\ \/ /\ holds
          /\ cmd' = [cmd EXCEPT ![o] = Rest(o)]
          /\ UNCHANGED <<tree, built, gar, garIndexes, dest, destIndexes, repository,
                         accepted, promoted, crashes>>
       \/ ~holds /\ Fail(o)

VerifyRepository(o) ==
    Check(o, "repository", repository.uri /\ (Cloud = "oci" => repository.private))

Login(o) == Check(o, "login", TRUE)

PlatformsMatch(index, expected) == PlatformManifests(index) = expected

InspectSource(o) ==
    Check(o, "source", cmd[o].source \in garIndexes
                       /\ PlatformsMatch(cmd[o].source, cmd[o].expected))

Existing(index) == dest[index] # None

Lookup(o) ==
    /\ At(o, "lookup")
    /\ cmd' = [cmd EXCEPT ![o] = [Rest(o) EXCEPT !.exists = Existing(cmd[o].source),
                                                 !.digest = dest[cmd[o].source]]]
    /\ UNCHANGED <<tree, built, gar, garIndexes, dest, destIndexes, repository,
                   accepted, promoted, crashes>>

(* An existing tag is not pushed again; an immutable repository refuses a   *)
(* push to a tag that appeared after the lookup.                            *)
Copy(o) ==
    /\ At(o, "copy")
    /\ IF cmd[o].exists
       THEN /\ cmd' = [cmd EXCEPT ![o] = Rest(o)]
            /\ UNCHANGED <<tree, built, gar, garIndexes, dest, destIndexes, repository,
                           accepted, promoted, crashes>>
       ELSE \/ /\ repository.immutable => ~Existing(cmd[o].source)
               /\ \E r \in IF Rewrites THEN BOOLEAN ELSE {FALSE} :
                    LET copy == [cmd[o].source EXCEPT !.rewritten = r]
                    IN /\ dest' = [dest EXCEPT ![cmd[o].source] = copy]
                       /\ destIndexes' = destIndexes \cup {copy}
               /\ cmd' = [cmd EXCEPT ![o] = Rest(o)]
               /\ UNCHANGED <<tree, built, gar, garIndexes, repository, accepted,
                              promoted, crashes>>
            \/ /\ repository.immutable /\ Existing(cmd[o].source)
               /\ Fail(o)

SameDigest(o, digest) == digest = cmd[o].source

(* The digest the tag has (looked up again after a push) must be the source's. *)
Resolve(o) ==
    LET digest == IF cmd[o].exists THEN cmd[o].digest ELSE dest[cmd[o].source]
    IN /\ At(o, "resolve")
       /\ \/ /\ SameDigest(o, digest)
             /\ cmd' = [cmd EXCEPT ![o] = [Rest(o) EXCEPT !.digest = digest]]
             /\ UNCHANGED <<tree, built, gar, garIndexes, dest, destIndexes, repository,
                            accepted, promoted, crashes>>
          \/ ~SameDigest(o, digest) /\ Fail(o)

InspectDestination(o) ==
    Check(o, "inspect", cmd[o].digest \in destIndexes
                        /\ PlatformsMatch(cmd[o].digest, cmd[o].expected))

SavePromoted(o) ==
    /\ At(o, "save")
    /\ promoted' = [promoted EXCEPT ![o] =
           [image |-> cmd[o].digest, source |-> cmd[o].source, manifests |-> cmd[o].expected]]
    /\ cmd' = [cmd EXCEPT ![o] = Idle]
    /\ UNCHANGED <<tree, built, gar, garIndexes, dest, destIndexes, repository, accepted,
                   crashes>>

-----------------------------------------------------------------------------
(* The rest of the world *)

Edit(o) ==
    /\ tree[o] < MaxTree
    /\ tree' = [tree EXCEPT ![o] = @ + 1]
    /\ UNCHANGED <<built, gar, garIndexes, dest, destIndexes, repository, accepted,
                   promoted, cmd, crashes>>

(* A tool that knows nothing of the records pushes an image under a tag. *)
ForeignPublish(t, platforms) ==
    /\ Foreign /\ built < MaxBuild
    /\ LET index == [tree |-> t, build |-> built + 1, platforms |-> platforms,
                     rewritten |-> FALSE]
       IN /\ gar' = [gar EXCEPT ![t] = index]
          /\ garIndexes' = garIndexes \cup {index}
    /\ built' = built + 1
    /\ UNCHANGED <<tree, dest, destIndexes, repository, accepted, promoted, cmd, crashes>>

ForeignCopy(from, to) ==
    /\ Foreign
    /\ repository.immutable => ~Existing(to)
    /\ dest' = [dest EXCEPT ![to] = from]
    /\ destIndexes' = destIndexes \cup {from}
    /\ UNCHANGED <<tree, built, gar, garIndexes, repository, accepted, promoted, cmd, crashes>>

(* A call fails, the process is killed, or a record cannot be written. *)
Crash(o) ==
    /\ cmd[o] # Idle
    /\ crashes < MaxCrashes
    /\ crashes' = crashes + 1
    /\ cmd' = [cmd EXCEPT ![o] = Idle]
    /\ UNCHANGED <<tree, built, gar, garIndexes, dest, destIndexes, repository,
                   accepted, promoted>>

PublishStep(o) == Hash(o) \/ Build(o) \/ Describe(o) \/ RecordPublished(o)

Publish(o) == StartPublish(o) \/ PublishStep(o)

PromoteStep(o) ==
    \/ VerifyRepository(o) \/ Login(o) \/ InspectSource(o) \/ Lookup(o) \/ Copy(o)
    \/ Resolve(o) \/ InspectDestination(o) \/ SavePromoted(o)

Promote(o) == PromoteStep(o) \/ \E i \in garIndexes : StartPromote(o, i)

Next ==
    \/ \E o \in Operators : Publish(o) \/ Promote(o) \/ Edit(o) \/ Crash(o)
    \/ \E t \in Trees, p \in {Required, {"linux/amd64"}} : ForeignPublish(t, p)
    \/ \E i, j \in garIndexes : ForeignCopy(i, j)

Spec == Init /\ [][Next]_vars

-----------------------------------------------------------------------------
(* Every variable keeps its type; records hold indexes and manifest maps. *)
TypeOK ==
    /\ tree \in [Operators -> Trees]
    /\ built \in 0..MaxBuild
    /\ crashes \in 0..MaxCrashes
    /\ garIndexes \subseteq Indexes
    /\ destIndexes \subseteq Indexes
    /\ \A t \in Trees : gar[t] = None \/ gar[t] \in garIndexes
    /\ \A i \in Indexes : dest[i] = None \/ dest[i] \in destIndexes
    /\ \A o \in Operators :
         /\ accepted[o] = None \/ accepted[o].image \in garIndexes
         /\ promoted[o] = None \/ promoted[o].image \in destIndexes

(* A promotion record names an index that the destination holds, byte for   *)
(* byte the accepted one, complete, and with exactly the manifests it lists: *)
(* whatever others push, whatever the registry rewrites, and although the    *)
(* accepted record itself may mix two indexes (promote, the three classes).  *)
PromotedIsAccepted ==
    \A o \in Operators : promoted[o] # None =>
        /\ promoted[o].image = promoted[o].source
        /\ promoted[o].image \in destIndexes \cap garIndexes
        /\ promoted[o].manifests = PlatformManifests(promoted[o].image)
        /\ promoted[o].image.platforms = Required

(* The accepted record lists the manifests of the index it names            *)
(* (RuntimeImagePublisher.publish: the digest is described and the manifests *)
(* are inspected in two calls, both under the tag).                          *)
RecordDescribesItsIndex ==
    \A o \in Operators : accepted[o] # None =>
        accepted[o].manifests = PlatformManifests(accepted[o].image)
=============================================================================
