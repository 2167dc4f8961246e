---------------------------- MODULE ObjectReads ----------------------------
(***************************************************************************)
(* How the S3, Azure Blob, OCI and GCS graph stores read one object while  *)
(* others write it: the properties first, then the body on condition that  *)
(* the object is still the same, and again from the start when it is not.  *)
(* JournaledGraphStore takes such a read for one atomic step; this module  *)
(* is the reason why it may.                                               *)
(***************************************************************************)
EXTENDS Naturals, FiniteSets

CONSTANTS
    Provider,       \* "s3", "azure", "oci" or "gcs"
    MaxVersion      \* bound: writes and deletes

ReadsAssumption ==
    Provider \in {"s3", "azure", "oci", "gcs"} /\ MaxVersion \in Nat \ {0}

VARIABLES
    object,         \* the version stored now, 0 when there is none
    version,        \* the last version given out
    pc,             \* of the reader: "idle", "head", "get", "metadata", or how it ended
    tries,          \* rounds of the loop that are left
    head,           \* the version whose properties the reader has
    first,          \* GCS: the version in the blob that _read_graph holds
    result,         \* [body, etag, metadata] of a read that succeeded
    seen            \* history: what was stored at some time during the read

readVars == <<object, version, pc, tries, head, first, result, seen>>

Versions == 0 .. MaxVersion
Ended == {"found", "missing", "conflict", "failed"}
NoResult == [body |-> 0, etag |-> 0, metadata |-> 0]

TypeOK ==
    /\ object \in Versions /\ version \in Versions /\ object <= version
    /\ pc \in {"idle", "head", "get", "metadata"} \union Ended
    /\ tries \in 0 .. 3
    /\ head \in Versions /\ first \in Versions
    /\ result \in [body : Versions, etag : Versions, metadata : Versions]
    /\ seen \subseteq Versions

Init ==
    /\ object \in {0, 1} /\ version = 1
    /\ pc = "idle" /\ tries = 0 /\ head = 0 /\ first = 0
    /\ result = NoResult /\ seen = {}

\* A writer replaces or deletes the object; body and metadata change together.
Write ==
    /\ version < MaxVersion
    /\ version' = version + 1
    /\ object' \in {version + 1, 0} \ {object}
    /\ seen' = seen \union {object'}
    /\ UNCHANGED <<pc, tries, head, first, result>>

Rounds == IF Provider = "gcs" THEN 2 ELSE 3

Begin ==
    /\ pc \in {"idle"} \union Ended
    /\ pc' = "head"
    /\ tries' = Rounds
    /\ head' = 0 /\ first' = 0
    /\ result' = NoResult
    /\ seen' = {object}
    /\ UNCHANGED <<object, version>>

\* _head_object, or blob.reload: the ETag or generation, and the metadata.
Head ==
    /\ pc = "head"
    /\ pc' = IF object = 0 THEN "missing" ELSE "get"
    /\ head' = object
    /\ first' = IF tries = Rounds THEN object ELSE first
    /\ UNCHANGED <<object, version, tries, result, seen>>

\* Another round, or the loop is over.
Again ==
    /\ tries' = tries - 1
    /\ pc' = IF tries = 1 THEN "conflict" ELSE "head"
    /\ UNCHANGED <<head, result>>

\* response_etag != head.etag
Accepts(etag) == etag = head

Found(version_) == [body |-> version_, etag |-> head, metadata |-> head]

\* The conditional read.  A provider that lost the race says so, or answers with
\* the newer object.  GCS takes a missing object for an answer, the others look
\* at the properties again.
Get ==
    /\ pc = "get"
    /\ \/ /\ object = 0 /\ Provider = "gcs"
          /\ pc' = "missing" /\ UNCHANGED <<tries, head, result>>
       \/ object # head /\ (object = 0 => Provider # "gcs") /\ Again
       \/ /\ object # 0 /\ (Provider = "gcs" => object = head)
          /\ IF Accepts(object)
             THEN /\ result' = Found(object)
                  /\ pc' = IF Provider = "gcs" THEN "metadata" ELSE "found"
                  /\ UNCHANGED <<tries, head>>
             ELSE Again
    /\ UNCHANGED <<object, version, first, seen>>

SameBlob == first = result.etag

\* GCS _read_graph: the metadata is that of the blob the first round loaded.
Metadata ==
    /\ pc = "metadata"
    /\ pc' = IF SameBlob THEN "found" ELSE "conflict"
    /\ result' = IF SameBlob THEN [result EXCEPT !.metadata = first] ELSE NoResult
    /\ UNCHANGED <<object, version, tries, head, first, seen>>

\* Any call may fail, or the body may be closed or sized wrongly.
Fail ==
    /\ pc \in {"head", "get"}
    /\ pc' = "failed"
    /\ UNCHANGED <<object, version, tries, head, first, result, seen>>

Next == Write \/ Begin \/ Head \/ Get \/ Metadata \/ Fail

Spec == Init /\ [][Next]_readVars

-----------------------------------------------------------------------------

\* A read that succeeds returns the body, the revision and the metadata of one
\* version of the object, and that version was stored during the read; one that
\* reports a missing object was made while it was missing.
ReadsOneVersion ==
    /\ pc = "found" => /\ result.body = result.etag /\ result.metadata = result.etag
                       /\ result.etag # 0 /\ result.etag \in seen
    /\ pc = "missing" => 0 \in seen

\* A reader reports a conflict only when it was overtaken in every round: three
\* times for S3, Azure and OCI; for GCS once is enough, since the metadata it
\* compares in the end are those of the first round.
GivesUpWhenOvertaken ==
    pc = "conflict" => Cardinality(seen) > IF Provider = "gcs" THEN 1 ELSE 3

\* The inductive invariant.  Versions are given out once, in order, so an object
\* that is not the one the reader looked at is newer or gone; a round that was
\* overtaken leaves another version behind.
Passed == {n \in seen : n # 0 /\ n <= head}
LostRounds == Rounds - tries

ReadInv ==
    /\ TypeOK
    /\ pc \notin {"idle"} \union Ended => object \in seen /\ tries > 0 /\ tries <= Rounds
    /\ pc \in {"head", "get"} => head <= version
    /\ pc = "head" => /\ first \in seen \union {0} /\ (tries # Rounds => first # 0)
                      /\ tries = Rounds => head = 0
                      /\ object # 0 => object > head
                      /\ Cardinality(Passed) >= LostRounds
    /\ pc = "get" => /\ head # 0 /\ head \in seen /\ first # 0 /\ first \in seen
                     /\ object # 0 => object >= head
                     /\ Cardinality(Passed) >= LostRounds + 1
    /\ pc = "metadata" => /\ Provider = "gcs"
                          /\ first # 0 /\ first \in seen /\ result = Found(head)
                          /\ head # 0 /\ head \in seen
    /\ ReadsOneVersion /\ GivesUpWhenOvertaken
=============================================================================
