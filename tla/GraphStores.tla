---------------------------- MODULE GraphStores ----------------------------
(***************************************************************************)
(* One graph in the stores whose requests do not interleave: the in-memory *)
(* store (a lock), PostgreSQL (a transaction) and the rooted local store   *)
(* (a lock, a journal file and a graph file, and a process that may die    *)
(* between two of its writes).  An answer may be lost after the change.    *)
(***************************************************************************)
EXTENDS Naturals

CONSTANTS
    Adapter,        \* "memory", "postgresql" or "local"
    Keys,           \* idempotency keys, used for creates and for deletes
    Docs,
    MaxRevision,    \* bound: revisions
    MaxCrashes      \* bound: crashes of a local process, and lost answers

StoresAssumption ==
    /\ Adapter \in {"memory", "postgresql", "local"}
    /\ MaxRevision \in Nat /\ MaxCrashes \in Nat

NoDoc == 0

VARIABLES
    graph,          \* the stored revision, 0 when there is none
    cj, dj,         \* results by key: of creates and of deletes
    revision,       \* the last revision given out
    work,           \* the request that holds the local store's lock, or NoWork
    created, replaced, removed,     \* history: revisions, as in GraphCatalog
    answers,        \* history: [op, key, rev, from]
    crashes

storesVars == <<graph, cj, dj, revision, work, created, replaced, removed, answers, crashes>>

\* An idempotency entry: its status, its request and its result.
NoEntry == [status |-> "none", req |-> NoDoc, rev |-> 0]
Entry(status, req, rev) == [status |-> status, req |-> req, rev |-> rev]

NoWork == [op |-> "none", key |-> NoDoc]

Revisions == created \union {p.rev : p \in replaced}

TypeOK ==
    /\ graph \in 0 .. MaxRevision /\ revision \in 0 .. MaxRevision
    /\ \A k \in Keys : \A entry \in {cj[k], dj[k]} :
         entry = NoEntry \/ (entry.status \in {"pending", "completed"} /\ entry.rev \in 1 .. revision)
    /\ work.op \in {"none", "create", "delete"}
    /\ Revisions \union removed \subseteq 1 .. revision
    /\ crashes \in 0 .. MaxCrashes

Init ==
    /\ graph = 0 /\ revision = 0
    /\ cj = [k \in Keys |-> NoEntry] /\ dj = [k \in Keys |-> NoEntry]
    /\ work = NoWork
    /\ created = {} /\ replaced = {} /\ removed = {}
    /\ answers = {} /\ crashes = 0

\* The client hears the answer, or does not.
ReplyFrom(op, key, rev, from) ==
    \/ answers' = answers \union {[op |-> op, key |-> key, rev |-> rev, from |-> from]} /\ UNCHANGED crashes
    \/ crashes < MaxCrashes /\ crashes' = crashes + 1 /\ UNCHANGED answers

Reply(op, key, rev) == ReplyFrom(op, key, rev, 0)

Quiet == UNCHANGED <<answers, crashes>>
New == revision + 1
CanMake == revision < MaxRevision

\* The revision a put or a delete names is the current one: compared under the
\* lock, or in the WHERE clause of the UPDATE or DELETE.
Matches(expected) == graph # 0 /\ graph = expected

-----------------------------------------------------------------------------
(***************************************************************************)
(* In memory.  A stored result is replayed to the same request and to no   *)
(* other; a request that fails leaves nothing behind.                      *)
(***************************************************************************)

MemoryCreate(k, d) ==
    /\ Adapter = "memory"
    /\ IF cj[k] # NoEntry
       THEN /\ cj[k].req = d /\ Reply("create", k, cj[k].rev)
            /\ UNCHANGED <<graph, revision, cj, created>>
       ELSE /\ graph = 0 /\ CanMake
            /\ revision' = New /\ graph' = New
            /\ created' = created \union {New}
            /\ cj' = [cj EXCEPT ![k] = Entry("completed", d, New)]
            /\ Reply("create", k, New)
    /\ UNCHANGED <<dj, work, replaced, removed>>

MemoryPut(expected) ==
    /\ Adapter = "memory"
    /\ Matches(expected) /\ CanMake
    /\ revision' = New /\ graph' = New
    /\ replaced' = replaced \union {[rev |-> New, from |-> graph]}
    /\ ReplyFrom("put", NoDoc, New, expected)
    /\ UNCHANGED <<cj, dj, work, created, removed>>

MemoryDelete(k, expected) ==
    /\ Adapter = "memory"
    /\ IF dj[k] # NoEntry
       THEN /\ dj[k].req = expected /\ Reply("delete", k, dj[k].rev)
            /\ UNCHANGED <<graph, dj, removed>>
       ELSE /\ Matches(expected)
            /\ graph' = 0
            /\ removed' = removed \union {graph}
            /\ dj' = [dj EXCEPT ![k] = Entry("completed", expected, graph)]
            /\ Reply("delete", k, graph)
    /\ UNCHANGED <<cj, revision, work, created, replaced>>

-----------------------------------------------------------------------------
(***************************************************************************)
(* PostgreSQL.  The reservation, the change and the result are one         *)
(* transaction, so a reservation without a result is never seen.           *)
(***************************************************************************)

\* What a transaction that raises leaves of its reservation.
Reservation(entry, req) == entry

\* _reserve_idempotency: claimed, or the result of the same request.
Claimed(entry) == entry = NoEntry
Replays(entry, req) == entry.status = "completed" /\ entry.req = req

\* A create that finds a graph is rolled back, its reservation included.
PostgreSQLCreate(k, d) ==
    /\ Adapter = "postgresql"
    /\ \/ /\ Replays(cj[k], d) /\ Reply("create", k, cj[k].rev)
          /\ UNCHANGED <<graph, revision, cj, created>>
       \/ /\ Claimed(cj[k]) /\ graph # 0
          /\ cj' = [cj EXCEPT ![k] = Reservation(@, d)]
          /\ Quiet /\ UNCHANGED <<graph, revision, created>>
       \/ /\ Claimed(cj[k]) /\ graph = 0 /\ CanMake
          /\ revision' = New /\ graph' = New
          /\ created' = created \union {New}
          /\ cj' = [cj EXCEPT ![k] = Entry("completed", d, New)]
          /\ Reply("create", k, New)
    /\ UNCHANGED <<dj, work, replaced, removed>>

PostgreSQLPut(expected) ==
    /\ Adapter = "postgresql"
    /\ Matches(expected) /\ CanMake
    /\ revision' = New /\ graph' = New
    /\ replaced' = replaced \union {[rev |-> New, from |-> graph]}
    /\ ReplyFrom("put", NoDoc, New, expected)
    /\ UNCHANGED <<cj, dj, work, created, removed>>

PostgreSQLDelete(k, expected) ==
    /\ Adapter = "postgresql"
    /\ \/ /\ Replays(dj[k], expected) /\ Reply("delete", k, dj[k].rev)
          /\ UNCHANGED <<graph, dj, removed>>
       \/ /\ Claimed(dj[k]) /\ ~Matches(expected)
          /\ dj' = [dj EXCEPT ![k] = Reservation(@, expected)]
          /\ Quiet /\ UNCHANGED <<graph, removed>>
       \/ /\ Claimed(dj[k]) /\ Matches(expected)
          /\ graph' = 0
          /\ removed' = removed \union {graph}
          /\ dj' = [dj EXCEPT ![k] = Entry("completed", expected, expected)]
          /\ Reply("delete", k, expected)
    /\ UNCHANGED <<cj, revision, work, created, replaced>>

-----------------------------------------------------------------------------
(***************************************************************************)
(* The rooted local store.  work is the request that holds the lock.       *)
(***************************************************************************)

LocalIdle == Adapter = "local" /\ work = NoWork

\* create: a journaled request is resumed; otherwise the pending journal, with
\* the planned revision, is the first durable write.
LocalCreate(k, d) ==
    /\ LocalIdle
    /\ \/ /\ cj[k] # NoEntry /\ cj[k].req = d
          /\ UNCHANGED <<cj, revision>>
       \/ /\ cj[k] = NoEntry /\ graph = 0 /\ CanMake
          /\ revision' = New
          /\ cj' = [cj EXCEPT ![k] = Entry("pending", d, New)]
    /\ work' = [op |-> "create", key |-> k]
    /\ Quiet /\ UNCHANGED <<graph, dj, created, replaced, removed>>

\* _resume_create up to the graph file: it is written if there is none, and
\* anything but the planned one is a conflict.
LocalCreateGraph ==
    /\ work.op = "create" /\ cj[work.key].status = "pending"
    /\ LET planned == cj[work.key].rev
       IN  \/ /\ graph = 0
              /\ graph' = planned
              /\ created' = created \union {planned}
              /\ UNCHANGED work
           \/ /\ graph \notin {0, planned}
              /\ work' = NoWork
              /\ UNCHANGED <<graph, created>>
    /\ Quiet /\ UNCHANGED <<cj, dj, revision, replaced, removed>>

\* Only the planned graph, unchanged, completes a create.
LocalInPlace(planned) == graph = planned

\* The journal is completed; a completed one is only replayed.
LocalCreateDone ==
    /\ work.op = "create"
    /\ cj[work.key].status = "pending" => LocalInPlace(cj[work.key].rev)
    /\ cj' = [cj EXCEPT ![work.key].status = "completed"]
    /\ work' = NoWork
    /\ Reply("create", work.key, cj[work.key].rev)
    /\ UNCHANGED <<graph, dj, revision, created, replaced, removed>>

\* put: one atomic replacement of the graph file.
LocalPut(expected) ==
    /\ LocalIdle
    /\ Matches(expected) /\ CanMake
    /\ revision' = New /\ graph' = New
    /\ replaced' = replaced \union {[rev |-> New, from |-> graph]}
    /\ ReplyFrom("put", NoDoc, New, expected)
    /\ UNCHANGED <<cj, dj, work, created, removed>>

LocalDelete(k, expected) ==
    /\ LocalIdle
    /\ \/ /\ dj[k] # NoEntry /\ dj[k].req = expected
          /\ UNCHANGED dj
       \/ /\ dj[k] = NoEntry /\ Matches(expected)
          /\ dj' = [dj EXCEPT ![k] = Entry("pending", expected, expected)]
    /\ work' = [op |-> "delete", key |-> k]
    /\ Quiet /\ UNCHANGED <<graph, cj, revision, created, replaced, removed>>

\* _resume_delete: only the expected revision is unlinked.
LocalErases(expected) == graph = expected

LocalDeleteGraph ==
    /\ work.op = "delete" /\ dj[work.key].status = "pending" /\ graph # 0
    /\ IF LocalErases(dj[work.key].rev)
       THEN /\ graph' = 0
            /\ removed' = removed \union {graph}
            /\ UNCHANGED work
       ELSE work' = NoWork /\ UNCHANGED <<graph, removed>>
    /\ Quiet /\ UNCHANGED <<cj, dj, revision, created, replaced>>

LocalDeleteDone ==
    /\ work.op = "delete"
    /\ dj[work.key].status = "pending" => graph = 0
    /\ dj' = [dj EXCEPT ![work.key].status = "completed"]
    /\ work' = NoWork
    /\ Reply("delete", work.key, dj[work.key].rev)
    /\ UNCHANGED <<graph, cj, revision, created, replaced, removed>>

\* The process dies with the lock and starts again; the files stay.
LocalCrash ==
    /\ work # NoWork /\ crashes < MaxCrashes
    /\ crashes' = crashes + 1
    /\ work' = NoWork
    /\ UNCHANGED <<graph, cj, dj, revision, created, replaced, removed, answers>>

-----------------------------------------------------------------------------

Next ==
    \/ \E k \in Keys, d \in Docs :
         MemoryCreate(k, d) \/ PostgreSQLCreate(k, d) \/ LocalCreate(k, d)
    \/ \E r \in Revisions : MemoryPut(r) \/ PostgreSQLPut(r) \/ LocalPut(r)
    \/ \E k \in Keys, r \in Revisions :
         MemoryDelete(k, r) \/ PostgreSQLDelete(k, r) \/ LocalDelete(k, r)
    \/ LocalCreateGraph \/ LocalCreateDone \/ LocalDeleteGraph \/ LocalDeleteDone \/ LocalCrash

Spec == Init /\ [][Next]_storesVars

-----------------------------------------------------------------------------
(***************************************************************************)
(* Properties.                                                             *)
(***************************************************************************)

Catalog == INSTANCE GraphCatalog WITH
    current <- graph, created <- created, replaced <- replaced, removed <- removed,
    answers <- {[op |-> a.op, rev |-> a.rev, from |-> a.from] : a \in answers}

\* The in-memory and PostgreSQL stores keep the promise of GraphCatalog, with
\* answers lost and requests retried at will.
KeepsCatalog == [Catalog!Next]_(Catalog!catalogVars)

\* A request that fails its precondition does not consume its key: an entry is
\* the result of a change that happened.
KeysAreResults ==
    \A k \in Keys : /\ cj[k] # NoEntry => cj[k].rev \in created
                    /\ dj[k] # NoEntry => dj[k].rev \in removed

True(a) ==
    CASE a.op = "create" -> a.rev \in created
      [] a.op = "put" -> [rev |-> a.rev, from |-> a.from] \in replaced
      [] a.op = "delete" -> a.rev \in removed

\* What the local store answers to a create or a put is true, over crashes at
\* any of its durable writes and resumed requests that come late: the graph it
\* tells of was made, from the revision the client had seen.
ChangesAreTrue == \A a \in answers : a.op # "delete" => True(a)

-----------------------------------------------------------------------------
(***************************************************************************)
(* The invariant of the stores, which ControlStoresProofs shows to be      *)
(* inductive for any number of keys, documents, revisions, crashes and     *)
(* lost answers.                                                           *)
(***************************************************************************)

Entries == [status : {"none", "pending", "completed"}, req : Docs \union Nat, rev : Nat]

StoreTypes ==
    /\ graph \in Nat /\ revision \in Nat
    /\ cj \in [Keys -> Entries] /\ dj \in [Keys -> Entries]
    /\ \A k \in Keys : /\ cj[k].status = "none" => cj[k] = NoEntry
                       /\ dj[k].status = "none" => dj[k] = NoEntry
    /\ \/ work = NoWork
       \/ /\ Adapter = "local" /\ work \in [op : {"create", "delete"}, key : Keys]
          /\ work.op = "create" => cj[work.key].status # "none"
          /\ work.op = "delete" => dj[work.key].status # "none"
    /\ \A a \in answers : a.op \in {"create", "put", "delete"}

\* Every revision is numbered, and what is stored or was removed was made.
RevisionsKnown ==
    /\ Revisions \subseteq Nat \ {0}
    /\ \A r \in Revisions : r <= revision
    /\ removed \subseteq Revisions
    /\ graph = 0 \/ graph \in Revisions

\* The journals: a planned create holds a revision no put has made, and what is
\* completed was made; only the local store shows a pending entry.
EntriesBacked ==
    \A k \in Keys :
      /\ cj[k].status # "none" => /\ 1 <= cj[k].rev /\ cj[k].rev <= revision
                                  /\ \A p \in replaced : p.rev # cj[k].rev
      /\ cj[k].status = "completed" => cj[k].rev \in created
      /\ dj[k].status # "none" => dj[k].rev \in Revisions
      /\ dj[k].status = "completed" /\ Adapter # "local" => dj[k].rev \in removed
      /\ cj[k].status = "pending" \/ dj[k].status = "pending" => Adapter = "local"

StoreInv == StoreTypes /\ RevisionsKnown /\ EntriesBacked /\ ChangesAreTrue
=============================================================================
