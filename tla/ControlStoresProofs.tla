------------------------ MODULE ControlStoresProofs ------------------------
(***************************************************************************)
(* Theorems about the schedules and the graph stores of Control, for every *)
(* value of every part's constants.  A behaviour of the suite is one of    *)
(* one part, so an invariant of the suite says, part by part, what the     *)
(* part's own inductive invariant says.                                    *)
(***************************************************************************)
EXTENDS ControlPlane, FiniteSetTheorems, SequenceTheorems, WellFoundedInduction, TLAPS

\* A behaviour of the suite starts as its part does.
LEMMA InitOfPart ==
    ASSUME Init
    PROVE  /\ part = "leader" => Leader!Init
           /\ part = "redelivery" => Redelivery!Init
           /\ part = "sqs" => Sqs!Init
           /\ part = "journal" => Journal!Init
           /\ \A p \in StoreParts : part = p => StoreOf(p)!Init
           /\ \A p \in ReadParts : part = p => Read(p)!Init
           /\ \A p \in ListParts : part = p => Listing(p)!Init
BY DEF Init, StoreParts, ReadParts, ListParts, RequestParts, SelectParts, BackendParts, SparkParts

\* A step of the suite is a step of its part.
LEMMA StepOfPart ==
    ASSUME [Next]_suiteVars
    PROVE  /\ part' = part
           /\ part = "leader" => [Leader!Next]_(Leader!scheduleVars)
           /\ part = "redelivery" => [Redelivery!Next]_(Redelivery!scheduleVars)
           /\ part = "sqs" => [Sqs!Next]_(Sqs!scheduleVars)
           /\ part = "journal" => [Journal!Next]_(Journal!storeVars)
<1>1. CASE UNCHANGED suiteVars
  BY <1>1 DEF suiteVars, Leader!scheduleVars, Redelivery!scheduleVars, Sqs!scheduleVars, Journal!storeVars
<1>2. CASE Next
  BY <1>2 DEF Next, StoreParts, ReadParts, ListParts, RequestParts, SelectParts, BackendParts, SparkParts
<1> QED BY <1>1, <1>2

\* A step of the suite in a store is a step of that store.
LEMMA StoreStepOfPart ==
    ASSUME [Next]_suiteVars, NEW p \in StoreParts, part = p
    PROVE  [StoreOf(p)!Next]_(StoreOf(p)!storesVars)
<1>1. CASE UNCHANGED suiteVars
  BY <1>1 DEF suiteVars, StoreOf!storesVars
<1>2. CASE Next
  BY <1>2 DEF Next, StoreParts, ReadParts, ListParts, RequestParts, SelectParts, BackendParts, SparkParts
<1> QED BY <1>1, <1>2

-----------------------------------------------------------------------------
(***************************************************************************)
(* Schedules.                                                              *)
(***************************************************************************)

SchedulesInv ==
    /\ part = "leader" => Leader!ScheduleInv
    /\ part = "redelivery" => Redelivery!ScheduleInv
    /\ part = "sqs" => Sqs!ScheduleInv

\* No queue has lost anything before the first tick, and none has a run.
LEMMA SchedulesInitial ==
    ASSUME Init
    PROVE  /\ SchedulesInv
           /\ part = "leader" => Leader!Promise!Init
           /\ part = "redelivery" => Redelivery!Promise!Init
           /\ part = "sqs" => Sqs!Promise!Init
BY InitOfPart, InstancesAssumption, Leader!ScheduleInitial, Redelivery!ScheduleInitial, Sqs!ScheduleInitial
   DEF SchedulesInv

\* And none loses anything in a step.
LEMMA SchedulesStep ==
    ASSUME SchedulesInv, [Next]_suiteVars
    PROVE  /\ SchedulesInv'
           /\ part = "leader" => Leader!KeepsPromise /\ Leader!CursorHeld
           /\ part = "redelivery" => Redelivery!KeepsPromise /\ Redelivery!CursorHeld
           /\ part = "sqs" => Sqs!KeepsPromise /\ Sqs!CursorHeld
BY StepOfPart, InstancesAssumption, Leader!ScheduleStep, Redelivery!ScheduleStep, Sqs!ScheduleStep
   DEF SchedulesInv

\* Whichever leader dies between computing an occurrence and enqueueing it, over
\* either queue, every occurrence a trigger has yielded is kept, and none is
\* produced before the clocks say so.
THEOREM SchedulesLoseNothing == Spec => []NothingLost
<1>1. SchedulesInv => NothingLost
  BY DEF SchedulesInv, NothingLost, Leader!ScheduleInv, Redelivery!ScheduleInv, Sqs!ScheduleInv
<1> QED BY <1>1, SchedulesInitial, SchedulesStep, PTL DEF Spec

\* Schedules implement ScheduledRuns: one run per occurrence and no occurrence
\* dropped, over redelivery, retries, leaders in turn with clocks of their own
\* and late handlers; and a cursor goes back only with its definition.
THEOREM SchedulesKeepTheirPromise == Spec => OneRunPerOccurrence
BY SchedulesInitial, SchedulesStep, PTL DEF Spec, OneRunPerOccurrence

-----------------------------------------------------------------------------
(***************************************************************************)
(* The three simple graph stores.  The variables are those of GraphStores: *)
(* graph is v1, cj v2, dj v3, revision v4, work v5, created v6, replaced   *)
(* v7, removed v8, answers v9 and crashes v10.                             *)
(***************************************************************************)

\* Before the first request the invariant holds.
LEMMA StoreInitial ==
    ASSUME NEW p \in StoreParts, StoreOf(p)!Init
    PROVE  StoreOf(p)!StoreInv
<1>1. StoreOf(p)!NoEntry \in StoreOf(p)!Entries
  BY DEF StoreOf!NoEntry, StoreOf!Entries, StoreOf!NoDoc
<1>2. StoreOf(p)!StoreTypes
  BY <1>1 DEF StoreOf!Init, StoreOf!StoreTypes, StoreOf!NoEntry
<1>3. StoreOf(p)!RevisionsKnown /\ StoreOf(p)!EntriesBacked /\ StoreOf(p)!ChangesAreTrue
  BY <1>2 DEF StoreOf!Init, StoreOf!StoreTypes, StoreOf!RevisionsKnown, StoreOf!Revisions, StoreOf!EntriesBacked, StoreOf!ChangesAreTrue, StoreOf!NoEntry
<1> QED BY <1>2, <1>3 DEF StoreOf!StoreInv

\* An answer, heard or lost, keeps the answers true when it is true itself.
LEMMA ReplyStep ==
    ASSUME NEW p \in StoreParts, StoreOf(p)!StoreInv, NEW op \in {"create", "put", "delete"}, NEW key, NEW rev, NEW from,
           StoreOf(p)!ReplyFrom(op, key, rev, from),
           v6 \subseteq v6', v7 \subseteq v7',
           op = "create" => rev \in v6',
           op = "put" => [rev |-> rev, from |-> from] \in v7'
    PROVE  StoreOf(p)!ChangesAreTrue' /\ (\A a \in v9 : a.op \in {"create", "put", "delete"})'
<1> USE DEF StoreOf!StoreInv, StoreOf!StoreTypes, StoreOf!ChangesAreTrue, StoreOf!True
<1>1. CASE UNCHANGED v9
  BY <1>1
<1>2. CASE v9' = v9 \union {[op |-> op, key |-> key, rev |-> rev, from |-> from]}
  <2>1. \A a \in v9 : a.op # "delete" => StoreOf(p)!True(a)'
    BY <1>2
  <2>2. LET a == [op |-> op, key |-> key, rev |-> rev, from |-> from]
        IN  a.op \in {"create", "put", "delete"} /\ (a.op # "delete" => StoreOf(p)!True(a)')
    BY <1>2
  <2> QED BY <1>2, <2>1, <2>2
<1> QED BY <1>1, <1>2 DEF StoreOf!ReplyFrom

\* A silent step keeps the answers true.
LEMMA QuietStep ==
    ASSUME NEW p \in StoreParts, StoreOf(p)!StoreInv, UNCHANGED v9, v6 \subseteq v6', v7 \subseteq v7'
    PROVE  StoreOf(p)!ChangesAreTrue' /\ (\A a \in v9 : a.op \in {"create", "put", "delete"})'
BY DEF StoreOf!StoreInv, StoreOf!StoreTypes, StoreOf!ChangesAreTrue, StoreOf!True

\* The next revision is one that nothing has made.
LEMMA FreshRevision ==
    ASSUME NEW p \in StoreParts, StoreOf(p)!StoreInv
    PROVE  StoreOf(p)!New \in Nat \ {0} /\ StoreOf(p)!New \notin StoreOf(p)!Revisions /\ \A c \in v7 : c.rev # StoreOf(p)!New
<1>1. StoreOf(p)!New \in Nat /\ StoreOf(p)!New > v4 /\ v4 \in Nat
  BY DEF StoreOf!New, StoreOf!StoreInv, StoreOf!StoreTypes
<1>2. StoreOf(p)!New \notin StoreOf(p)!Revisions
  BY <1>1 DEF StoreOf!StoreInv, StoreOf!RevisionsKnown
<1> QED BY <1>1, <1>2 DEF StoreOf!Revisions

\* A create by the memory or the PostgreSQL store, as a replay, as a refusal or
\* as a change.
LEMMA CreateStep ==
    ASSUME NEW p \in StoreParts, StoreOf(p)!StoreInv, NEW k \in Setup[p].Keys, NEW d \in Setup[p].Docs,
           StoreOf(p)!MemoryCreate(k, d) \/ StoreOf(p)!PostgreSQLCreate(k, d)
    PROVE  StoreOf(p)!StoreInv'
<1> USE DEF StoreOf!StoreInv, StoreOf!StoreTypes
<1>0. p # "local" /\ UNCHANGED <<v3, v5, v7, v8>>
  BY DEF StoreOf!MemoryCreate, StoreOf!PostgreSQLCreate
<1>1. CASE UNCHANGED <<v1, v4, v2, v6>>
  <2>1. StoreOf(p)!Quiet \/ (StoreOf(p)!Reply("create", k, v2[k].rev) /\ v2[k].status = "completed")
    <3>1. v2[k] # StoreOf(p)!NoEntry => v2[k].status = "completed"
      BY <1>0 DEF StoreOf!EntriesBacked, StoreOf!Entries
    <3>2. StoreOf(p)!New # v4
      BY DEF StoreOf!New
    <3>3. CASE StoreOf(p)!MemoryCreate(k, d)
      BY <3>1, <3>2, <3>3, <1>1 DEF StoreOf!MemoryCreate
    <3>4. CASE StoreOf(p)!PostgreSQLCreate(k, d)
      BY <3>1, <3>2, <3>4, <1>1 DEF StoreOf!PostgreSQLCreate, StoreOf!Replays
    <3> QED BY <3>3, <3>4
  <2>2. StoreOf(p)!ChangesAreTrue' /\ (\A a \in v9 : a.op \in {"create", "put", "delete"})'
    BY <1>0, <1>1, <2>1, ReplyStep, QuietStep DEF StoreOf!Quiet, StoreOf!Reply, StoreOf!EntriesBacked
  <2>3. StoreOf(p)!StoreTypes'
    BY <1>0, <1>1, <2>2
  <2>4. StoreOf(p)!RevisionsKnown' /\ StoreOf(p)!EntriesBacked'
    BY <1>0, <1>1 DEF StoreOf!RevisionsKnown, StoreOf!Revisions, StoreOf!EntriesBacked
  <2> QED BY <2>2, <2>3, <2>4
<1>2. CASE /\ v2[k] = StoreOf(p)!NoEntry /\ v1 = 0
           /\ v4' = StoreOf(p)!New /\ v1' = StoreOf(p)!New /\ v6' = v6 \union {StoreOf(p)!New}
           /\ v2' = [v2 EXCEPT ![k] = StoreOf(p)!Entry("completed", d, StoreOf(p)!New)]
           /\ StoreOf(p)!Reply("create", k, StoreOf(p)!New)
  <2>1. StoreOf(p)!New \in Nat /\ StoreOf(p)!New = v4 + 1 /\ StoreOf(p)!Entry("completed", d, StoreOf(p)!New) \in StoreOf(p)!Entries
    BY DEF StoreOf!New, StoreOf!Entry, StoreOf!Entries
  <2>2. StoreOf(p)!ChangesAreTrue' /\ (\A a \in v9 : a.op \in {"create", "put", "delete"})'
    BY <1>0, <1>2, ReplyStep DEF StoreOf!Reply
  <2>3. StoreOf(p)!StoreTypes'
    BY <1>0, <1>2, <2>1, <2>2 DEF StoreOf!Entry
  <2>4. StoreOf(p)!Revisions' = StoreOf(p)!Revisions \union {StoreOf(p)!New}
    BY <1>0, <1>2 DEF StoreOf!Revisions
  <2>5. StoreOf(p)!RevisionsKnown'
    BY <1>0, <1>2, <2>1, <2>4 DEF StoreOf!RevisionsKnown
  <2>6. \A c \in v7 : c.rev # StoreOf(p)!New
    BY <2>1, FreshRevision
  <2>7. StoreOf(p)!EntriesBacked'
    BY <1>0, <1>2, <2>1, <2>3, <2>4, <2>6 DEF StoreOf!EntriesBacked, StoreOf!Entry, StoreOf!Entries
  <2> QED BY <2>2, <2>3, <2>5, <2>7
<1>3. CASE v2' = [v2 EXCEPT ![k] = StoreOf(p)!Reservation(@, d)] /\ UNCHANGED <<v1, v4, v6>> 
  BY <1>1, <1>3 DEF StoreOf!Reservation
<1> QED BY <1>1, <1>2, <1>3 DEF StoreOf!MemoryCreate, StoreOf!PostgreSQLCreate, StoreOf!Claimed

\* A put, by any of the stores.
LEMMA PutStep ==
    ASSUME NEW p \in StoreParts, StoreOf(p)!StoreInv, NEW r \in StoreOf(p)!Revisions,
           StoreOf(p)!MemoryPut(r) \/ StoreOf(p)!PostgreSQLPut(r) \/ StoreOf(p)!LocalPut(r)
    PROVE  StoreOf(p)!StoreInv'
<1> USE DEF StoreOf!StoreInv, StoreOf!StoreTypes
<1>1. /\ v1 = r /\ v1 # 0 /\ v4' = StoreOf(p)!New /\ v1' = StoreOf(p)!New
      /\ v7' = v7 \union {[rev |-> StoreOf(p)!New, from |-> v1]}
      /\ StoreOf(p)!ReplyFrom("put", StoreOf(p)!NoDoc, StoreOf(p)!New, r)
      /\ UNCHANGED <<v2, v3, v5, v6, v8>>
  BY DEF StoreOf!MemoryPut, StoreOf!PostgreSQLPut, StoreOf!LocalPut, StoreOf!Matches
<1>2. StoreOf(p)!New \in Nat /\ StoreOf(p)!New = v4 + 1
  BY DEF StoreOf!New
<1>3. StoreOf(p)!ChangesAreTrue' /\ (\A a \in v9 : a.op \in {"create", "put", "delete"})'
  BY <1>1, ReplyStep
<1>4. StoreOf(p)!StoreTypes'
  BY <1>1, <1>2, <1>3
<1>5. StoreOf(p)!Revisions' = StoreOf(p)!Revisions \union {StoreOf(p)!New}
  <2> DEFINE put == [rev |-> StoreOf(p)!New, from |-> v1]
  <2>1. put.rev = StoreOf(p)!New /\ v7' = v7 \union {put}
    BY <1>1
  <2> HIDE DEF put
  <2>2. {c.rev : c \in v7'} = {c.rev : c \in v7} \union {StoreOf(p)!New}
    BY <2>1
  <2> QED BY <1>1, <2>2 DEF StoreOf!Revisions
<1>6. StoreOf(p)!RevisionsKnown'
  BY <1>1, <1>2, <1>5 DEF StoreOf!RevisionsKnown
<1>7. StoreOf(p)!EntriesBacked'
  BY <1>1, <1>2, <1>5 DEF StoreOf!EntriesBacked, StoreOf!Entries
<1> QED BY <1>3, <1>4, <1>6, <1>7

\* A delete by the memory or the PostgreSQL store.
LEMMA DeleteStep ==
    ASSUME NEW p \in StoreParts, StoreOf(p)!StoreInv, NEW k \in Setup[p].Keys, NEW r \in StoreOf(p)!Revisions,
           StoreOf(p)!MemoryDelete(k, r) \/ StoreOf(p)!PostgreSQLDelete(k, r)
    PROVE  StoreOf(p)!StoreInv'
<1> USE DEF StoreOf!StoreInv, StoreOf!StoreTypes
<1>0. p # "local" /\ UNCHANGED <<v2, v4, v5, v6, v7>>
  BY DEF StoreOf!MemoryDelete, StoreOf!PostgreSQLDelete
<1>1. CASE UNCHANGED <<v1, v3, v8>>
  <2>1. StoreOf(p)!Quiet \/ StoreOf(p)!Reply("delete", k, v3[k].rev)
    BY <1>1 DEF StoreOf!MemoryDelete, StoreOf!PostgreSQLDelete, StoreOf!Matches
  <2>2. StoreOf(p)!ChangesAreTrue' /\ (\A a \in v9 : a.op \in {"create", "put", "delete"})'
    BY <1>0, <2>1, ReplyStep, QuietStep DEF StoreOf!Quiet, StoreOf!Reply
  <2>3. StoreOf(p)!StoreTypes'
    BY <1>0, <1>1, <2>2
  <2>4. StoreOf(p)!RevisionsKnown' /\ StoreOf(p)!EntriesBacked'
    BY <1>0, <1>1 DEF StoreOf!RevisionsKnown, StoreOf!Revisions, StoreOf!EntriesBacked
  <2> QED BY <2>2, <2>3, <2>4
<1>2. CASE /\ v1 = r /\ v1' = 0 /\ v8' = v8 \union {v1}
           /\ v3' = [v3 EXCEPT ![k] = StoreOf(p)!Entry("completed", r, r)]
           /\ StoreOf(p)!Reply("delete", k, r)
  <2>1. StoreOf(p)!Entry("completed", r, r) \in StoreOf(p)!Entries
    BY DEF StoreOf!Entry, StoreOf!Entries, StoreOf!RevisionsKnown
  <2>2. StoreOf(p)!ChangesAreTrue' /\ (\A a \in v9 : a.op \in {"create", "put", "delete"})'
    BY <1>0, <1>2, ReplyStep DEF StoreOf!Reply
  <2>3. StoreOf(p)!StoreTypes'
    BY <1>0, <1>2, <2>1, <2>2 DEF StoreOf!Entry
  <2>4. StoreOf(p)!Revisions' = StoreOf(p)!Revisions
    BY <1>0 DEF StoreOf!Revisions
  <2>5. StoreOf(p)!RevisionsKnown'
    BY <1>0, <1>2, <2>4 DEF StoreOf!RevisionsKnown
  <2>6. StoreOf(p)!EntriesBacked'
    BY <1>0, <1>2, <2>4 DEF StoreOf!EntriesBacked, StoreOf!Entry, StoreOf!Entries
  <2> QED BY <2>2, <2>3, <2>5, <2>6
<1>3. CASE v3' = [v3 EXCEPT ![k] = StoreOf(p)!Reservation(@, r)] /\ UNCHANGED <<v1, v8>>
  BY <1>1, <1>3 DEF StoreOf!Reservation
<1> QED BY <1>1, <1>2, <1>3 DEF StoreOf!MemoryDelete, StoreOf!PostgreSQLDelete, StoreOf!Matches

\* The local store takes up a create or a delete: the journal is written first.
LEMMA LocalBeginStep ==
    ASSUME NEW p \in StoreParts, StoreOf(p)!StoreInv, NEW k \in Setup[p].Keys,
           \/ \E d \in Setup[p].Docs : StoreOf(p)!LocalCreate(k, d)
           \/ \E r \in StoreOf(p)!Revisions : StoreOf(p)!LocalDelete(k, r)
    PROVE  StoreOf(p)!StoreInv'
<1> USE DEF StoreOf!StoreInv, StoreOf!StoreTypes
<1>0. /\ p = "local" /\ UNCHANGED <<v1, v6, v7, v8, v9>>
  BY DEF StoreOf!LocalCreate, StoreOf!LocalDelete, StoreOf!LocalIdle, StoreOf!Quiet
<1>w. /\ v5' \in [op : {"create", "delete"}, key : Setup[p].Keys]
      /\ v5'.op = "create" => v2'[v5'.key].status # "none"
      /\ v5'.op = "delete" => v3'[v5'.key].status # "none"
  BY DEF StoreOf!LocalCreate, StoreOf!LocalDelete, StoreOf!Entry
<1>1. StoreOf(p)!ChangesAreTrue' /\ (\A a \in v9 : a.op \in {"create", "put", "delete"})'
  BY <1>0, QuietStep
<1>2. StoreOf(p)!Revisions' = StoreOf(p)!Revisions
  BY <1>0 DEF StoreOf!Revisions
<1>3. CASE UNCHANGED <<v2, v3, v4>>
  <2>1. StoreOf(p)!StoreTypes'
    BY <1>0, <1>w, <1>1, <1>3
  <2> QED BY <1>0, <1>1, <1>2, <1>3, <2>1 DEF StoreOf!RevisionsKnown, StoreOf!EntriesBacked
<1>4. ASSUME NEW d \in Setup[p].Docs, v4' = StoreOf(p)!New, UNCHANGED v3,
             v2' = [v2 EXCEPT ![k] = StoreOf(p)!Entry("pending", d, StoreOf(p)!New)]
      PROVE  StoreOf(p)!StoreInv'
  <2>1. StoreOf(p)!New \in Nat /\ StoreOf(p)!New = v4 + 1 /\ StoreOf(p)!Entry("pending", d, StoreOf(p)!New) \in StoreOf(p)!Entries
    BY DEF StoreOf!New, StoreOf!Entry, StoreOf!Entries
  <2>2. StoreOf(p)!StoreTypes'
    BY <1>0, <1>w, <1>1, <1>4, <2>1 DEF StoreOf!Entry
  <2>3. StoreOf(p)!RevisionsKnown'
    BY <1>0, <1>2, <1>4, <2>1 DEF StoreOf!RevisionsKnown
  <2>4. \A c \in v7 : c.rev # StoreOf(p)!New
    BY <2>1, FreshRevision
  <2>5. StoreOf(p)!EntriesBacked'
    BY <1>0, <1>2, <1>4, <2>1, <2>4 DEF StoreOf!EntriesBacked, StoreOf!Entry, StoreOf!Entries
  <2> QED BY <1>1, <2>2, <2>3, <2>5
<1>5. ASSUME NEW r \in StoreOf(p)!Revisions, UNCHANGED <<v2, v4>>,
             v3' = [v3 EXCEPT ![k] = StoreOf(p)!Entry("pending", r, r)]
      PROVE  StoreOf(p)!StoreInv'
  <2>1. StoreOf(p)!Entry("pending", r, r) \in StoreOf(p)!Entries
    BY DEF StoreOf!Entry, StoreOf!Entries, StoreOf!RevisionsKnown
  <2>2. StoreOf(p)!StoreTypes'
    BY <1>0, <1>w, <1>1, <1>5, <2>1 DEF StoreOf!Entry
  <2>3. StoreOf(p)!RevisionsKnown'
    BY <1>0, <1>2, <1>5 DEF StoreOf!RevisionsKnown
  <2>4. StoreOf(p)!EntriesBacked'
    BY <1>0, <1>2, <1>5 DEF StoreOf!EntriesBacked, StoreOf!Entry, StoreOf!Entries
  <2> QED BY <1>1, <2>2, <2>3, <2>4
<1> QED BY <1>3, <1>4, <1>5 DEF StoreOf!LocalCreate, StoreOf!LocalDelete

\* The local store's graph file is written, unlinked or found to be another's.
LEMMA LocalFileStep ==
    ASSUME NEW p \in StoreParts, StoreOf(p)!StoreInv, StoreOf(p)!LocalCreateGraph \/ StoreOf(p)!LocalDeleteGraph \/ StoreOf(p)!LocalCrash
    PROVE  StoreOf(p)!StoreInv'
<1> USE DEF StoreOf!StoreInv, StoreOf!StoreTypes
<1>0. /\ UNCHANGED <<v2, v3, v4, v7, v9>> /\ v6 \subseteq v6'
      /\ v5' \in {v5, StoreOf(p)!NoWork}
  BY DEF StoreOf!LocalCreateGraph, StoreOf!LocalDeleteGraph, StoreOf!LocalCrash, StoreOf!Quiet
<1>1. StoreOf(p)!ChangesAreTrue' /\ (\A a \in v9 : a.op \in {"create", "put", "delete"})'
  BY <1>0, QuietStep
<1>2. CASE UNCHANGED <<v1, v6, v8>>
  BY <1>0, <1>1, <1>2 DEF StoreOf!RevisionsKnown, StoreOf!Revisions, StoreOf!EntriesBacked
<1>3. ASSUME NEW k \in Setup[p].Keys, v2[k].status = "pending", UNCHANGED v8,
             v1' = v2[k].rev, v6' = v6 \union {v2[k].rev}
      PROVE  StoreOf(p)!StoreInv'
  <2>1. v2[k].rev \in Nat /\ 1 <= v2[k].rev /\ v2[k].rev <= v4
    BY <1>3 DEF StoreOf!EntriesBacked, StoreOf!Entries
  <2>2. StoreOf(p)!Revisions' = StoreOf(p)!Revisions \union {v2[k].rev}
    BY <1>0, <1>3 DEF StoreOf!Revisions
  <2>3. StoreOf(p)!RevisionsKnown'
    <3>1. v2[k].rev \in Nat \ {0}
      BY <2>1
    <3> QED BY <1>0, <1>3, <2>1, <2>2, <3>1 DEF StoreOf!RevisionsKnown
  <2>4. StoreOf(p)!StoreTypes'
    BY <1>0, <1>1, <1>3, <2>1
  <2>5. StoreOf(p)!EntriesBacked'
    BY <1>0, <1>3, <2>2 DEF StoreOf!EntriesBacked
  <2> QED BY <1>1, <2>3, <2>4, <2>5
<1>4. CASE v1 # 0 /\ v1' = 0 /\ v8' = v8 \union {v1} /\ UNCHANGED v6
  BY <1>0, <1>1, <1>4 DEF StoreOf!RevisionsKnown, StoreOf!Revisions, StoreOf!EntriesBacked
<1>5. StoreOf(p)!LocalCreateGraph => v5.key \in Setup[p].Keys
  BY DEF StoreOf!LocalCreateGraph, StoreOf!NoWork
<1> QED BY <1>2, <1>3, <1>4, <1>5 DEF StoreOf!LocalCreateGraph, StoreOf!LocalDeleteGraph, StoreOf!LocalCrash

\* The local store completes a journal and answers: the graph in place is the
\* planned one, which only a create has made.
LEMMA LocalDoneStep ==
    ASSUME NEW p \in StoreParts, StoreOf(p)!StoreInv, StoreOf(p)!LocalCreateDone \/ StoreOf(p)!LocalDeleteDone
    PROVE  StoreOf(p)!StoreInv'
<1> USE DEF StoreOf!StoreInv, StoreOf!StoreTypes
<1>0. /\ v5.key \in Setup[p].Keys /\ p = "local" /\ v5' = StoreOf(p)!NoWork
      /\ UNCHANGED <<v1, v4, v6, v7, v8>>
  BY DEF StoreOf!LocalCreateDone, StoreOf!LocalDeleteDone, StoreOf!NoWork
<1>1. StoreOf(p)!Revisions' = StoreOf(p)!Revisions
  BY <1>0 DEF StoreOf!Revisions
<1> DEFINE k == v5.key
<1>2. CASE StoreOf(p)!LocalCreateDone /\ v2[k].status # "none"
  <2>1. v2[k].rev \in v6
    BY <1>0, <1>2 DEF StoreOf!LocalCreateDone, StoreOf!LocalInPlace, StoreOf!EntriesBacked, StoreOf!Entries, StoreOf!RevisionsKnown, StoreOf!Revisions
  <2>2. StoreOf(p)!ChangesAreTrue' /\ (\A a \in v9 : a.op \in {"create", "put", "delete"})'
    BY <1>0, <1>2, <2>1, ReplyStep DEF StoreOf!LocalCreateDone, StoreOf!Reply
  <2>3. v2' \in [Setup[p].Keys -> StoreOf(p)!Entries] /\ v2'[k].status = "completed" /\ v2'[k].rev = v2[k].rev
        /\ \A j \in Setup[p].Keys \ {k} : v2'[j] = v2[j]
    <3>1. v2 \in [Setup[p].Keys -> StoreOf(p)!Entries] /\ v2' = [v2 EXCEPT ![k].status = "completed"]
      BY <1>2 DEF StoreOf!LocalCreateDone
    <3>2. [v2[k] EXCEPT !.status = "completed"] \in StoreOf(p)!Entries
      BY <1>0, <3>1 DEF StoreOf!Entries
    <3>3. /\ [v2[k] EXCEPT !.status = "completed"].status = "completed"
          /\ [v2[k] EXCEPT !.status = "completed"].rev = v2[k].rev
      BY <1>0, <3>1 DEF StoreOf!Entries
    <3> QED BY <1>0, <3>1, <3>2, <3>3
  <2>4. StoreOf(p)!StoreTypes' /\ v3' = v3
    BY <1>0, <1>2, <2>2, <2>3 DEF StoreOf!LocalCreateDone
  <2>5. StoreOf(p)!EntriesBacked' /\ StoreOf(p)!RevisionsKnown'
    BY <1>0, <1>1, <1>2, <2>1, <2>3, <2>4 DEF StoreOf!EntriesBacked, StoreOf!RevisionsKnown
  <2> QED BY <2>2, <2>4, <2>5
<1>3. CASE StoreOf(p)!LocalDeleteDone /\ v3[k].status # "none"
  <2>2. StoreOf(p)!ChangesAreTrue' /\ (\A a \in v9 : a.op \in {"create", "put", "delete"})'
    BY <1>0, <1>3, ReplyStep DEF StoreOf!LocalDeleteDone, StoreOf!Reply
  <2>3. v3' \in [Setup[p].Keys -> StoreOf(p)!Entries] /\ v3'[k].status = "completed" /\ v3'[k].rev = v3[k].rev
        /\ \A j \in Setup[p].Keys \ {k} : v3'[j] = v3[j]
    <3>1. v3 \in [Setup[p].Keys -> StoreOf(p)!Entries] /\ v3' = [v3 EXCEPT ![k].status = "completed"]
      BY <1>3 DEF StoreOf!LocalDeleteDone
    <3>2. [v3[k] EXCEPT !.status = "completed"] \in StoreOf(p)!Entries
      BY <1>0, <3>1 DEF StoreOf!Entries
    <3>3. /\ [v3[k] EXCEPT !.status = "completed"].status = "completed"
          /\ [v3[k] EXCEPT !.status = "completed"].rev = v3[k].rev
      BY <1>0, <3>1 DEF StoreOf!Entries
    <3> QED BY <1>0, <3>1, <3>2, <3>3
  <2>4. StoreOf(p)!StoreTypes' /\ v2' = v2
    BY <1>0, <1>3, <2>2, <2>3 DEF StoreOf!LocalDeleteDone
  <2>5. StoreOf(p)!EntriesBacked' /\ StoreOf(p)!RevisionsKnown'
    BY <1>0, <1>1, <1>3, <2>3, <2>4 DEF StoreOf!EntriesBacked, StoreOf!RevisionsKnown
  <2> QED BY <2>2, <2>4, <2>5
<1> QED BY <1>0, <1>2, <1>3 DEF StoreOf!LocalCreateDone, StoreOf!LocalDeleteDone, StoreOf!NoWork

\* Every step of every store keeps the invariant.
LEMMA StoreStep ==
    ASSUME NEW p \in StoreParts, StoreOf(p)!StoreInv, [StoreOf(p)!Next]_(StoreOf(p)!storesVars)
    PROVE  StoreOf(p)!StoreInv'
<1>1. CASE UNCHANGED StoreOf(p)!storesVars
  BY <1>1 DEF StoreOf!storesVars, StoreOf!StoreInv, StoreOf!StoreTypes, StoreOf!RevisionsKnown, StoreOf!Revisions, StoreOf!EntriesBacked, StoreOf!ChangesAreTrue, StoreOf!True
<1>2. CASE StoreOf(p)!Next
  BY <1>2, CreateStep, PutStep, DeleteStep, LocalBeginStep, LocalFileStep, LocalDoneStep DEF StoreOf!Next
<1> QED BY <1>1, <1>2

\* Without the local store's journals every entry is a result.
LEMMA KeysFromInv ==
    ASSUME NEW p \in StoreParts, StoreOf(p)!StoreInv, p # "local"
    PROVE  StoreOf(p)!KeysAreResults
BY DEF StoreOf!StoreInv, StoreOf!StoreTypes, StoreOf!EntriesBacked, StoreOf!Entries, StoreOf!KeysAreResults

\* The catalog's answers, when the client hears one.
LEMMA CatalogTold ==
    ASSUME NEW p \in StoreParts, NEW op, NEW key, NEW rev, NEW from,
           v9' = v9 \union {[op |-> op, key |-> key, rev |-> rev, from |-> from]}
    PROVE  {[op |-> a.op, rev |-> a.rev, from |-> a.from] : a \in v9}' = StoreOf(p)!Catalog!Told(op, rev, from)
<1> DEFINE f(a) == [op |-> a.op, rev |-> a.rev, from |-> a.from]
           heard == [op |-> op, key |-> key, rev |-> rev, from |-> from]
<1>1. f(heard) = [op |-> op, rev |-> rev, from |-> from]
  OBVIOUS
<1>2. {f(a) : a \in v9}' = {f(a) : a \in v9} \union {f(heard)}
  <2> HIDE DEF heard
  <2>1. v9' = v9 \union {heard}
    BY DEF heard
  <2> HIDE DEF f
  <2>2. {f(a) : a \in v9'} = {f(a) : a \in v9} \union {f(heard)}
    BY <2>1
  <2> QED BY <2>2 DEF f
<1> QED BY <1>1, <1>2 DEF StoreOf!Catalog!Told

\* A step of the memory or PostgreSQL store is a step of the catalog or hidden.
LEMMA CatalogStep ==
    ASSUME NEW p \in StoreParts, p # "local", StoreOf(p)!StoreInv, [StoreOf(p)!Next]_(StoreOf(p)!storesVars)
    PROVE  StoreOf(p)!KeepsCatalog
<1> USE DEF StoreOf!KeepsCatalog, StoreOf!Catalog!catalogVars
<1>a. v5 = StoreOf(p)!NoWork
  BY DEF StoreOf!StoreInv, StoreOf!StoreTypes
<1>b. StoreOf(p)!Catalog!Made = StoreOf(p)!Revisions
  BY DEF StoreOf!Catalog!Made, StoreOf!Revisions
<1>c. StoreOf(p)!Catalog!Fresh(StoreOf(p)!New)
  BY <1>b, FreshRevision DEF StoreOf!Catalog!Fresh
<1>d. StoreOf(p)!KeysAreResults
  BY KeysFromInv
<1>1. CASE UNCHANGED StoreOf(p)!storesVars
  BY <1>1 DEF StoreOf!storesVars
<1>2. ASSUME NEW k \in Setup[p].Keys, NEW d \in Setup[p].Docs, StoreOf(p)!MemoryCreate(k, d) \/ StoreOf(p)!PostgreSQLCreate(k, d)
      PROVE  StoreOf(p)!KeepsCatalog
  <2>0. UNCHANGED <<v7, v8>> /\ (v2[k] # StoreOf(p)!NoEntry => v2[k].rev \in v6)
    BY <1>2, <1>d DEF StoreOf!MemoryCreate, StoreOf!PostgreSQLCreate, StoreOf!KeysAreResults
  <2>1. CASE UNCHANGED <<v1, v6>> /\ StoreOf(p)!Reply("create", k, v2[k].rev) /\ v2[k] # StoreOf(p)!NoEntry
    <3>1. CASE UNCHANGED v9
      BY <2>0, <2>1, <3>1
    <3>2. CASE v9' = v9 \union {[op |-> "create", key |-> k, rev |-> v2[k].rev, from |-> 0]}
      <4>1. v2[k].rev \in StoreOf(p)!Revisions
        BY <2>0, <2>1 DEF StoreOf!Revisions
      <4>2. StoreOf(p)!Catalog!Answer("create", v2[k].rev, 0)
        BY <2>0, <2>1, <3>2, CatalogTold DEF StoreOf!Catalog!Answer
      <4> QED BY <1>b, <4>1, <4>2 DEF StoreOf!Catalog!Next
    <3> QED BY <2>1, <3>1, <3>2 DEF StoreOf!Reply, StoreOf!ReplyFrom
  <2>2. CASE UNCHANGED <<v1, v6, v9>>
    BY <2>0, <2>2
  <2>3. CASE v1 = 0 /\ v1' = StoreOf(p)!New /\ v6' = v6 \union {StoreOf(p)!New} /\ StoreOf(p)!Reply("create", k, StoreOf(p)!New)
    <3>1. CASE UNCHANGED v9
      BY <1>c, <2>0, <2>3, <3>1 DEF StoreOf!Catalog!Next, StoreOf!Catalog!Create
    <3>2. CASE v9' = v9 \union {[op |-> "create", key |-> k, rev |-> StoreOf(p)!New, from |-> 0]}
      BY <1>c, <2>0, <2>3, <3>2, CatalogTold DEF StoreOf!Catalog!Next, StoreOf!Catalog!CreateAndAnswer
    <3> QED BY <2>3, <3>1, <3>2 DEF StoreOf!Reply, StoreOf!ReplyFrom
  <2>4. StoreOf(p)!Replays(v2[k], d) => v2[k] # StoreOf(p)!NoEntry
    BY DEF StoreOf!Replays, StoreOf!NoEntry
  <2> QED BY <1>2, <2>1, <2>2, <2>3, <2>4 DEF StoreOf!MemoryCreate, StoreOf!PostgreSQLCreate, StoreOf!Quiet
<1>3. ASSUME NEW r \in StoreOf(p)!Revisions, StoreOf(p)!MemoryPut(r) \/ StoreOf(p)!PostgreSQLPut(r)
      PROVE  StoreOf(p)!KeepsCatalog
  <2>1. /\ v1 = r /\ v1 # 0 /\ v1' = StoreOf(p)!New
        /\ v7' = v7 \union {[rev |-> StoreOf(p)!New, from |-> v1]}
        /\ StoreOf(p)!ReplyFrom("put", StoreOf(p)!NoDoc, StoreOf(p)!New, v1)
        /\ UNCHANGED <<v6, v8>>
    BY <1>3 DEF StoreOf!MemoryPut, StoreOf!PostgreSQLPut, StoreOf!Matches
  <2>2. CASE UNCHANGED v9
    BY <1>c, <2>1, <2>2 DEF StoreOf!Catalog!Next, StoreOf!Catalog!Replace
  <2>3. CASE v9' = v9 \union {[op |-> "put", key |-> StoreOf(p)!NoDoc, rev |-> StoreOf(p)!New, from |-> v1]}
    BY <1>c, <2>1, <2>3, CatalogTold DEF StoreOf!Catalog!Next, StoreOf!Catalog!ReplaceAndAnswer
  <2> QED BY <2>1, <2>2, <2>3 DEF StoreOf!ReplyFrom
<1>4. ASSUME NEW k \in Setup[p].Keys, NEW r \in StoreOf(p)!Revisions, StoreOf(p)!MemoryDelete(k, r) \/ StoreOf(p)!PostgreSQLDelete(k, r)
      PROVE  StoreOf(p)!KeepsCatalog
  <2>0. UNCHANGED <<v6, v7>> /\ (v3[k] # StoreOf(p)!NoEntry => v3[k].rev \in v8)
    BY <1>4, <1>d DEF StoreOf!MemoryDelete, StoreOf!PostgreSQLDelete, StoreOf!KeysAreResults
  <2>1. CASE UNCHANGED <<v1, v8>> /\ StoreOf(p)!Reply("delete", k, v3[k].rev) /\ v3[k] # StoreOf(p)!NoEntry
    <3>1. CASE UNCHANGED v9
      BY <2>0, <2>1, <3>1
    <3>2. CASE v9' = v9 \union {[op |-> "delete", key |-> k, rev |-> v3[k].rev, from |-> 0]}
      <4>1. v3[k].rev \in StoreOf(p)!Revisions
        BY <2>0, <2>1 DEF StoreOf!StoreInv, StoreOf!RevisionsKnown
      <4>2. StoreOf(p)!Catalog!Answer("delete", v3[k].rev, 0)
        BY <2>0, <2>1, <3>2, CatalogTold DEF StoreOf!Catalog!Answer
      <4> QED BY <1>b, <4>1, <4>2 DEF StoreOf!Catalog!Next
    <3> QED BY <2>1, <3>1, <3>2 DEF StoreOf!Reply, StoreOf!ReplyFrom
  <2>2. CASE UNCHANGED <<v1, v8, v9>>
    BY <2>0, <2>2
  <2>3. CASE v1 # 0 /\ v1' = 0 /\ v8' = v8 \union {v1} /\ StoreOf(p)!Reply("delete", k, v1)
    <3>1. CASE UNCHANGED v9
      BY <2>0, <2>3, <3>1 DEF StoreOf!Catalog!Next, StoreOf!Catalog!Remove
    <3>2. CASE v9' = v9 \union {[op |-> "delete", key |-> k, rev |-> v1, from |-> 0]}
      BY <2>0, <2>3, <3>2, CatalogTold DEF StoreOf!Catalog!Next, StoreOf!Catalog!RemoveAndAnswer
    <3> QED BY <2>3, <3>1, <3>2 DEF StoreOf!Reply, StoreOf!ReplyFrom
  <2>4. StoreOf(p)!Replays(v3[k], r) => v3[k] # StoreOf(p)!NoEntry
    BY DEF StoreOf!Replays, StoreOf!NoEntry
  <2> QED BY <1>4, <2>1, <2>2, <2>3, <2>4 DEF StoreOf!MemoryDelete, StoreOf!PostgreSQLDelete, StoreOf!Quiet, StoreOf!Matches
<1> QED BY <1>a, <1>1, <1>2, <1>3, <1>4 DEF StoreOf!Next, StoreOf!LocalCreate, StoreOf!LocalPut, StoreOf!LocalDelete, StoreOf!LocalIdle,
           StoreOf!LocalCreateGraph, StoreOf!LocalCreateDone, StoreOf!LocalDeleteGraph, StoreOf!LocalDeleteDone, StoreOf!LocalCrash, StoreOf!NoWork

\* The bounds of the model are never passed.
StoreBounds(p) == v4 \in 0 .. Setup[p].MaxRevision /\ v10 \in 0 .. Setup[p].MaxCrashes

\* No step takes a store past its bounds.
LEMMA StoreBoundsStep ==
    ASSUME NEW p \in StoreParts, StoreOf(p)!StoresAssumption, StoreBounds(p), [StoreOf(p)!Next]_(StoreOf(p)!storesVars)
    PROVE  StoreBounds(p)'
<1> USE DEF StoreBounds
<1>1. Setup[p].MaxRevision \in Nat /\ Setup[p].MaxCrashes \in Nat
  BY DEF StoreOf!StoresAssumption
<1>2. v4' \in {v4, StoreOf(p)!New} /\ (v4' # v4 => StoreOf(p)!CanMake)
  BY DEF StoreOf!Next, StoreOf!storesVars, StoreOf!MemoryCreate, StoreOf!PostgreSQLCreate, StoreOf!LocalCreate, StoreOf!MemoryPut,
     StoreOf!PostgreSQLPut, StoreOf!LocalPut, StoreOf!MemoryDelete, StoreOf!PostgreSQLDelete, StoreOf!LocalDelete,
     StoreOf!LocalCreateGraph, StoreOf!LocalCreateDone, StoreOf!LocalDeleteGraph, StoreOf!LocalDeleteDone, StoreOf!LocalCrash
<1>3. v10' = v10 \/ (v10 < Setup[p].MaxCrashes /\ v10' = v10 + 1)
  BY DEF StoreOf!Next, StoreOf!storesVars, StoreOf!MemoryCreate, StoreOf!PostgreSQLCreate, StoreOf!LocalCreate, StoreOf!MemoryPut,
     StoreOf!PostgreSQLPut, StoreOf!LocalPut, StoreOf!MemoryDelete, StoreOf!PostgreSQLDelete, StoreOf!LocalDelete,
     StoreOf!LocalCreateGraph, StoreOf!LocalCreateDone, StoreOf!LocalDeleteGraph, StoreOf!LocalDeleteDone, StoreOf!LocalCrash,
     StoreOf!Quiet, StoreOf!Reply, StoreOf!ReplyFrom
<1> QED BY <1>1, <1>2, <1>3 DEF StoreOf!New, StoreOf!CanMake

\* What the invariant says of a store without journals.
LEMMA StoreMeaning ==
    ASSUME NEW p \in StoreParts, p # "local", StoreOf(p)!StoresAssumption, StoreOf(p)!StoreInv, StoreBounds(p)
    PROVE  StoreOf(p)!TypeOK /\ StoreOf(p)!KeysAreResults
<1> USE DEF StoreOf!StoreInv, StoreOf!StoreTypes
<1>1. v1 \in 0 .. v4 /\ StoreOf(p)!Revisions \union v8 \subseteq 1 .. v4
  BY DEF StoreOf!RevisionsKnown
<1>2. ASSUME NEW k \in Setup[p].Keys, NEW entry \in {v2[k], v3[k]}
      PROVE  \/ entry = StoreOf(p)!NoEntry
             \/ entry.status \in {"pending", "completed"} /\ entry.rev \in 1 .. v4
  BY <1>1 DEF StoreOf!EntriesBacked, StoreOf!Entries
<1>3. v5.op = "none"
  BY DEF StoreOf!NoWork
<1>4. v1 \in 0 .. Setup[p].MaxRevision
  BY <1>1 DEF StoreBounds, StoreOf!StoresAssumption
<1>5. StoreOf(p)!TypeOK
  BY <1>1, <1>2, <1>3, <1>4 DEF StoreOf!TypeOK, StoreBounds
<1> QED BY <1>5, KeysFromInv

-----------------------------------------------------------------------------
(***************************************************************************)
(* All graph stores.                                                       *)
(***************************************************************************)

GraphsInv ==
    /\ part = "journal" => Journal!StoreInv /\ Journal!Bounded
    /\ \A p \in StoreParts : part = p => StoreOf(p)!StoreInv /\ StoreBounds(p)

\* Every store starts as an empty catalog.
LEMMA GraphsInitial ==
    ASSUME Init
    PROVE  /\ GraphsInv
           /\ part = "journal" => Journal!Catalog!Init
           /\ \A p \in {"memory", "postgresql"} : part = p => StoreOf(p)!Catalog!Init
<1>1. part = "journal" => Journal!StoreInv /\ Journal!Bounded /\ Journal!Catalog!Init
  BY InitOfPart, InstancesAssumption, Journal!StoreInitial, Journal!BoundedInit, Journal!CatalogInitial
<1>2. ASSUME NEW p \in StoreParts, part = p
      PROVE  StoreOf(p)!StoreInv /\ StoreBounds(p) /\ StoreOf(p)!Catalog!Init
  <2>1. StoreOf(p)!Init /\ StoreOf(p)!StoresAssumption
    BY <1>2, InitOfPart, InstancesAssumption
  <2>2. StoreBounds(p) /\ StoreOf(p)!Catalog!Init
    BY <2>1 DEF StoreOf!Init, StoreOf!StoresAssumption, StoreBounds, StoreOf!Catalog!Init
  <2> QED BY <2>1, <2>2, StoreInitial
<1> QED BY <1>1, <1>2 DEF GraphsInv, StoreParts

\* Every step of every store keeps its invariant, and what it promises.
LEMMA GraphsStep ==
    ASSUME GraphsInv, [Next]_suiteVars
    PROVE  /\ GraphsInv'
           /\ part = "journal" => Journal!KeepsCatalog
           /\ \A p \in {"memory", "postgresql"} : part = p => StoreOf(p)!KeepsCatalog
<1>0. part' = part
  BY StepOfPart
<1>1. part = "journal" => Journal!StoreInv' /\ Journal!Bounded' /\ Journal!KeepsCatalog
  BY StepOfPart, InstancesAssumption, Journal!StoreStep, Journal!BoundedStep, Journal!CatalogStep DEF GraphsInv
<1>2. ASSUME NEW p \in StoreParts, part = p
      PROVE  /\ StoreOf(p)!StoreInv' /\ StoreBounds(p)'
             /\ p # "local" => StoreOf(p)!KeepsCatalog
  BY <1>2, StoreStepOfPart, InstancesAssumption, StoreStep, StoreBoundsStep, CatalogStep DEF GraphsInv
<1> QED BY <1>0, <1>1, <1>2 DEF GraphsInv, StoreParts

\* A key is good for one result over helpers, crashes and lost answers in the
\* object stores; in PostgreSQL a request that fails its precondition does not
\* use it up; and what the local store answers is true.
THEOREM ReplaysAreExact == Spec => []ReplayIsExact
<1>1. ASSUME GraphsInv PROVE ReplayIsExact
  <2>1. part = "journal" => Journal!TypeOK /\ Journal!ReplayIsExact
    BY <1>1, Journal!StoreMeaning DEF GraphsInv
  <2>2. part = "postgresql" => StoreOf("postgresql")!TypeOK /\ StoreOf("postgresql")!KeysAreResults
    BY <1>1, InstancesAssumption, StoreMeaning DEF GraphsInv, StoreParts
  <2>3. part = "local" => StoreOf("local")!ChangesAreTrue
    BY <1>1 DEF GraphsInv, StoreParts, StoreOf!StoreInv
  <2> QED BY <2>1, <2>2, <2>3 DEF ReplayIsExact
<1> QED BY <1>1, GraphsInitial, GraphsStep, PTL DEF Spec

\* The journaled object stores, the in-memory store and PostgreSQL implement the
\* graph catalog: every change applies to the current revision, no revision is
\* used twice, and every answer tells of a change that was made.
THEOREM StoresAreCatalogs == Spec => GraphsAreCatalogs
BY GraphsInitial, GraphsStep, PTL DEF Spec, GraphsAreCatalogs

-----------------------------------------------------------------------------
(***************************************************************************)
(* Unversioned reads of one object.  The variables are those of            *)
(* ObjectReads: object is v1, version v2, pc v3, tries v4, head v5,        *)
(* first v6, result v7 and seen v8.                                        *)
(***************************************************************************)

\* A reader counts as everybody does.
LEMMA ReadersCount == \A p, S : Read(p)!Cardinality(S) = Cardinality(S)
BY DEF Cardinality, Read!Cardinality

\* A step of the suite in a reader is a step of that reader.
LEMMA ReadStepOfPart ==
    ASSUME [Next]_suiteVars, NEW p \in ReadParts, part = p
    PROVE  [Read(p)!Next]_(Read(p)!readVars)
<1>1. CASE UNCHANGED suiteVars
  BY <1>1 DEF suiteVars, Read!readVars
<1>2. CASE Next
  BY <1>2 DEF Next, StoreParts, ReadParts, ListParts, RequestParts, SelectParts, BackendParts, SparkParts
<1> QED BY <1>1, <1>2

\* The constants of a reader.
LEMMA ReadConstants ==
    ASSUME NEW p \in ReadParts
    PROVE  /\ Setup[p].Provider \in {"s3", "azure", "oci", "gcs"}
           /\ Setup[p].MaxVersion \in Nat \ {0}
BY InstancesAssumption DEF Read!ReadsAssumption

\* Before the first read there is nothing to be wrong about.
LEMMA ReadInitial ==
    ASSUME NEW p \in ReadParts, Read(p)!Init
    PROVE  Read(p)!ReadInv
BY ReadConstants
   DEF Read!Init, Read!ReadInv, Read!TypeOK, Read!Versions, Read!NoResult,
       Read!Ended, Read!ReadsOneVersion, Read!GivesUpWhenOvertaken

\* The versions a reader has seen are finitely many, and more of them are no fewer.
LEMMA SeenCounts ==
    ASSUME NEW p \in ReadParts, Read(p)!TypeOK, NEW S, NEW T, T \subseteq Read(p)!Versions, S \subseteq T
    PROVE  /\ Cardinality(S) \in Nat /\ Cardinality(T) \in Nat
           /\ Cardinality(S) <= Cardinality(T)
           /\ \A x \in T \ S : Cardinality(S) + 1 <= Cardinality(T)
<1>1. IsFiniteSet(T) /\ IsFiniteSet(S)
  <2>1. IsFiniteSet(0 .. Setup[p].MaxVersion)
    BY ReadConstants, FS_Interval
  <2> QED BY <2>1, FS_Subset DEF Read!Versions
<1>2. ASSUME NEW x \in T \ S PROVE Cardinality(S) + 1 <= Cardinality(T)
  <2>1. Cardinality(S \union {x}) = Cardinality(S) + 1 /\ IsFiniteSet(S \union {x})
    BY <1>1, FS_AddElement
  <2>2. S \union {x} \subseteq T
    OBVIOUS
  <2> QED BY <1>1, <2>1, <2>2, FS_Subset, FS_CardinalityType
<1> QED BY <1>1, <1>2, FS_Subset, FS_CardinalityType

\* Others write: the new version is newer than any that was read.
LEMMA WriteStep ==
    ASSUME NEW p \in ReadParts, Read(p)!ReadInv, Read(p)!Write
    PROVE  Read(p)!ReadInv'
<1> USE DEF Read!ReadInv, Read!Write
<1>0. /\ Setup[p].MaxVersion \in Nat /\ v1 \in Nat /\ v2 \in Nat /\ v2 < Setup[p].MaxVersion /\ v2' = v2 + 1
      /\ (v1' = v2 + 1 \/ v1' = 0) /\ v1' # v1
      /\ v8' = v8 \union {v1'} /\ UNCHANGED <<v3, v4, v5, v6, v7>>
  BY ReadConstants DEF Read!TypeOK, Read!Versions
<1>a. v1' \in Read(p)!Versions /\ v2' \in Read(p)!Versions /\ v1' <= v2' /\ (v1' = 0 \/ v1' > v2)
  BY <1>0 DEF Read!Versions
<1>b. v8' \subseteq Read(p)!Versions /\ v8 \subseteq v8'
  BY <1>0, <1>a DEF Read!TypeOK
<1>c. Read(p)!TypeOK'
  BY <1>0, <1>a, <1>b DEF Read!TypeOK, Read!Versions
<1>1. Read(p)!TypeOK' /\ v8 \subseteq v8' /\ v1' # v1 /\ (v1' = 0 \/ v1' > v2)
  BY <1>0, <1>a, <1>b, <1>c
<1>2. Read(p)!Passed \subseteq Read(p)!Passed' /\ Read(p)!Passed' \subseteq Read(p)!Versions
  BY <1>1 DEF Read!Passed, Read!TypeOK, Read!Versions
<1>3. Read(p)!Cardinality(Read(p)!Passed) <= Read(p)!Cardinality(Read(p)!Passed')
      /\ Cardinality(Read(p)!Passed) \in Nat /\ Cardinality(Read(p)!Passed') \in Nat
  BY <1>2, SeenCounts, ReadersCount
<1>4. Read(p)!Cardinality(v8) <= Read(p)!Cardinality(v8')
      /\ Cardinality(v8) \in Nat /\ Cardinality(v8') \in Nat
  BY <1>1, SeenCounts, ReadersCount DEF Read!TypeOK, Read!Versions
<1>5. Read(p)!GivesUpWhenOvertaken'
  BY <1>4, ReadersCount DEF Read!GivesUpWhenOvertaken
<1>6. Read(p)!ReadsOneVersion'
  BY <1>1 DEF Read!ReadsOneVersion
<1>7. Read(p)!LostRounds' = Read(p)!LostRounds /\ Read(p)!LostRounds \in Int
  BY DEF Read!LostRounds, Read!Rounds, Read!TypeOK
<1> QED BY <1>1, <1>3, <1>5, <1>6, <1>7, ReadersCount
     DEF Read!TypeOK, Read!Found, Read!Versions, Read!Rounds, Read!Ended

\* Head: another version than the ones before it, unless the object is gone.
LEMMA HeadStep ==
    ASSUME NEW p \in ReadParts, Read(p)!ReadInv, Read(p)!Head
    PROVE  Read(p)!ReadInv'
<1> USE DEF Read!ReadInv, Read!Head
<1>1. Read(p)!TypeOK'
  BY ReadConstants DEF Read!TypeOK, Read!Versions, Read!Ended
<1>2. Read(p)!LostRounds' = Read(p)!LostRounds /\ Read(p)!LostRounds \in Int
  BY DEF Read!LostRounds, Read!Rounds, Read!TypeOK
<1>3. Read(p)!ReadsOneVersion' /\ Read(p)!GivesUpWhenOvertaken'
  BY DEF Read!ReadsOneVersion, Read!GivesUpWhenOvertaken, Read!Ended
<1>4. ASSUME v1 # 0 PROVE Read(p)!Cardinality(Read(p)!Passed') >= Read(p)!LostRounds + 1
  <2>1. /\ Read(p)!Passed \subseteq Read(p)!Passed' /\ Read(p)!Passed' \subseteq Read(p)!Versions
        /\ v1 \in Read(p)!Passed' \ Read(p)!Passed
    <3>1. v1 \in Nat /\ v5 \in Nat /\ v1 > v5 /\ v1 \in v8 /\ v8 \subseteq Read(p)!Versions
      BY <1>4 DEF Read!TypeOK, Read!Versions, Read!Ended
    <3>2. Read(p)!Versions \subseteq Nat
      BY DEF Read!Versions
    <3>3. Read(p)!Passed' = {n \in v8 : n # 0 /\ n <= v1}
      BY DEF Read!Passed
    <3>4. ASSUME NEW n \in Read(p)!Passed PROVE n \in Read(p)!Passed'
      BY <3>1, <3>2, <3>3 DEF Read!Passed
    <3>5. v1 \in Read(p)!Passed'
      BY <1>4, <3>1, <3>3
    <3>6. v1 \notin Read(p)!Passed
      BY <3>1 DEF Read!Passed
    <3> QED BY <3>1, <3>3, <3>4, <3>5, <3>6
  <2>2. /\ Read(p)!Cardinality(Read(p)!Passed) + 1 <= Read(p)!Cardinality(Read(p)!Passed')
        /\ Read(p)!Cardinality(Read(p)!Passed) \in Nat /\ Read(p)!Cardinality(Read(p)!Passed') \in Nat
    BY <2>1, SeenCounts, ReadersCount
  <2> QED BY <1>2, <2>2
<1> QED BY <1>1, <1>2, <1>3, <1>4 DEF Read!TypeOK, Read!Versions, Read!Rounds, Read!Ended

\* Another round is lost only to another version, or to a delete.
LEMMA AgainStep ==
    ASSUME NEW p \in ReadParts, Read(p)!ReadInv, v3 = "get", v1 # v5, Read(p)!Again,
           UNCHANGED <<v1, v2, v6, v8>>
    PROVE  Read(p)!ReadInv'
<1> USE DEF Read!ReadInv, Read!Again
<1>1. Read(p)!TypeOK'
  BY ReadConstants DEF Read!TypeOK, Read!Versions, Read!Ended
<1>2. Read(p)!LostRounds' = Read(p)!LostRounds + 1 /\ Read(p)!LostRounds \in Int
  BY DEF Read!LostRounds, Read!Rounds, Read!TypeOK
<1>3. Read(p)!Passed' = Read(p)!Passed
  BY DEF Read!Passed
<1>4. v1 \in v8 \ Read(p)!Passed /\ Read(p)!Passed \subseteq v8 /\ v8 \subseteq Read(p)!Versions
  BY DEF Read!Passed, Read!TypeOK, Read!Versions, Read!Ended
<1>5. /\ Read(p)!Cardinality(Read(p)!Passed) + 1 <= Read(p)!Cardinality(v8)
      /\ Read(p)!Cardinality(Read(p)!Passed) \in Nat /\ Read(p)!Cardinality(v8) \in Nat
  BY <1>4, SeenCounts, ReadersCount
<1>6. Read(p)!GivesUpWhenOvertaken'
  <2>1. CASE v4 = 1
    <3>1. Read(p)!LostRounds + 1 >= IF Setup[p].Provider = "gcs" THEN 2 ELSE 3
      BY <2>1 DEF Read!LostRounds, Read!Rounds
    <3> QED BY <1>5, <3>1, <1>2 DEF Read!GivesUpWhenOvertaken
  <2>2. CASE v4 # 1
    BY <2>2 DEF Read!GivesUpWhenOvertaken
  <2> QED BY <2>1, <2>2
<1>7. Read(p)!ReadsOneVersion'
  BY DEF Read!ReadsOneVersion
<1>8. Read(p)!Cardinality(Read(p)!Passed') >= Read(p)!LostRounds'
  BY <1>2, <1>3, <1>5
<1> QED BY <1>1, <1>6, <1>7, <1>8 DEF Read!TypeOK, Read!Versions, Read!Rounds, Read!Ended

\* What is returned is of one version.
LEMMA GetStep ==
    ASSUME NEW p \in ReadParts, Read(p)!ReadInv, Read(p)!Get
    PROVE  Read(p)!ReadInv'
<1>1. CASE v1 # v5 /\ Read(p)!Again
  BY <1>1, AgainStep DEF Read!Get
<1>2. CASE v1 = 0 /\ v3' = "missing" /\ UNCHANGED <<v4, v5, v7>>
  BY <1>2 DEF Read!Get, Read!ReadInv, Read!TypeOK, Read!Versions, Read!Ended, Read!ReadsOneVersion,
     Read!GivesUpWhenOvertaken
<1>3. CASE v1 = v5 /\ v7' = Read(p)!Found(v1) /\ UNCHANGED <<v4, v5>>
           /\ v3' = IF Setup[p].Provider = "gcs" THEN "metadata" ELSE "found"
  BY <1>3 DEF Read!Get, Read!ReadInv, Read!TypeOK, Read!Versions, Read!Ended, Read!ReadsOneVersion,
     Read!GivesUpWhenOvertaken, Read!Found
<1> QED BY <1>1, <1>2, <1>3 DEF Read!Get, Read!Accepts

\* The metadata are of the same version, or the read is given up.
LEMMA MetadataStep ==
    ASSUME NEW p \in ReadParts, Read(p)!ReadInv, Read(p)!Metadata
    PROVE  Read(p)!ReadInv'
<1> USE DEF Read!ReadInv, Read!Metadata
<1>1. Read(p)!TypeOK' /\ Read(p)!ReadsOneVersion'
  <2>1. v7.etag \in Read(p)!Versions /\ v6 \in Read(p)!Versions /\ 0 \in Read(p)!Versions
    BY ReadConstants DEF Read!TypeOK, Read!Versions
  <2>2. v7' \in [body : Read(p)!Versions, etag : Read(p)!Versions, metadata : Read(p)!Versions]
    BY <2>1 DEF Read!TypeOK, Read!NoResult
  <2>3. Read(p)!TypeOK'
    BY <2>2 DEF Read!TypeOK, Read!Ended
  <2> QED BY <2>3 DEF Read!SameBlob, Read!ReadsOneVersion, Read!Found
<1>2. Read(p)!GivesUpWhenOvertaken'
  <2>1. CASE ~Read(p)!SameBlob
    <3>1. {v6} \subseteq v8 /\ v5 \in v8 \ {v6} /\ v8 \subseteq Read(p)!Versions
      BY <2>1 DEF Read!TypeOK, Read!SameBlob, Read!Found
    <3>2. Cardinality({v6}) = 1
      BY FS_Singleton
    <3>3. Read(p)!Cardinality(v8) > 1 /\ Setup[p].Provider = "gcs"
      BY <3>1, <3>2, SeenCounts, ReadersCount
    <3> QED BY <3>3 DEF Read!GivesUpWhenOvertaken
  <2>2. CASE Read(p)!SameBlob
    BY <2>2 DEF Read!GivesUpWhenOvertaken
  <2> QED BY <2>1, <2>2
<1> QED BY <1>1, <1>2 DEF Read!Ended

\* Whatever is written meanwhile, a reader stays right.
LEMMA ReadStep ==
    ASSUME NEW p \in ReadParts, Read(p)!ReadInv, [Read(p)!Next]_(Read(p)!readVars)
    PROVE  Read(p)!ReadInv'
<1>1. CASE Read(p)!Begin
  <2>1. Read(p)!TypeOK' /\ Read(p)!Passed' = {} /\ Read(p)!LostRounds' = 0
    <3>1. 0 \in Read(p)!Versions /\ Read(p)!NoResult \in
            [body : Read(p)!Versions, etag : Read(p)!Versions, metadata : Read(p)!Versions]
      BY ReadConstants DEF Read!Versions, Read!NoResult
    <3>2. Read(p)!TypeOK'
      BY <1>1, <3>1 DEF Read!ReadInv, Read!Begin, Read!TypeOK, Read!Rounds
    <3>3. Read(p)!Passed' = {n \in {v1} : n # 0 /\ n <= 0} /\ v1 \in Nat
      BY <1>1 DEF Read!ReadInv, Read!Begin, Read!TypeOK, Read!Versions, Read!Passed
    <3> QED BY <1>1, <3>2, <3>3 DEF Read!Begin, Read!Rounds, Read!LostRounds
  <2>2. Read(p)!Cardinality(Read(p)!Passed') = 0
    BY <2>1, FS_EmptySet, ReadersCount
  <2> QED BY <1>1, <2>1, <2>2 DEF Read!ReadInv, Read!Begin, Read!TypeOK, Read!Versions, Read!Rounds, Read!Ended,
     Read!ReadsOneVersion, Read!GivesUpWhenOvertaken
<1>2. CASE Read(p)!Fail
  BY <1>2 DEF Read!ReadInv, Read!Fail, Read!TypeOK, Read!Ended, Read!ReadsOneVersion, Read!GivesUpWhenOvertaken
<1>3. CASE UNCHANGED Read(p)!readVars
  BY <1>3 DEF Read!ReadInv, Read!readVars, Read!TypeOK, Read!Ended, Read!ReadsOneVersion,
     Read!GivesUpWhenOvertaken, Read!Passed, Read!LostRounds, Read!Rounds, Read!Found
<1> QED BY <1>1, <1>2, <1>3, WriteStep, HeadStep, GetStep, MetadataStep DEF Read!Next

-----------------------------------------------------------------------------
(***************************************************************************)
(* A client that pages through the graphs.  The variables are those of     *)
(* GraphListing: objects is v1, writes v2, pc v3, pos v4, skip v5, entries *)
(* v6, more v7, rounds v8, tries v9, items v10, listed v11, stable v12 and *)
(* visible v13.                                                            *)
(***************************************************************************)

\* A listing counts as everybody does.
LEMMA ListingsCount == \A p, S : Listing(p)!Cardinality(S) = Cardinality(S)
BY Zenon DEF Cardinality, Listing!Cardinality

\* A set of numbers has a smallest.
LEMMA Smallest ==
    ASSUME NEW S, S \subseteq Nat, S # {}
    PROVE  \E x \in S : \A y \in S : x <= y
<1> DEFINE R == OpToRel(<, Nat)
<1>1. IsWellFoundedOn(R, Nat)
  BY NatLessThanWellFounded
<1>2. PICK x \in S : \A y \in S : ~ (<<y, x>> \in R)
  <2> HIDE DEF R
  <2> QED BY <1>1, WFMin
<1>3. \A y \in S : x <= y
  <2>1. R = {ss \in Nat \X Nat : ss[1] < ss[2]}
    BY DEF OpToRel
  <2> HIDE DEF R
  <2>2. ASSUME NEW y \in S, y < x PROVE FALSE
    <3>1. <<y, x>> \in R
      BY <2>1, <2>2
    <3> QED BY <3>1, <1>2
  <2> QED BY <2>2
<1> QED BY <1>3

\* A set of numbers below a bound has a largest.
LEMMA Largest ==
    ASSUME NEW n \in Nat, NEW S, S \subseteq 1 .. n, S # {}
    PROVE  \E x \in S : \A y \in S : x >= y
<1> DEFINE T == {n - x : x \in S}
<1>1. T \subseteq Nat /\ T # {}
  <2>1. ASSUME NEW x \in S PROVE n - x \in Nat
    OBVIOUS
  <2> QED BY <2>1, Zenon
<1>2. PICK t \in T : \A u \in T : t <= u
  <2> HIDE DEF T
  <2> QED BY <1>1, Smallest
<1>3. PICK x \in S : t = n - x
  BY <1>2, Zenon
<1>4. ASSUME NEW y \in S PROVE x >= y
  <2>1. n - y \in T
    OBVIOUS
  <2>2. n - x <= n - y
    BY <1>2, <1>3, <2>1
  <2> QED BY <2>2
<1> QED BY <1>4

\* The constants of a listing.
LEMMA ListConstants ==
    ASSUME NEW p \in ListParts
    PROVE  /\ Setup[p].Store \in {"memory", "local", "postgresql", "s3", "gcs", "azure", "oci"}
           /\ Setup[p].MaxGraph \in Nat /\ Setup[p].Limit \in Nat \ {0}
           /\ Listing(p)!Graphs = 1 .. Setup[p].MaxGraph
BY InstancesAssumption DEF Listing!ListingAssumption, Listing!Graphs

\* Min and Max of names.
LEMMA MinMax ==
    ASSUME NEW p \in ListParts, NEW S, S \subseteq Listing(p)!Graphs, S # {}
    PROVE  /\ Listing(p)!Min(S) \in S /\ \A n \in S : Listing(p)!Min(S) <= n
           /\ Listing(p)!Max(S) \in S /\ \A n \in S : Listing(p)!Max(S) >= n
<1>1. S \subseteq 1 .. Setup[p].MaxGraph /\ Setup[p].MaxGraph \in Nat
  BY ListConstants
<1>2. S \subseteq Nat
  BY <1>1
<1>3. \E x \in S : \A y \in S : x <= y
  BY <1>2, Smallest
<1>4. \E x \in S : \A y \in S : x >= y
  BY <1>1, Largest
<1>5. Listing(p)!Min(S) \in S /\ \A n \in S : Listing(p)!Min(S) <= n
  BY <1>3 DEF Listing!Min
<1>6. Listing(p)!Max(S) \in S /\ \A n \in S : Listing(p)!Max(S) >= n
  BY <1>4 DEF Listing!Max
<1> QED BY <1>5, <1>6

\* The first k of some names: none is passed over, and fewer than k is all.
LEMMA FirstFew ==
    ASSUME NEW p \in ListParts, NEW S, S \subseteq Listing(p)!Graphs, NEW k \in Nat
    PROVE  /\ Listing(p)!First(S, k) \subseteq S
           /\ \A g \in Listing(p)!First(S, k), h \in S : h < g => h \in Listing(p)!First(S, k)
           /\ k # 0 /\ S # {} => Listing(p)!First(S, k) # {}
           /\ Cardinality(Listing(p)!First(S, k)) < k => Listing(p)!First(S, k) = S
           /\ Cardinality(S) <= k => Listing(p)!First(S, k) = S
<1> DEFINE Below(g) == {h \in S : h < g}
           F == Listing(p)!First(S, k)
<1>1. F = {g \in S : Cardinality(Below(g)) < k}
  BY ListingsCount DEF Listing!First
<1>2. IsFiniteSet(S) /\ S \subseteq Nat
  <2>1. S \subseteq 1 .. Setup[p].MaxGraph /\ Setup[p].MaxGraph \in Nat
    BY ListConstants
  <2>2. IsFiniteSet(1 .. Setup[p].MaxGraph)
    BY <2>1, FS_Interval
  <2>3. S \subseteq Nat
    BY <2>1
  <2> QED BY <2>1, <2>2, <2>3, FS_Subset
<1> HIDE DEF F
<1>3. ASSUME NEW T, T \subseteq S
      PROVE  IsFiniteSet(T) /\ Cardinality(T) \in Nat /\ Cardinality(T) <= Cardinality(S)
  BY <1>2, <1>3, FS_Subset, FS_CardinalityType
<1>4. ASSUME NEW g \in F, NEW h \in S, h < g PROVE h \in F
  <2>1. Below(h) \subseteq Below(g) /\ Below(g) \subseteq S /\ Below(h) \subseteq S
    <3>1. g \in Nat /\ h \in Nat
      BY <1>1, <1>2, <1>4
    <3>2. ASSUME NEW x \in Below(h) PROVE x \in Below(g)
      <4>1. x \in Nat /\ x < h /\ x \in S
        BY <1>2
      <4> QED BY <3>1, <4>1, <1>4
    <3> QED BY <3>2
  <2>2. Cardinality(Below(h)) <= Cardinality(Below(g)) /\ Cardinality(Below(h)) \in Nat
        /\ Cardinality(Below(g)) \in Nat
    <3> HIDE DEF Below
    <3>1. IsFiniteSet(Below(g)) /\ Cardinality(Below(g)) \in Nat
      BY <2>1, <1>3
    <3> QED BY <2>1, <3>1, FS_Subset, FS_CardinalityType
  <2>3. Cardinality(Below(g)) < k
    BY <1>1
  <2> QED BY <1>1, <2>2, <2>3
<1>5. ASSUME F # S, k # 0 PROVE Cardinality(F) >= k /\ F # {}
  <2> DEFINE Out == S \ F
  <2>1. Out # {} /\ Out \subseteq Nat
    BY <1>1, <1>2, <1>5, Zenon
  <2>2. PICK g \in Out : \A h \in Out : g <= h
    <3> HIDE DEF Out
    <3>1. \E x \in Out : \A y \in Out : x <= y
      BY <2>1, Smallest
    <3> QED BY <3>1
  <2>3. Below(g) \subseteq F
    <3>1. ASSUME NEW x \in S, x < g PROVE x \in F
      <4>1. x \in Nat /\ g \in Nat
        BY <1>2
      <4> QED BY <2>2, <3>1, <4>1
    <3> QED BY <3>1
  <2>4. Cardinality(Below(g)) >= k /\ Cardinality(Below(g)) \in Nat
    <3>1. Below(g) \subseteq S
      OBVIOUS
    <3>2. ~(Cardinality(Below(g)) < k)
      BY <1>1
    <3> HIDE DEF Below
    <3> QED BY <3>1, <3>2, <1>3
  <2>5. IsFiniteSet(F) /\ Cardinality(F) \in Nat
    <3>1. F \subseteq S
      BY <1>1
    <3> QED BY <3>1, <1>3
  <2>6. Cardinality(Below(g)) <= Cardinality(F)
    <3> HIDE DEF Below
    <3> QED BY <2>3, <2>5, FS_Subset
  <2>7. Cardinality(F) >= k
    BY <2>4, <2>5, <2>6
  <2> QED BY <2>7, <1>5, FS_EmptySet
<1>6. ASSUME Cardinality(S) <= k PROVE F = S
  <2>1. ASSUME NEW g \in S PROVE Cardinality(Below(g)) < k
    <3>1. IsFiniteSet(S \ {g}) /\ Cardinality(S \ {g}) = Cardinality(S) - 1 /\ Cardinality(S) \in Nat
      BY <1>2, FS_RemoveElement, FS_CardinalityType
    <3>2. Below(g) \subseteq S \ {g}
      BY <1>2
    <3>3. Cardinality(Below(g)) <= Cardinality(S \ {g}) /\ Cardinality(Below(g)) \in Nat
      <4> HIDE DEF Below
      <4> QED BY <3>1, <3>2, FS_Subset, FS_CardinalityType
    <3> QED BY <3>1, <3>3, <1>6
  <2> QED BY <2>1, <1>1
<1>7. Cardinality(F) < k => F = S
  <2>1. Cardinality(F) \in Nat
    BY <1>1, <1>3
  <2> QED BY <1>5, <2>1
<1> QED BY <1>1, <1>4, <1>5, <1>6, <1>7 DEF F

\* A page with one summary for each name is finite, and has no fewer summaries
\* than names.
LEMMA NamesCount ==
    ASSUME NEW p \in ListParts, NEW all, all \subseteq Listing(p)!Summaries, Listing(p)!OneOfEach(all)
    PROVE  /\ Listing(p)!NamesOf(all) \subseteq Listing(p)!Graphs
           /\ Cardinality(all) \in Nat /\ Cardinality(Listing(p)!NamesOf(all)) \in Nat
           /\ Cardinality(Listing(p)!NamesOf(all)) <= Cardinality(all)
           /\ Cardinality(all) > Setup[p].Limit => all # {}
<1> DEFINE names == Listing(p)!NamesOf(all)
           f == [n \in names |-> CHOOSE e \in all : e.name = n]
           h == [e \in all |-> e.name]
<1>1. names \subseteq Listing(p)!Graphs /\ \A n \in names : \E e \in all : e.name = n
  BY DEF Listing!NamesOf, Listing!Summaries
<1>2. \A e \in all : e.name \in names
  BY DEF Listing!NamesOf
<1> HIDE DEF names
<1>3. IsFiniteSet(names)
  <2>1. Listing(p)!Graphs = 1 .. Setup[p].MaxGraph /\ Setup[p].MaxGraph \in Nat
    BY ListConstants
  <2>2. IsFiniteSet(Listing(p)!Graphs)
    BY <2>1, FS_Interval
  <2> QED BY <1>1, <2>2, FS_Subset
<1>4. f \in Surjection(names, all)
  <2>1. f \in [names -> all]
    BY <1>1
  <2>2. \A e \in all : e.name \in names /\ f[e.name] = e
    BY <1>1, <1>2 DEF Listing!OneOfEach
  <2> QED BY <2>1, <2>2 DEF Surjection
<1>5. h \in Surjection(all, names)
  BY <1>1, <1>2 DEF Surjection
<1>6. IsFiniteSet(all)
  <2> HIDE DEF f
  <2> QED BY <1>3, <1>4, FS_Surjection
<1>7. Cardinality(names) <= Cardinality(all)
  <2> HIDE DEF h
  <2> QED BY <1>5, <1>6, FS_Surjection
<1>8. /\ Cardinality(all) \in Nat /\ Cardinality(names) \in Nat
      /\ Cardinality({}) = 0 /\ Setup[p].Limit \in Nat
  BY <1>3, <1>6, FS_CardinalityType, FS_EmptySet, ListConstants
<1> QED BY <1>1, <1>7, <1>8 DEF names

\* The entry that is looked at is the first.
LEMMA FirstEntryFirst ==
    ASSUME NEW p \in ListParts, Listing(p)!TypeOK, v6 # {}
    PROVE  /\ Listing(p)!FirstEntry \in v6
           /\ \A e \in v6 : Listing(p)!FirstEntry.name <= e.name
<1>1. Listing(p)!NamesOf(v6) \subseteq Listing(p)!Graphs /\ Listing(p)!NamesOf(v6) # {}
  BY DEF Listing!TypeOK, Listing!NamesOf
<1>2. Listing(p)!Min(Listing(p)!NamesOf(v6)) \in Listing(p)!NamesOf(v6)
      /\ \A n \in Listing(p)!NamesOf(v6) : Listing(p)!Min(Listing(p)!NamesOf(v6)) <= n
  BY <1>1, MinMax
<1>3. \E e \in v6 : e.name = Listing(p)!Min(Listing(p)!NamesOf(v6))
  BY <1>2 DEF Listing!NamesOf
<1>4. Listing(p)!FirstEntry \in v6 /\ Listing(p)!FirstEntry.name = Listing(p)!Min(Listing(p)!NamesOf(v6))
  BY <1>3 DEF Listing!FirstEntry
<1> QED BY <1>2, <1>4 DEF Listing!NamesOf

\* A page that goes to the client: its names come after all that it was shown,
\* and what it was not shown comes after the cursor.
LEMMA ReplyShown ==
    ASSUME NEW p \in ListParts, Listing(p)!ListInv, NEW all, Listing(p)!Reply(all),
           all \subseteq Listing(p)!Summaries, Listing(p)!OneOfEach(all), all \subseteq v13',
           v12' \subseteq v12, v13 \subseteq v13', Listing(p)!ObjectsOK',
           \A e \in all, n \in Listing(p)!Graphs : Listing(p)!WasListed(n) => n < e.name,
           \A g \in v12' : \/ Listing(p)!WasListed(g) \/ g \in Listing(p)!NamesOf(all)
                           \/ Cardinality(all) > Setup[p].Limit /\ \A e \in all : e.name < g,
           v5' \in Nat, v6' \subseteq v6 \/ v6' = v6, v7' = v7, v10' \subseteq Listing(p)!Summaries
    PROVE  Listing(p)!ListInv'
<1> DEFINE names == Listing(p)!NamesOf(all)
           chosen == Listing(p)!First(names, Setup[p].Limit)
           selected == {e \in all : e.name \in chosen}
<1>1. /\ names \subseteq Listing(p)!Graphs /\ Cardinality(all) \in Nat /\ Cardinality(names) \in Nat
      /\ Cardinality(names) <= Cardinality(all)
      /\ Cardinality(all) > Setup[p].Limit => all # {}
  BY NamesCount
<1>2. /\ Setup[p].Limit \in Nat \ {0} /\ Listing(p)!Graphs \subseteq Nat
  BY ListConstants
<1>3. /\ chosen \subseteq names /\ (names # {} => chosen # {})
      /\ \A g \in chosen, h \in names : h < g => h \in chosen
      /\ Cardinality(names) <= Setup[p].Limit => chosen = names
  <2>1. names \subseteq Listing(p)!Graphs /\ Setup[p].Limit \in Nat /\ Setup[p].Limit # 0
    BY <1>1, <1>2
  <2> HIDE DEF names
  <2> QED BY <2>1, FirstFew
<1>4. v11' = Append(v11, selected) /\ v11 \in Seq(SUBSET Listing(p)!Summaries)
      /\ selected \in SUBSET Listing(p)!Summaries
  BY DEF Listing!Reply, Listing!ListInv, Listing!TypeOK
<1>5. Listing(p)!NamesOf(selected) = chosen
  BY <1>3 DEF Listing!NamesOf
<1> HIDE DEF selected, chosen
<1>6. v11' \in Seq(SUBSET Listing(p)!Summaries) /\ Len(v11') = Len(v11) + 1 /\ Len(v11) \in Nat
      /\ (\A i \in 1 .. Len(v11) : v11'[i] = v11[i]) /\ v11'[Len(v11) + 1] = selected
  BY <1>4
<1>7. ASSUME NEW n PROVE Listing(p)!WasListed(n)' <=> Listing(p)!WasListed(n) \/ n \in chosen
  <2>1. ASSUME Listing(p)!WasListed(n) PROVE Listing(p)!WasListed(n)'
    BY <1>6, <2>1 DEF Listing!WasListed, Listing!NamesOf
  <2>2. ASSUME n \in chosen PROVE Listing(p)!WasListed(n)'
    BY <1>5, <1>6, <2>2 DEF Listing!WasListed, Listing!NamesOf
  <2>3. ASSUME Listing(p)!WasListed(n)', ~Listing(p)!WasListed(n) PROVE n \in chosen
    BY <1>5, <1>6, <2>3 DEF Listing!WasListed, Listing!NamesOf
  <2> QED BY <2>1, <2>2, <2>3
<1>8. Listing(p)!ShowsWhatWas'
  <2>1. Listing(p)!ShowsWhatWas
    BY DEF Listing!ListInv
  <2>2. selected \subseteq all
    BY DEF selected
  <2>3. ASSUME NEW j \in 1 .. Len(v11), NEW e \in selected, NEW f \in v11[j] PROVE f.name < e.name
    <3>1. f.name \in Listing(p)!Graphs
      BY <1>4 DEF Listing!Summaries
    <3>2. Listing(p)!WasListed(f.name)
      BY DEF Listing!WasListed, Listing!NamesOf
    <3> QED BY <2>2, <3>1, <3>2
  <2>4. ASSUME NEW i \in 1 .. Len(v11')
        PROVE  /\ v11'[i] \subseteq v13' /\ \A e, f \in v11'[i] : e.name = f.name => e = f
               /\ \A j \in 1 .. i - 1 : \A e \in v11'[i], f \in v11'[j] : f.name < e.name
    <3>1. CASE i \in 1 .. Len(v11)
      BY <3>1, <1>6, <2>1 DEF Listing!ShowsWhatWas
    <3>2. CASE i = Len(v11) + 1
      BY <3>2, <1>6, <2>2, <2>3 DEF Listing!OneOfEach
    <3> QED BY <3>1, <3>2, <1>6
  <2> QED BY <2>4 DEF Listing!ShowsWhatWas
<1>9. /\ v3' \in {"page", "complete"} /\ v4' \in [at : Nat, inclusive : BOOLEAN]
      /\ v3' = "complete" => Cardinality(all) <= Setup[p].Limit
      /\ v3' = "page" => /\ Cardinality(all) > Setup[p].Limit /\ ~v4'.inclusive
                         /\ v4'.at \in chosen /\ \A n \in chosen : n <= v4'.at
  <2>1. CASE Cardinality(all) > Setup[p].Limit
    <3>1. names # {}
      BY <2>1, <1>1 DEF Listing!NamesOf
    <3>2. chosen # {} /\ chosen \subseteq Listing(p)!Graphs
      BY <1>1, <1>3, <3>1
    <3>3. v3' = "page" /\ v4' = [at |-> Listing(p)!Max(chosen), inclusive |-> FALSE]
      BY <2>1, <1>5, ListingsCount DEF Listing!Reply, selected, chosen
    <3>4. Listing(p)!Max(chosen) \in chosen /\ \A n \in chosen : n <= Listing(p)!Max(chosen)
      BY <3>2, MinMax, <1>2
    <3> QED BY <2>1, <1>2, <3>2, <3>3, <3>4
  <2>2. CASE ~(Cardinality(all) > Setup[p].Limit)
    <3>1. v3' = "complete" /\ v4' = Listing(p)!Beginning
      BY <2>2, ListingsCount DEF Listing!Reply
    <3> QED BY <2>2, <3>1, <1>1, <1>2 DEF Listing!Beginning
  <2> QED BY <2>1, <2>2
<1>10. ASSUME v3' = "page"
       PROVE  /\ \A n \in Listing(p)!Graphs : Listing(p)!WasListed(n)' => Listing(p)!Behind(n)'
              /\ \A g \in v12' : Listing(p)!WasListed(g)' \/ g > v4'.at
  <2>1. \A n \in Listing(p)!Graphs : Listing(p)!WasListed(n)' => n <= v4'.at
    <3>1. PICK e \in all : e.name = v4'.at
      BY <1>3, <1>9, <1>10 DEF Listing!NamesOf
    <3>2. ASSUME NEW n \in Listing(p)!Graphs, Listing(p)!WasListed(n) PROVE n <= v4'.at
      <4>1. n < e.name
        BY <3>2
      <4> QED BY <3>1, <4>1, <1>2, <1>9, <1>10
    <3> QED BY <1>7, <1>9, <1>10, <3>2
  <2>2. ASSUME NEW g \in v12', ~Listing(p)!WasListed(g)' PROVE g > v4'.at
    <3>1. ~Listing(p)!WasListed(g) /\ g \notin chosen
      BY <1>7, <2>2
    <3>2. g \in Listing(p)!Graphs /\ v4'.at \in names /\ names \subseteq Listing(p)!Graphs
      BY <1>1, <1>3, <1>9, <1>10 DEF Listing!ListInv, Listing!ObjectsOK
    <3>3. CASE g \in names
      <4>1. ~(g < v4'.at) /\ g # v4'.at
        BY <1>3, <1>9, <1>10, <3>1, <3>3
      <4> QED BY <4>1, <3>2, <1>2
    <3>4. CASE \A e \in all : e.name < g
      BY <3>2, <3>4, <1>2 DEF Listing!NamesOf
    <3> QED BY <3>1, <3>3, <3>4
  <2>3. ~v4'.inclusive
    BY <1>9, <1>10
  <2> QED BY <2>1, <2>2, <2>3 DEF Listing!Behind
<1>11. Listing(p)!ListsWhatStays'
  <2>1. ASSUME v3' = "complete", NEW g \in v12' PROVE Listing(p)!WasListed(g)'
    <3>1. Cardinality(all) <= Setup[p].Limit /\ chosen = names
      BY <1>1, <1>2, <1>3, <1>9, <2>1
    <3> QED BY <3>1, <1>1, <1>2, <1>7
  <2> QED BY <2>1 DEF Listing!ListsWhatStays, Listing!WasListed
<1>12. Listing(p)!TypeOK'
  BY <1>6, <1>9 DEF Listing!ListInv, Listing!TypeOK
<1> QED BY <1>8, <1>9, <1>10, <1>11, <1>12 DEF Listing!ListInv

\* Before the first page nothing is missed and nothing is wrong.
LEMMA ListInitial ==
    ASSUME NEW p \in ListParts, Listing(p)!Init
    PROVE  Listing(p)!ListInv
<1>1. Listing(p)!Graphs \subseteq Nat /\ \A g \in Listing(p)!Graphs : g > 0
  BY ListConstants
<1>2. Listing(p)!ObjectsOK
  <2>1. \A g \in Listing(p)!Graphs : v1[g] \in [ver : Nat, fenced : BOOLEAN]
    <3>1. \A b \in BOOLEAN, v \in {0, 1} : [ver |-> v, fenced |-> b] \in [ver : Nat, fenced : BOOLEAN]
      OBVIOUS
    <3>2. \A g \in Listing(p)!Graphs : \E b \in BOOLEAN, v \in {0, 1} : v1[g] = [ver |-> v, fenced |-> b]
      BY DEF Listing!Init, Listing!Absent
    <3> QED BY <3>1, <3>2
  <2>2. v1 \in [Listing(p)!Graphs -> [ver : Nat, fenced : BOOLEAN]]
    BY <2>1 DEF Listing!Init
  <2> QED BY <2>2 DEF Listing!Init, Listing!ObjectsOK
<1>3. Listing(p)!TypeOK
  <2>1. v11 \in Seq(SUBSET Listing(p)!Summaries) /\ v10 \subseteq Listing(p)!Summaries /\ v6 = {}
    BY DEF Listing!Init
  <2>2. v4 \in [at : Nat, inclusive : BOOLEAN] /\ v5 \in Nat /\ v7 \in BOOLEAN
    BY DEF Listing!Init, Listing!Beginning
  <2> QED BY <2>1, <2>2 DEF Listing!Init, Listing!TypeOK
<1>4. ~(\E i \in 1 .. Len(v11) : TRUE)
  BY DEF Listing!Init
<1> QED BY <1>1, <1>2, <1>3, <1>4
     DEF Listing!Init, Listing!ListInv, Listing!ShowsWhatWas, Listing!ListsWhatStays, Listing!WasListed,
         Listing!Beginning

\* What others do to the graphs does not disturb a page in the making.
LEMMA OthersKeep ==
    ASSUME NEW p \in ListParts, Listing(p)!ListInv, Listing(p)!ObjectsOK', v12' \subseteq v12, v13 \subseteq v13',
           UNCHANGED <<v3, v4, v5, v6, v7, v10, v11>>
    PROVE  Listing(p)!ListInv'
<1>1. Listing(p)!TypeOK' /\ Listing(p)!ShowsWhatWas'
  BY DEF Listing!ListInv, Listing!TypeOK, Listing!ShowsWhatWas
<1>2. \A n : /\ Listing(p)!WasListed(n)' <=> Listing(p)!WasListed(n)
             /\ Listing(p)!Past(n)' <=> Listing(p)!Past(n)
             /\ Listing(p)!Behind(n)' <=> Listing(p)!Behind(n)
             /\ Listing(p)!Ahead(n)' <=> Listing(p)!Ahead(n)
             /\ Listing(p)!Left(n)' <=> Listing(p)!Left(n)
  BY DEF Listing!WasListed, Listing!Past, Listing!Behind, Listing!Ahead, Listing!Left
<1>3. v3 \in {"list", "entry", "read"} => Listing(p)!PageOK'
  BY <1>2 DEF Listing!ListInv, Listing!PageOK
<1>4. v3 \in {"entry", "read"} => Listing(p)!EntriesOK'
  BY <1>2 DEF Listing!ListInv, Listing!EntriesOK
<1>5. Listing(p)!ListsWhatStays'
  BY DEF Listing!ListInv, Listing!ListsWhatStays
<1> QED BY <1>1, <1>2, <1>3, <1>4, <1>5 DEF Listing!ListInv

\* A graph is written or deleted: what stayed has stayed, what was visible was.
LEMMA BecomesKeeps ==
    ASSUME NEW p \in ListParts, Listing(p)!ObjectsOK, NEW g \in Listing(p)!Graphs, v2' \in Nat,
           NEW o \in [ver : Nat, fenced : BOOLEAN], Listing(p)!Becomes(g, o)
    PROVE  Listing(p)!ObjectsOK' /\ v12' \subseteq v12 /\ v13 \subseteq v13'
BY DEF Listing!ObjectsOK, Listing!Becomes, Listing!Shown

\* Names are numbers from 1.
LEMMA NamesAreNumbers ==
    ASSUME NEW p \in ListParts
    PROVE  /\ Listing(p)!Graphs \subseteq Nat /\ \A g \in Listing(p)!Graphs : g > 0
           /\ Setup[p].Limit \in Nat /\ Setup[p].Limit # 0
BY ListConstants

\* list of a store that sees all graphs at once.
LEMMA LockedPageStep ==
    ASSUME NEW p \in ListParts, Listing(p)!ListInv, Listing(p)!LockedPage
    PROVE  Listing(p)!ListInv'
<1> DEFINE names == {g \in Listing(p)!Graphs : Listing(p)!Shown(v1[g]) /\ g > v4.at}
           F == Listing(p)!First(names, Setup[p].Limit + 1)
           all == {[name |-> g, rev |-> v1[g].ver] : g \in F}
<1>1. Listing(p)!Reply(all) /\ v3 = "page" /\ UNCHANGED <<v1, v2, v5, v6, v7, v10, v12, v13>>
  BY DEF Listing!LockedPage, Listing!After, Listing!others
<1>2. /\ F \subseteq names /\ \A g \in F, h \in names : h < g => h \in F
      /\ Cardinality(F) < Setup[p].Limit + 1 => F = names
  <2>1. names \subseteq Listing(p)!Graphs /\ Setup[p].Limit + 1 \in Nat
    BY NamesAreNumbers
  <2>2. F = Listing(p)!First(names, Setup[p].Limit + 1)
    OBVIOUS
  <2> HIDE DEF names, F
  <2> QED BY <2>1, <2>2, FirstFew
<1> HIDE DEF F
<1>3. Listing(p)!ObjectsOK /\ Listing(p)!TypeOK /\ v4.at \in Nat
  BY DEF Listing!ListInv, Listing!TypeOK
<1>4. /\ all \subseteq Listing(p)!Summaries /\ Listing(p)!OneOfEach(all) /\ Listing(p)!NamesOf(all) = F
      /\ all \subseteq v13
  <2>1. \A g \in F : g \in Listing(p)!Graphs /\ Listing(p)!Shown(v1[g]) /\ v1[g].ver \in Nat
    BY <1>2, <1>3 DEF Listing!ObjectsOK
  <2>2. all \subseteq Listing(p)!Now(v1)
    BY <2>1 DEF Listing!Now
  <2>3. all \subseteq Listing(p)!Summaries /\ Listing(p)!OneOfEach(all)
    BY <2>1 DEF Listing!Summaries, Listing!OneOfEach
  <2>4. Listing(p)!NamesOf(all) = F
    <3>1. ASSUME NEW g \in F PROVE g \in Listing(p)!NamesOf(all)
      <4>1. [name |-> g, rev |-> v1[g].ver] \in all
        OBVIOUS
      <4> HIDE DEF all
      <4> QED BY <4>1 DEF Listing!NamesOf
    <3>2. ASSUME NEW n \in Listing(p)!NamesOf(all) PROVE n \in F
      BY DEF Listing!NamesOf
    <3> QED BY <3>1, <3>2
  <2> QED BY <2>2, <2>3, <2>4, <1>3 DEF Listing!ObjectsOK
<1>5. \A n \in Listing(p)!Graphs : Listing(p)!WasListed(n) => n <= v4.at
  BY <1>1 DEF Listing!ListInv, Listing!Behind
<1>6. ASSUME NEW e \in all, NEW n \in Listing(p)!Graphs, Listing(p)!WasListed(n) PROVE n < e.name
  <2>1. e.name \in names /\ n <= v4.at
    BY <1>2, <1>5, <1>6
  <2> QED BY <2>1, <1>3, NamesAreNumbers
<1>7. ASSUME NEW g \in v12, ~Listing(p)!WasListed(g), g \notin F
      PROVE  Cardinality(all) > Setup[p].Limit /\ \A e \in all : e.name < g
  <2>1. g \in names
    BY <1>1, <1>3, <1>7 DEF Listing!ListInv, Listing!ObjectsOK
  <2>2. Cardinality(F) <= Cardinality(all) /\ Cardinality(F) \in Nat /\ Cardinality(all) \in Nat
    <3> HIDE DEF all
    <3> QED BY <1>4, NamesCount
  <2>3. ~(Cardinality(F) < Setup[p].Limit + 1)
    BY <1>2, <1>7, <2>1
  <2>4. ASSUME NEW h \in F PROVE h < g
    <3>1. h \in Nat /\ g \in Nat /\ h # g /\ ~(g < h)
      BY <1>2, <1>7, <2>1, NamesAreNumbers
    <3> QED BY <3>1
  <2> QED BY <2>2, <2>3, <2>4, NamesAreNumbers
<1> HIDE DEF all
<1>8. Listing(p)!ObjectsOK'
  BY <1>1, <1>3 DEF Listing!ObjectsOK
<1>9. /\ v5' \in Nat /\ v6' = v6 /\ v7' = v7 /\ v10' \subseteq Listing(p)!Summaries
      /\ v12' = v12 /\ v13' = v13
  BY <1>1, <1>3 DEF Listing!TypeOK
<1> QED BY <1>1, <1>4, <1>6, <1>7, <1>8, <1>9, ReplyShown

\* _decode_cursor
LEMMA BeginPageStep ==
    ASSUME NEW p \in ListParts, Listing(p)!ListInv, Listing(p)!BeginPage
    PROVE  Listing(p)!ListInv'
<1>1. /\ v3 = "page" /\ v3' = "list" /\ v10' = {} /\ UNCHANGED <<v1, v2, v6, v7, v11, v12, v13>>
      /\ v4'.at = v4.at /\ v4' \in [at : Nat, inclusive : BOOLEAN] /\ v5' \in Nat /\ v5' <= v4.at
      /\ v4'.inclusive => Setup[p].Store \in {"gcs", "azure"} /\ v5' = v4.at
      /\ Setup[p].Store = "oci" => v5' = 0
      /\ v5' \in {0, v4.at}
  <2>1. v4 \in [at : Nat, inclusive : BOOLEAN] /\ v5 \in Nat
    BY DEF Listing!ListInv, Listing!TypeOK
  <2> DEFINE inclusive == Setup[p].Store \in {"gcs", "azure"} /\ v4.at # 0
  <2>2. v4' = [v4 EXCEPT !.inclusive = inclusive] /\ v5' = (IF inclusive THEN v4.at ELSE 0)
    BY DEF Listing!BeginPage
  <2>3. inclusive \in BOOLEAN
    OBVIOUS
  <2> HIDE DEF inclusive
  <2>4. v4' \in [at : Nat, inclusive : BOOLEAN] /\ v4'.at = v4.at /\ v4'.inclusive = inclusive
    BY <2>1, <2>2, <2>3
  <2>5. inclusive => Setup[p].Store \in {"gcs", "azure"}
    BY DEF inclusive
  <2> QED BY <2>1, <2>2, <2>4, <2>5 DEF Listing!BeginPage, Listing!others
<1>2. Listing(p)!TypeOK' /\ Listing(p)!ObjectsOK'
  BY <1>1 DEF Listing!ListInv, Listing!TypeOK, Listing!ObjectsOK
<1>3. \A n : Listing(p)!WasListed(n)' <=> Listing(p)!WasListed(n)
  BY <1>1 DEF Listing!WasListed
<1>4. \A n \in Listing(p)!Graphs : Listing(p)!WasListed(n) => Listing(p)!Behind(n)'
  BY <1>1 DEF Listing!ListInv, Listing!Behind
<1>5. \A g \in v12 : Listing(p)!WasListed(g) \/ (Listing(p)!Ahead(g)' /\ g # v5')
  <2>1. v12 \subseteq Listing(p)!Graphs
    BY DEF Listing!ListInv, Listing!ObjectsOK
  <2> QED BY <1>1, <2>1, NamesAreNumbers DEF Listing!ListInv, Listing!TypeOK, Listing!Ahead
<1>6. Listing(p)!PageOK'
  BY <1>1 DEF Listing!PageOK, Listing!OneOfEach
<1>7. Listing(p)!ShowsWhatWas' /\ Listing(p)!ListsWhatStays'
  BY <1>1 DEF Listing!ListInv, Listing!ShowsWhatWas, Listing!ListsWhatStays
<1> QED BY <1>1, <1>2, <1>3, <1>4, <1>5, <1>6, <1>7 DEF Listing!ListInv, Listing!Past

\* The provider's page: what it leaves out comes after it, and is known to be
\* there; nothing that was shown or found comes after its first new name.
LEMMA PageFacts ==
    ASSUME NEW p \in ListParts, Listing(p)!ListInv, v3 = "list", NEW page \in Listing(p)!Pages
    PROVE  LET names == {g \in Listing(p)!Graphs : v1[g].ver # 0 /\ Listing(p)!Ahead(g)}
           IN  /\ page.names \subseteq names /\ page.rest = names \ page.names
               /\ page.names = {} => names = {}
               /\ \A g \in page.names, h \in page.rest : g < h
               /\ page.rest # {} => Listing(p)!HasMore(page)
               /\ Listing(p)!HasMore(page) \in BOOLEAN
<1> DEFINE names == {g \in Listing(p)!Graphs : v1[g].ver # 0 /\ Listing(p)!Ahead(g)}
           sizes == IF names = {} THEN {0}
                    ELSE IF Setup[p].Store = "gcs" THEN {Setup[p].Limit + 2} ELSE 1 .. Setup[p].Limit + 2
<1>1. PICK k \in sizes : page = [names |-> Listing(p)!First(names, k), rest |-> names \ Listing(p)!First(names, k)]
  BY DEF Listing!Pages, Listing!MaxKeys
<1>2. names \subseteq Listing(p)!Graphs /\ k \in Nat /\ (names # {} => k # 0)
      /\ (names # {} /\ Setup[p].Store = "gcs" => k = Setup[p].Limit + 2)
  BY NamesAreNumbers
<1> HIDE DEF names, sizes
<1>3. /\ page.names \subseteq names
      /\ \A g \in page.names, h \in names : h < g => h \in page.names
      /\ k # 0 /\ names # {} => page.names # {}
      /\ Cardinality(page.names) < k => page.names = names
      /\ page.rest = names \ page.names
  BY <1>1, <1>2, FirstFew
<1>4. ASSUME NEW g \in page.names, NEW h \in page.rest PROVE g < h
  <2>1. g \in Nat /\ h \in Nat /\ g # h /\ ~(h < g)
    BY <1>2, <1>3, NamesAreNumbers
  <2> QED BY <2>1
<1>5. ASSUME page.rest # {} PROVE Listing(p)!HasMore(page)
  <2>1. CASE Setup[p].Store = "gcs"
    <3>1. IsFiniteSet(page.names)
      <4>1. Listing(p)!Graphs = 1 .. Setup[p].MaxGraph /\ Setup[p].MaxGraph \in Nat
        BY ListConstants
      <4>2. IsFiniteSet(Listing(p)!Graphs)
        BY <4>1, FS_Interval
      <4>3. page.names \subseteq Listing(p)!Graphs
        BY <1>2, <1>3
      <4> QED BY <4>2, <4>3, FS_Subset
    <3>2. Cardinality(page.names) \in Nat /\ ~(Cardinality(page.names) < k) /\ k = Setup[p].Limit + 2
      BY <3>1, <1>2, <1>3, <1>5, <2>1, FS_CardinalityType
    <3> QED BY <2>1, <3>2, ListingsCount, NamesAreNumbers DEF Listing!HasMore, Listing!MaxKeys
  <2>2. CASE Setup[p].Store # "gcs"
    BY <2>2, <1>5 DEF Listing!HasMore
  <2> QED BY <2>1, <2>2
<1>6. Listing(p)!HasMore(page) \in BOOLEAN
  <2>1. CASE Setup[p].Store = "gcs"
    BY <2>1 DEF Listing!HasMore
  <2>2. CASE Setup[p].Store # "gcs"
    BY <2>2 DEF Listing!HasMore
  <2> QED BY <2>1, <2>2
<1> QED BY <1>2, <1>3, <1>4, <1>5, <1>6 DEF names

\* What was shown or found is at most the first name ahead, and less unless that
\* is the name to be skipped.
LEMMA AheadOfAll ==
    ASSUME NEW p \in ListParts, Listing(p)!ListInv, v3 = "list", NEW h \in Listing(p)!Graphs, Listing(p)!Ahead(h)
    PROVE  /\ v5 <= h
           /\ \A n \in Listing(p)!Graphs : Listing(p)!Past(n) => n <= h /\ (h # v5 => n < h)
<1>1. v4.at \in Nat /\ h \in Nat /\ v5 \in Nat /\ v5 <= v4.at
      /\ (v4.inclusive /\ Setup[p].Store # "oci" => v5 = v4.at)
  BY NamesAreNumbers DEF Listing!ListInv, Listing!TypeOK, Listing!PageOK
<1>2. ASSUME NEW n \in Listing(p)!Graphs, Listing(p)!Past(n) PROVE Listing(p)!Behind(n) /\ n \in Nat
  BY <1>2, NamesAreNumbers DEF Listing!ListInv, Listing!PageOK, Listing!Past, Listing!NamesOf
<1> QED BY <1>1, <1>2 DEF Listing!Ahead, Listing!Behind

\* _list_entries
LEMMA ListPageStep ==
    ASSUME NEW p \in ListParts, Listing(p)!ListInv, Listing(p)!ListPage
    PROVE  Listing(p)!ListInv'
<1> DEFINE names == {g \in Listing(p)!Graphs : v1[g].ver # 0 /\ Listing(p)!Ahead(g)}
<1>1. /\ v3 = "list" /\ UNCHANGED <<v1, v2, v5, v10, v12, v13>>
      /\ Listing(p)!ObjectsOK /\ Listing(p)!TypeOK /\ Listing(p)!PageOK
      /\ v12 \subseteq Listing(p)!Graphs
      /\ \A g \in v12 : v1[g].ver # 0 /\ (Listing(p)!Past(g) \/ (Listing(p)!Ahead(g) /\ g # v5))
  BY DEF Listing!ListPage, Listing!ListInv, Listing!others, Listing!ObjectsOK, Listing!Shown
<1>2. Listing(p)!ObjectsOK'
  BY <1>1 DEF Listing!ObjectsOK
<1>3. PICK page \in Listing(p)!Pages :
        IF page.names = {}
        THEN Listing(p)!Reply(v10) /\ UNCHANGED <<v6, v7>>
        ELSE /\ v6' = {[name |-> g, ver |-> v1[g].ver, fenced |-> v1[g].fenced] : g \in page.names}
             /\ v7' = Listing(p)!HasMore(page) /\ v4' = Listing(p)!NextStart(page)
             /\ v3' = "entry" /\ UNCHANGED v11
  BY DEF Listing!ListPage
<1>4. /\ page.names \subseteq names /\ page.rest = names \ page.names
      /\ page.names = {} => names = {}
      /\ \A g \in page.names, h \in page.rest : g < h
      /\ page.rest # {} => Listing(p)!HasMore(page)
      /\ Listing(p)!HasMore(page) \in BOOLEAN
  BY <1>1, <1>3, PageFacts
<1>5. CASE page.names = {}
  <2>1. \A g \in v12 : Listing(p)!WasListed(g) \/ g \in Listing(p)!NamesOf(v10)
    BY <1>1, <1>4, <1>5 DEF Listing!Past
  <2>2. /\ v10 \subseteq Listing(p)!Summaries /\ Listing(p)!OneOfEach(v10) /\ v10 \subseteq v13'
        /\ \A e \in v10, n \in Listing(p)!Graphs : Listing(p)!WasListed(n) => n < e.name
        /\ v5' \in Nat /\ v10' \subseteq Listing(p)!Summaries /\ v12' \subseteq v12 /\ v13 \subseteq v13'
    BY <1>1 DEF Listing!PageOK, Listing!TypeOK
  <2> QED BY <1>2, <1>3, <1>5, <2>1, <2>2, ReplyShown
<1>6. CASE page.names # {}
  <2>1. /\ page.names \subseteq Listing(p)!Graphs /\ page.rest \subseteq Listing(p)!Graphs
        /\ Listing(p)!Graphs \subseteq Nat
    BY <1>4, NamesAreNumbers
  <2>2. v4' = Listing(p)!NextStart(page) /\ v3' = "entry" /\ v11' = v11 /\ v7' = Listing(p)!HasMore(page)
    BY <1>3, <1>6
  <2>3. /\ v4' \in [at : Nat, inclusive : BOOLEAN]
        /\ v4'.inclusive => Setup[p].Store \in {"gcs", "oci"}
        /\ \A g \in page.names : Listing(p)!Behind(g)' /\ g <= v4'.at
                                 /\ \A n \in Nat : n <= g => Listing(p)!Behind(n)'
        /\ \A g \in page.rest : ~Listing(p)!Behind(g)'
    <3>1. CASE Setup[p].Store = "oci" /\ page.rest # {}
      <4>1. v4' = [at |-> Listing(p)!Min(page.rest), inclusive |-> TRUE]
        BY <2>2, <3>1 DEF Listing!NextStart
      <4>2. Listing(p)!Min(page.rest) \in page.rest /\ \A n \in page.rest : Listing(p)!Min(page.rest) <= n
        BY <2>1, <3>1, MinMax
      <4>3. \A n : Listing(p)!Behind(n)' <=> n < v4'.at
        BY <3>1, <4>1 DEF Listing!Behind
      <4>4. v4' \in [at : Nat, inclusive : BOOLEAN] /\ v4'.at \in page.rest /\ v4'.at \in Nat
        BY <2>1, <4>1, <4>2
      <4>5. \A g \in page.rest : ~(g < v4'.at)
        BY <2>1, <4>1, <4>2
      <4>6. \A g \in page.names : g \in Nat /\ g < v4'.at
        BY <1>4, <2>1, <4>4
      <4> QED BY <3>1, <4>3, <4>4, <4>5, <4>6
    <3>2. CASE ~(Setup[p].Store = "oci" /\ page.rest # {})
      <4>1. v4' = [at |-> Listing(p)!Max(page.names), inclusive |-> Setup[p].Store = "gcs"]
        BY <2>2, <3>2 DEF Listing!NextStart
      <4>2. Listing(p)!Max(page.names) \in page.names /\ \A n \in page.names : n <= Listing(p)!Max(page.names)
        BY <2>1, <1>6, MinMax
      <4>3. \A n : Listing(p)!Behind(n)' <=> n <= v4'.at
        BY <4>1 DEF Listing!Behind
      <4>4. v4' \in [at : Nat, inclusive : BOOLEAN] /\ v4'.at \in page.names
            /\ (v4'.inclusive => Setup[p].Store = "gcs")
        BY <2>1, <4>1, <4>2
      <4>5. \A g \in page.rest : v4'.at < g
        BY <1>4, <4>4
      <4> QED BY <2>1, <4>1, <4>2, <4>3, <4>4, <4>5
    <3> QED BY <3>1, <3>2
  <2>4. PICK first \in page.names : TRUE
    BY <1>6
  <2>5. \A h \in page.names : /\ v5 <= h /\ h \in Listing(p)!Graphs
          /\ \A n \in Listing(p)!Graphs : Listing(p)!Past(n) => n <= h /\ (h # v5 => n < h)
    BY <1>1, <1>4, AheadOfAll
  <2>6. \A n : /\ Listing(p)!WasListed(n)' <=> Listing(p)!WasListed(n)
               /\ Listing(p)!Past(n)' <=> Listing(p)!Past(n)
    BY <1>1, <2>2 DEF Listing!WasListed, Listing!Past
  <2>7. \A n \in Listing(p)!Graphs : Listing(p)!Past(n) => Listing(p)!Behind(n)'
    BY <2>1, <2>3, <2>4, <2>5
  <2>8. Listing(p)!NamesOf(v6') = page.names
        /\ \A e \in v6' : e.name \in page.names /\ e.ver = v1[e.name].ver /\ e.fenced = v1[e.name].fenced
    <3>1. v6' = {[name |-> g, ver |-> v1[g].ver, fenced |-> v1[g].fenced] : g \in page.names}
      BY <1>3, <1>6
    <3>2. \A e \in v6' : e.name \in page.names /\ e.ver = v1[e.name].ver /\ e.fenced = v1[e.name].fenced
      BY <3>1
    <3>3. ASSUME NEW g \in page.names PROVE g \in Listing(p)!NamesOf(v6')
      <4>1. [name |-> g, ver |-> v1[g].ver, fenced |-> v1[g].fenced] \in v6'
        BY <3>1
      <4> QED BY <4>1 DEF Listing!NamesOf
    <3>4. \A n \in Listing(p)!NamesOf(v6') : n \in page.names
      BY <3>2 DEF Listing!NamesOf
    <3> QED BY <3>2, <3>3, <3>4
  <2>9. v6' \subseteq [name : Listing(p)!Graphs, ver : Nat, fenced : BOOLEAN] /\ v6' # {}
        /\ Listing(p)!OneOfEach(v6')
    <3>1. v6' = {[name |-> g, ver |-> v1[g].ver, fenced |-> v1[g].fenced] : g \in page.names}
      BY <1>3, <1>6
    <3>2. \A g \in page.names : v1[g].ver \in Nat /\ v1[g].fenced \in BOOLEAN /\ g \in Listing(p)!Graphs
      BY <1>1, <2>1 DEF Listing!ObjectsOK
    <3>3. v6' \subseteq [name : Listing(p)!Graphs, ver : Nat, fenced : BOOLEAN]
      BY <3>1, <3>2
    <3>4. v6' # {}
      BY <3>1, <1>6
    <3>5. Listing(p)!OneOfEach(v6')
      BY <3>1 DEF Listing!OneOfEach
    <3> QED BY <3>3, <3>4, <3>5
  <2>10. Listing(p)!TypeOK'
    BY <1>1, <1>4, <2>2, <2>3, <2>9 DEF Listing!TypeOK
  <2>11. Listing(p)!PageOK'
    <3>1. \A e \in v10 : e.name \in Listing(p)!Graphs /\ Listing(p)!Past(e.name)
      BY <1>1 DEF Listing!TypeOK, Listing!Summaries, Listing!Past, Listing!NamesOf
    <3>2. v5 <= v4'.at
      <4>1. v5 \in Nat /\ first \in Nat /\ v4'.at \in Nat /\ v5 <= first /\ first <= v4'.at
        BY <1>1, <2>1, <2>3, <2>4, <2>5 DEF Listing!TypeOK
      <4> QED BY <4>1
    <3> QED BY <1>1, <2>6, <2>7, <3>1, <3>2 DEF Listing!PageOK
  <2>12. Listing(p)!EntriesOK'
    <3>1. ASSUME NEW e \in v6' PROVE Listing(p)!Shown(e) => [name |-> e.name, rev |-> e.ver] \in v13
      BY <1>1, <2>1, <2>8 DEF Listing!ObjectsOK, Listing!Now, Listing!Shown
    <3>2. ASSUME NEW e \in v6', e.name \in v12 PROVE Listing(p)!Shown(e)
      BY <1>1, <2>8, <3>2 DEF Listing!ObjectsOK, Listing!Shown
    <3> QED BY <1>1, <2>3, <2>5, <2>6, <2>8, <2>9, <3>1, <3>2 DEF Listing!EntriesOK
  <2>13. \A g \in v12 : Listing(p)!Past(g)' \/ Listing(p)!Left(g)' \/ (v7' /\ ~Listing(p)!Behind(g)')
    <3>1. ASSUME NEW g \in v12, ~Listing(p)!Past(g) PROVE g # v5 /\ (g \in page.names \/ g \in page.rest)
      BY <1>1, <1>4, <3>1
    <3>2. page.rest # {} => v7'
      BY <1>4, <2>2
    <3> QED BY <1>1, <2>3, <2>6, <2>8, <3>1, <3>2 DEF Listing!Left
  <2>14. Listing(p)!ShowsWhatWas' /\ Listing(p)!ListsWhatStays'
    BY <1>1, <2>2 DEF Listing!ListInv, Listing!ShowsWhatWas, Listing!ListsWhatStays
  <2> QED BY <1>1, <1>2, <2>2, <2>6, <2>7, <2>10, <2>11, <2>12, <2>13, <2>14 DEF Listing!ListInv, Listing!Past
<1> QED BY <1>5, <1>6

\* On to the next entry: what is looked at is found, passed over, or was not
\* there all the time.
LEMMA ContinueStep ==
    ASSUME NEW p \in ListParts, Listing(p)!ListInv, v3 \in {"entry", "read"},
           NEW entry \in v6, \A e \in v6 : entry.name <= e.name,
           NEW found, Listing(p)!Continue(found, v6 \ {entry}),
           \/ found = v10
           \/ \E r \in Nat : /\ found = v10 \union {[name |-> entry.name, rev |-> r]}
                             /\ [name |-> entry.name, rev |-> r] \in v13 /\ entry.name # v5,
           entry.name \in v12' /\ entry.name # v5 => entry.name \in Listing(p)!NamesOf(found),
           v12' \subseteq v12, v13 \subseteq v13', Listing(p)!ObjectsOK', v7' = v7
    PROVE  Listing(p)!ListInv'
<1> DEFINE rest == v6 \ {entry}
<1>1. /\ Listing(p)!TypeOK /\ Listing(p)!PageOK /\ Listing(p)!EntriesOK
      /\ v10' = found /\ v6' = rest /\ v12' \subseteq Listing(p)!Graphs
      /\ \A n \in Listing(p)!Graphs : Listing(p)!WasListed(n) => Listing(p)!Behind(n)
      /\ \A g \in v12' : Listing(p)!Past(g) \/ Listing(p)!Left(g) \/ (v7 /\ ~Listing(p)!Behind(g))
  BY DEF Listing!ListInv, Listing!Continue, Listing!ObjectsOK
<1>2. /\ v4 \in [at : Nat, inclusive : BOOLEAN] /\ v5 \in Nat /\ entry.name \in Listing(p)!Graphs
      /\ Listing(p)!Graphs \subseteq Nat /\ \A e \in rest : e.name \in Nat /\ e.name \in Listing(p)!Graphs
  BY <1>1, NamesAreNumbers DEF Listing!TypeOK
<1>3. /\ v10 \subseteq found /\ found \subseteq Listing(p)!Summaries
      /\ found \subseteq v13 /\ Listing(p)!OneOfEach(found)
      /\ \A e \in found : e \in v10 \/ (e.name = entry.name /\ entry.name # v5)
  <2>1. CASE found = v10
    BY <2>1, <1>1 DEF Listing!TypeOK, Listing!PageOK
  <2>2. CASE found # v10
    <3>1. PICK r \in Nat : /\ found = v10 \union {[name |-> entry.name, rev |-> r]}
                           /\ [name |-> entry.name, rev |-> r] \in v13 /\ entry.name # v5
      BY <2>2
    <3>2. ASSUME NEW e \in v10 PROVE e.name < entry.name
      <4>1. e.name \in Listing(p)!Graphs /\ Listing(p)!Past(e.name)
        BY <1>1 DEF Listing!TypeOK, Listing!Summaries, Listing!Past, Listing!NamesOf
      <4> QED BY <4>1, <1>1, <3>1 DEF Listing!EntriesOK
    <3>3. Listing(p)!OneOfEach(found)
      <4>1. \A e \in v10 : e.name # entry.name
        BY <3>2, <1>1, <1>2 DEF Listing!TypeOK, Listing!Summaries
      <4> QED BY <4>1, <3>1, <1>1 DEF Listing!OneOfEach, Listing!PageOK
    <3>4. [name |-> entry.name, rev |-> r] \in Listing(p)!Summaries
      BY <1>2 DEF Listing!Summaries
    <3> QED BY <1>1, <3>1, <3>3, <3>4 DEF Listing!TypeOK, Listing!PageOK
  <2> QED BY <2>1, <2>2
<1>4. ASSUME NEW e \in found PROVE Listing(p)!Behind(e.name) /\ e.name \in Listing(p)!Graphs
               /\ \A n \in Listing(p)!Graphs : Listing(p)!WasListed(n) => n < e.name
  <2>1. CASE e \in v10
    BY <2>1, <1>1 DEF Listing!PageOK, Listing!TypeOK, Listing!Summaries
  <2>2. CASE e.name = entry.name /\ entry.name # v5
    BY <2>2, <1>1, <1>2 DEF Listing!EntriesOK, Listing!Past
  <2> QED BY <1>3, <2>1, <2>2
<1>5. ASSUME NEW e \in rest PROVE entry.name < e.name
  <2>1. entry.name # e.name /\ entry.name <= e.name
    BY <1>1 DEF Listing!EntriesOK, Listing!OneOfEach
  <2> QED BY <2>1, <1>2
<1>6. ASSUME NEW e \in rest, e.name # v5, NEW f \in found PROVE f.name < e.name
  <2>1. CASE f \in v10
    <3>1. f.name \in Listing(p)!Graphs /\ Listing(p)!Past(f.name)
      BY <2>1, <1>1 DEF Listing!TypeOK, Listing!Summaries, Listing!Past, Listing!NamesOf
    <3> QED BY <3>1, <1>1, <1>6 DEF Listing!EntriesOK
  <2>2. CASE f.name = entry.name
    BY <2>2, <1>5
  <2> QED BY <1>3, <2>1, <2>2
<1>7. ASSUME NEW g \in v12'
      PROVE  \/ Listing(p)!WasListed(g) \/ g \in Listing(p)!NamesOf(found)
             \/ g # v5 /\ g \in Listing(p)!NamesOf(rest)
             \/ v7 /\ ~Listing(p)!Behind(g)
  <2>1. CASE Listing(p)!Past(g)
    BY <2>1, <1>3 DEF Listing!Past, Listing!NamesOf
  <2>2. CASE Listing(p)!Left(g)
    <3>1. PICK e \in v6 : e.name = g
      BY <2>2 DEF Listing!Left, Listing!NamesOf
    <3>2. CASE e = entry
      BY <2>2, <3>1, <3>2 DEF Listing!Left
    <3>3. CASE e # entry
      BY <2>2, <3>1, <3>3 DEF Listing!Left, Listing!NamesOf
    <3> QED BY <3>2, <3>3
  <2> QED BY <1>1, <2>1, <2>2
<1>8. ASSUME NEW g \in v12', v7, ~Listing(p)!Behind(g), NEW e \in found PROVE e.name < g
  <2>1. g \in Nat /\ e.name \in Nat /\ Listing(p)!Behind(e.name) /\ v4.at \in Nat
    BY <1>1, <1>2, <1>4
  <2> QED BY <2>1, <1>8 DEF Listing!Behind
<1>9. CASE Cardinality(found) > Setup[p].Limit \/ (rest = {} /\ ~v7)
  <2>1. Listing(p)!Reply(found) /\ v5' = v5
    BY <1>9, ListingsCount DEF Listing!Continue
  <2>2. ASSUME NEW g \in v12' PROVE \/ Listing(p)!WasListed(g) \/ g \in Listing(p)!NamesOf(found)
                                    \/ Cardinality(found) > Setup[p].Limit /\ \A e \in found : e.name < g
    <3>1. CASE g # v5 /\ g \in Listing(p)!NamesOf(rest)
      BY <3>1, <1>6, <1>9 DEF Listing!NamesOf
    <3>2. CASE v7 /\ ~Listing(p)!Behind(g)
      BY <3>2, <1>8, <1>9
    <3> QED BY <1>7, <3>1, <3>2
  <2>3. v5' \in Nat /\ v6' \subseteq v6 /\ v10' \subseteq Listing(p)!Summaries /\ found \subseteq v13'
    BY <1>1, <1>2, <1>3, <2>1
  <2>4. \A e \in found, n \in Listing(p)!Graphs : Listing(p)!WasListed(n) => n < e.name
    BY <1>4
  <2> QED BY <1>3, <2>1, <2>2, <2>3, <2>4, ReplyShown
<1>10. CASE ~(Cardinality(found) > Setup[p].Limit \/ (rest = {} /\ ~v7))
  <2>1. /\ v4' = v4 /\ v11' = v11
        /\ IF rest = {} THEN /\ v3' \in {"failed", "list"}
                             /\ v5' = IF Setup[p].Store = "gcs" THEN v4.at ELSE v5
           ELSE v3' = "entry" /\ v5' = v5
    BY <1>10, ListingsCount DEF Listing!Continue, Listing!NextPage
  <2>2. \A n : /\ Listing(p)!WasListed(n)' <=> Listing(p)!WasListed(n)
               /\ Listing(p)!Behind(n)' <=> Listing(p)!Behind(n)
               /\ Listing(p)!Ahead(n)' <=> Listing(p)!Ahead(n)
               /\ Listing(p)!Past(n)' <=> Listing(p)!WasListed(n) \/ n \in Listing(p)!NamesOf(found)
               /\ Listing(p)!Left(n)' <=> n # v5' /\ n \in Listing(p)!NamesOf(rest)
    BY <1>1, <2>1 DEF Listing!WasListed, Listing!Behind, Listing!Ahead, Listing!Past, Listing!Left
  <2>3. Listing(p)!TypeOK'
    BY <1>1, <1>2, <1>3, <2>1 DEF Listing!TypeOK
  <2>4. Listing(p)!PageOK'
    <3>1. v5' <= v4'.at /\ (Setup[p].Store = "oci" => v5' = 0)
      BY <1>1, <1>2, <2>1 DEF Listing!PageOK
    <3> QED BY <1>1, <1>3, <1>4, <2>2, <3>1 DEF Listing!PageOK
  <2>5. Listing(p)!ShowsWhatWas' /\ Listing(p)!ListsWhatStays'
    BY <2>1 DEF Listing!ListInv, Listing!ShowsWhatWas, Listing!ListsWhatStays
  <2>6. CASE rest = {}
    <3>1. \A g \in v12' : Listing(p)!Past(g)' \/ (Listing(p)!Ahead(g)' /\ g # v5')
      <4>1. ASSUME NEW g \in v12', ~Listing(p)!Behind(g) PROVE Listing(p)!Ahead(g) /\ g # v5'
        <5>1. g \in Nat /\ g > 0 /\ v5 <= v4.at /\ (Setup[p].Store = "oci" => v5 = 0)
          BY <1>1, NamesAreNumbers DEF Listing!PageOK
        <5> QED BY <4>1, <5>1, <1>2, <2>1, <2>6 DEF Listing!Behind, Listing!Ahead
      <4>2. ASSUME NEW g \in v12' PROVE g \notin Listing(p)!NamesOf(rest)
        BY <2>6 DEF Listing!NamesOf
      <4> QED BY <1>7, <2>2, <4>1, <4>2
    <3>2. v4'.inclusive /\ Setup[p].Store # "oci" => v5' = v4'.at
      BY <1>1, <2>1, <2>6 DEF Listing!EntriesOK
    <3> QED BY <1>1, <2>1, <2>2, <2>3, <2>4, <2>5, <2>6, <3>1, <3>2 DEF Listing!ListInv
  <2>7. CASE rest # {}
    <3>1. Listing(p)!EntriesOK'
      <4>1. Listing(p)!OneOfEach(rest)
        BY <1>1 DEF Listing!EntriesOK, Listing!OneOfEach
      <4>2. ASSUME NEW e \in rest, e.name # v5, NEW n \in Listing(p)!Graphs, Listing(p)!Past(n)'
            PROVE  n < e.name
        <5>1. CASE Listing(p)!WasListed(n)
          BY <5>1, <4>2, <1>1 DEF Listing!EntriesOK, Listing!Past
        <5>2. CASE n \in Listing(p)!NamesOf(found)
          BY <5>2, <4>2, <1>6 DEF Listing!NamesOf
        <5> QED BY <2>2, <4>2, <5>1, <5>2
      <4> QED BY <1>1, <2>1, <2>2, <2>7, <4>1, <4>2 DEF Listing!EntriesOK
    <3>2. \A g \in v12' : Listing(p)!Past(g)' \/ Listing(p)!Left(g)' \/ (v7' /\ ~Listing(p)!Behind(g)')
      BY <1>7, <2>1, <2>2, <2>7
    <3> QED BY <1>1, <2>1, <2>2, <2>3, <2>4, <2>5, <2>7, <3>1, <3>2 DEF Listing!ListInv
  <2> QED BY <2>6, <2>7
<1> QED BY <1>9, <1>10

\* _summary_from_key, _summary_from_entry, _summary_from_blob
LEMMA EntryStep ==
    ASSUME NEW p \in ListParts, Listing(p)!ListInv, Listing(p)!Entry
    PROVE  Listing(p)!ListInv'
<1> DEFINE entry == Listing(p)!FirstEntry
           head == Listing(p)!Properties(entry)
           looked == [name |-> entry.name, ver |-> head.ver, fenced |-> TRUE]
<1>1. /\ v3 = "entry" /\ Listing(p)!TypeOK /\ Listing(p)!ObjectsOK /\ Listing(p)!PageOK /\ Listing(p)!EntriesOK
      /\ UNCHANGED <<v1, v2, v7, v12, v13>> /\ Listing(p)!ObjectsOK'
  BY DEF Listing!Entry, Listing!ListInv, Listing!others, Listing!ObjectsOK
<1>2. entry \in v6 /\ \A e \in v6 : entry.name <= e.name
  BY <1>1, FirstEntryFirst DEF Listing!EntriesOK
<1> HIDE DEF entry
<1>3. /\ entry.name \in Listing(p)!Graphs /\ entry.ver \in Nat /\ entry.fenced \in BOOLEAN
      /\ v1[entry.name].ver \in Nat
  BY <1>1, <1>2 DEF Listing!TypeOK, Listing!ObjectsOK
<1>4. /\ head.ver \in Nat
      /\ Listing(p)!Shown(head) => [name |-> entry.name, rev |-> head.ver] \in v13
      /\ entry.name \in v12 => Listing(p)!Shown(head)
  <2>1. CASE head = v1[entry.name]
    <3>1. Listing(p)!Shown(v1[entry.name]) =>
            [name |-> entry.name, rev |-> v1[entry.name].ver] \in Listing(p)!Now(v1)
      BY <1>3 DEF Listing!Now
    <3> QED BY <2>1, <3>1, <1>1, <1>3 DEF Listing!ObjectsOK
  <2>2. CASE head = [ver |-> entry.ver, fenced |-> entry.fenced]
    BY <2>2, <1>1, <1>2, <1>3 DEF Listing!EntriesOK, Listing!Shown
  <2> QED BY <2>1, <2>2 DEF Listing!Properties
<1> HIDE DEF head
<1>5. IF entry.name # v5 /\ head.ver # 0 /\ Listing(p)!Summary(entry, head) = {}
      THEN v3' = "read" /\ v6' = (v6 \ {entry}) \union {looked} /\ UNCHANGED <<v10, v4, v5, v11>>
      ELSE Listing(p)!Continue(IF entry.name = v5 THEN v10 ELSE v10 \union Listing(p)!Summary(entry, head),
                               v6 \ {entry})
  BY DEF Listing!Entry, entry, head
<1>6. CASE entry.name # v5 /\ head.ver # 0 /\ Listing(p)!Summary(entry, head) = {}
  <2>1. ~Listing(p)!Shown(head)
    BY <1>6 DEF Listing!Summary
  <2>2. entry.name \notin v12
    BY <2>1, <1>4
  <2>3. looked \in [name : Listing(p)!Graphs, ver : Nat, fenced : BOOLEAN] /\ looked.name = entry.name
        /\ looked.fenced = TRUE
    BY <1>3, <1>4
  <2> HIDE DEF looked
  <2>4. v3' = "read" /\ v6' = (v6 \ {entry}) \union {looked} /\ UNCHANGED <<v10, v4, v5, v11>>
    BY <1>5, <1>6
  <2>5. Listing(p)!TypeOK'
    BY <1>1, <2>3, <2>4 DEF Listing!TypeOK
  <2>6. \A n : /\ Listing(p)!WasListed(n)' <=> Listing(p)!WasListed(n)
               /\ Listing(p)!Behind(n)' <=> Listing(p)!Behind(n)
               /\ Listing(p)!Past(n)' <=> Listing(p)!Past(n)
    BY <2>4 DEF Listing!WasListed, Listing!Behind, Listing!Past
  <2>7. \A e \in v6' : \E f \in v6 : f.name = e.name /\ (e = looked \/ e = f)
    BY <1>2, <2>3, <2>4
  <2>8. \A f \in v6 : \E e \in v6' : e.name = f.name
    BY <1>2, <2>3, <2>4
  <2>9. Listing(p)!NamesOf(v6') = Listing(p)!NamesOf(v6)
    <3>1. \A n : (\E e \in v6' : n = e.name) <=> (\E f \in v6 : n = f.name)
      BY <2>7, <2>8
    <3> QED BY <3>1 DEF Listing!NamesOf
  <2>10. Listing(p)!OneOfEach(v6')
    <3>1. \A e \in v6 \ {entry} : e.name # entry.name
      BY <1>1, <1>2 DEF Listing!EntriesOK, Listing!OneOfEach
    <3> QED BY <1>1, <2>3, <2>4, <3>1 DEF Listing!EntriesOK, Listing!OneOfEach
  <2>11. Listing(p)!EntriesOK'
    <3>1. ~Listing(p)!Shown(looked)
      BY <2>3 DEF Listing!Shown
    <3> QED BY <1>1, <1>2, <2>2, <2>3, <2>4, <2>6, <2>7, <2>8, <2>10, <3>1 DEF Listing!EntriesOK
  <2>12. Listing(p)!PageOK'
    BY <1>1, <2>4, <2>6 DEF Listing!PageOK
  <2>13. \A g \in v12 : Listing(p)!Past(g)' \/ Listing(p)!Left(g)' \/ (v7' /\ ~Listing(p)!Behind(g)')
    BY <1>1, <2>4, <2>6, <2>9 DEF Listing!ListInv, Listing!Left
  <2>14. \A e \in v6' : (\A f \in v6' : e.name <= f.name) => e.name \notin v12
    <3>1. ASSUME NEW e \in v6', \A f \in v6' : e.name <= f.name PROVE e.name = entry.name
      <4>1. looked \in v6' /\ e.name \in Nat /\ entry.name \in Nat
        BY <1>3, <2>4, <2>5, NamesAreNumbers DEF Listing!TypeOK
      <4>2. e.name <= entry.name /\ entry.name <= e.name
        BY <1>2, <2>3, <2>7, <3>1, <4>1
      <4> QED BY <4>1, <4>2
    <3> QED BY <3>1, <2>2
  <2>15. Listing(p)!ShowsWhatWas' /\ Listing(p)!ListsWhatStays'
    BY <1>1, <2>4 DEF Listing!ListInv, Listing!ShowsWhatWas, Listing!ListsWhatStays
  <2> QED BY <1>1, <2>4, <2>5, <2>6, <2>11, <2>12, <2>13, <2>14, <2>15 DEF Listing!ListInv
<1>7. CASE ~(entry.name # v5 /\ head.ver # 0 /\ Listing(p)!Summary(entry, head) = {})
  <2> DEFINE found == IF entry.name = v5 THEN v10 ELSE v10 \union Listing(p)!Summary(entry, head)
  <2>1. Listing(p)!Continue(found, v6 \ {entry})
    BY <1>5, <1>7
  <2>2. \/ found = v10
        \/ \E r \in Nat : /\ found = v10 \union {[name |-> entry.name, rev |-> r]}
                          /\ [name |-> entry.name, rev |-> r] \in v13 /\ entry.name # v5
    BY <1>4 DEF Listing!Summary
  <2>3. entry.name \in v12 /\ entry.name # v5 => entry.name \in Listing(p)!NamesOf(found)
    <3>1. ASSUME entry.name \in v12, entry.name # v5
          PROVE  [name |-> entry.name, rev |-> head.ver] \in found
      BY <3>1, <1>4 DEF Listing!Summary
    <3> HIDE DEF found
    <3> QED BY <3>1 DEF Listing!NamesOf
  <2> HIDE DEF found
  <2> QED BY <1>1, <1>2, <2>1, <2>2, <2>3, ContinueStep
<1> QED BY <1>6, <1>7

\* A fenced graph is read, and its delete completed.
LEMMA ReadEntryStep ==
    ASSUME NEW p \in ListParts, Listing(p)!ListInv, Listing(p)!Read
    PROVE  Listing(p)!ListInv'
<1> DEFINE entry == Listing(p)!FirstEntry
           now == v1[entry.name]
<1>1. v3 = "read" /\ Listing(p)!TypeOK /\ Listing(p)!ObjectsOK /\ Listing(p)!EntriesOK /\ v7' = v7
  BY DEF Listing!Read, Listing!ListInv
<1>2. entry \in v6 /\ \A e \in v6 : entry.name <= e.name
  BY <1>1, FirstEntryFirst DEF Listing!EntriesOK
<1>3. IF now.ver = 0 THEN Listing(p)!Continue(v10, v6 \ {entry}) /\ UNCHANGED Listing(p)!others
      ELSE IF now.ver = entry.ver
      THEN /\ Listing(p)!Continue(v10, v6 \ {entry})
           /\ Listing(p)!Becomes(entry.name, Listing(p)!Absent) /\ UNCHANGED v2
      ELSE /\ v3' = IF v9 = 1 THEN "failed" ELSE "entry"
           /\ UNCHANGED <<v6, v10, v4, v5, v11>> /\ UNCHANGED Listing(p)!others
  BY DEF Listing!Read
<1> HIDE DEF entry
<1>4. entry.name \notin v12 /\ entry.name \in Listing(p)!Graphs
  BY <1>1, <1>2 DEF Listing!ListInv, Listing!TypeOK
<1>5. UNCHANGED Listing(p)!others => Listing(p)!ObjectsOK' /\ v12' = v12 /\ v13' = v13
  BY <1>1 DEF Listing!others, Listing!ObjectsOK
<1>6. Listing(p)!Becomes(entry.name, Listing(p)!Absent) /\ UNCHANGED v2 =>
        Listing(p)!ObjectsOK' /\ v12' \subseteq v12 /\ v13 \subseteq v13'
  <2>1. Listing(p)!Absent \in [ver : Nat, fenced : BOOLEAN] /\ v2 \in Nat
    BY <1>1 DEF Listing!Absent, Listing!ObjectsOK
  <2> QED BY <1>1, <1>4, <2>1, BecomesKeeps
<1>7. CASE Listing(p)!Continue(v10, v6 \ {entry})
  <2>1. Listing(p)!ObjectsOK' /\ v12' \subseteq v12 /\ v13 \subseteq v13'
    <3>1. CASE v3' \in {"failed", "entry"} /\ UNCHANGED Listing(p)!others
      BY <3>1, <1>5
    <3> QED BY <1>3, <1>5, <1>6
  <2> QED BY <1>1, <1>2, <1>4, <1>7, <2>1, ContinueStep
<1>8. CASE v3' \in {"failed", "entry"} /\ UNCHANGED <<v6, v10, v4, v5, v11>> /\ UNCHANGED Listing(p)!others
  <2>1. Listing(p)!TypeOK' /\ Listing(p)!ShowsWhatWas' /\ Listing(p)!ListsWhatStays'
    BY <1>1, <1>5, <1>8 DEF Listing!ListInv, Listing!TypeOK, Listing!ShowsWhatWas, Listing!ListsWhatStays
  <2>2. \A n : /\ Listing(p)!WasListed(n)' <=> Listing(p)!WasListed(n)
               /\ Listing(p)!Past(n)' <=> Listing(p)!Past(n)
               /\ Listing(p)!Behind(n)' <=> Listing(p)!Behind(n)
               /\ Listing(p)!Left(n)' <=> Listing(p)!Left(n)
    BY <1>8 DEF Listing!WasListed, Listing!Past, Listing!Behind, Listing!Left
  <2>3. Listing(p)!PageOK'
    BY <1>1, <1>5, <1>8, <2>2 DEF Listing!ListInv, Listing!PageOK
  <2>4. Listing(p)!EntriesOK'
    BY <1>1, <1>5, <1>8, <2>2 DEF Listing!EntriesOK
  <2> QED BY <1>1, <1>5, <1>8, <2>1, <2>2, <2>3, <2>4 DEF Listing!ListInv
<1> QED BY <1>3, <1>7, <1>8

\* Whatever others do and wherever the provider's pages end, a listing stays right.
LEMMA ListStep ==
    ASSUME NEW p \in ListParts, Listing(p)!ListInv, [Listing(p)!Next]_(Listing(p)!listVars)
    PROVE  Listing(p)!ListInv'
<1>1. Listing(p)!ObjectsOK
  BY DEF Listing!ListInv
<1>2. ASSUME NEW g \in Listing(p)!Graphs, Listing(p)!Change(g) \/ Listing(p)!Delete(g)
      PROVE  Listing(p)!ListInv'
  <2>1. PICK o : Listing(p)!Becomes(g, o) /\ o \in [ver : Nat, fenced : BOOLEAN]
    <3> DEFINE changed == IF v1[g].fenced THEN Listing(p)!Absent ELSE [ver |-> v2 + 2, fenced |-> FALSE]
               deleted == IF Listing(p)!Locked THEN Listing(p)!Absent ELSE [ver |-> v2 + 2, fenced |-> TRUE]
    <3>1. v2 + 2 \in Nat
      BY <1>1 DEF Listing!ObjectsOK
    <3>2. changed \in [ver : Nat, fenced : BOOLEAN] /\ deleted \in [ver : Nat, fenced : BOOLEAN]
      BY <3>1 DEF Listing!Absent
    <3>3. Listing(p)!Becomes(g, changed) \/ Listing(p)!Becomes(g, deleted)
      BY <1>2 DEF Listing!Change, Listing!Delete
    <3> HIDE DEF changed, deleted
    <3> QED BY <3>2, <3>3
  <2>2. v2' \in Nat /\ UNCHANGED <<v3, v4, v5, v6, v7, v10, v11>>
    BY <1>1, <1>2 DEF Listing!Change, Listing!Delete, Listing!ObjectsOK
  <2>3. Listing(p)!ObjectsOK' /\ v12' \subseteq v12 /\ v13 \subseteq v13'
    BY <1>1, <2>1, <2>2, BecomesKeeps
  <2> QED BY <2>2, <2>3, OthersKeep
<1>3. CASE Listing(p)!Fail
  <2>1. v3' = "failed" /\ UNCHANGED <<v1, v2, v4, v5, v6, v7, v10, v11, v12, v13>>
    BY <1>3 DEF Listing!Fail, Listing!others
  <2> QED BY <2>1 DEF Listing!ListInv, Listing!ObjectsOK, Listing!TypeOK, Listing!ShowsWhatWas, Listing!ListsWhatStays
<1>4. CASE UNCHANGED Listing(p)!listVars
  <2>1. UNCHANGED <<v1, v2, v3, v4, v5, v6, v7, v10, v11, v12, v13>>
    BY <1>4 DEF Listing!listVars
  <2>2. Listing(p)!ObjectsOK'
    BY <1>1, <2>1 DEF Listing!ObjectsOK
  <2> QED BY <2>1, <2>2, OthersKeep
<1> QED BY <1>2, <1>3, <1>4, LockedPageStep, BeginPageStep, ListPageStep, EntryStep, ReadEntryStep DEF Listing!Next

\* A step of the suite in a listing is a step of that listing.
LEMMA ListStepOfPart ==
    ASSUME [Next]_suiteVars, NEW p \in ListParts, part = p
    PROVE  [Listing(p)!Next]_(Listing(p)!listVars)
<1>1. CASE UNCHANGED suiteVars
  BY <1>1 DEF suiteVars, Listing!listVars
<1>2. CASE Next
  BY <1>2 DEF Next, StoreParts, ReadParts, ListParts, RequestParts, SelectParts, BackendParts, SparkParts
<1> QED BY <1>1, <1>2

ReadsInv ==
    /\ \A p \in ReadParts : part = p => Read(p)!ReadInv
    /\ \A p \in ListParts : part = p => Listing(p)!ListInv

\* Readers and listings start right.
LEMMA ReadsInitial == Init => ReadsInv
BY InitOfPart, ReadInitial, ListInitial DEF ReadsInv

\* And they stay right.
LEMMA ReadsStep == ReadsInv /\ [Next]_suiteVars => ReadsInv'
<1> SUFFICES ASSUME ReadsInv, [Next]_suiteVars PROVE ReadsInv'
  OBVIOUS
<1>1. part' = part
  BY StepOfPart
<1>2. ASSUME NEW p \in ReadParts, part = p PROVE Read(p)!ReadInv'
  BY <1>2, ReadStepOfPart, ReadStep DEF ReadsInv
<1>3. ASSUME NEW p \in ListParts, part = p PROVE Listing(p)!ListInv'
  BY <1>3, ListStepOfPart, ListStep DEF ReadsInv
<1> QED BY <1>1, <1>2, <1>3 DEF ReadsInv

\* A read of an object that others rewrite and delete returns one version of it
\* and gives up only when it was overtaken in every round; and a client that
\* pages through graphs that come and go sees every graph that stays, none
\* twice, in order, and none that was not there.
THEOREM ReadsAreOfOneVersion == Spec => []ReadsAreWhole
<1>1. ReadsInv => ReadsAreWhole
  BY DEF ReadsInv, ReadsAreWhole, Read!ReadInv, Listing!ListInv
<1> QED BY <1>1, ReadsInitial, ReadsStep, PTL DEF Spec
=============================================================================

