-------------------------- MODULE MetadataPublication --------------------------
(***************************************************************************)
(* The metadata stage of pipeline runs.  A run that has built its models   *)
(* compiles their metadata and publishes it three times: as the pipeline's *)
(* snapshot in the metadata store, as a local semantic registry file, and  *)
(* asset by asset in the cloud catalog (Glue or Dataplex).  It verifies    *)
(* its lease before each publication and before it records success, but    *)
(* the publications themselves carry no fence: a run that loses the lease  *)
(* after a verification still makes that one publication.                  *)
(*                                                                         *)
(* Runs of one pipeline are numbered in the order they acquire the lease;  *)
(* other tools edit the same catalog entries at the same time.             *)
(***************************************************************************)
EXTENDS Naturals, FiniteSets, Sequences

CONSTANTS
    Catalog,       \* "glue" or "dataplex"
    MaxRuns,       \* runs of the pipeline
    Tags,          \* pieces of metadata other tools attach
    Columns,       \* columns[run][asset]: the models of the run's release
    Assets,        \* Assets[run]: its assets in publication order
    Absent,
    MaxLosses,     \* bound: leases that expire under a run
    MaxCrashes,    \* bound: publications that fail or processes that die
    EditsAnytime   \* other tools may edit between a read and the update

Runs == 1..MaxRuns

CatalogAssumption == Catalog \in {"glue", "dataplex"}
AssetsAssumption ==
    /\ DOMAIN Assets = Runs /\ DOMAIN Columns = Runs
    /\ \A r \in Runs : DOMAIN Columns[r] = {Assets[r][i] : i \in DOMAIN Assets[r]}

VARIABLES
    holder,    \* run that holds the pipeline's lease, 0 for none
    pc,        \* stage of each run
    verified,  \* the run has verified its lease for its next publication
    todo,      \* assets the run still has to publish
    seen,      \* what the run read of the entry it is about to update
    snapshot,  \* the metadata store's snapshot
    files,     \* the registry file ("output") and each run's temporary
    database,  \* the Glue database
    entries,   \* the catalog's entries
    late,      \* what each run published after it had lost the lease
    faults

vars == <<holder, pc, verified, todo, seen, snapshot, files, database, entries,
          late, faults>>

AllAssets == UNION {DOMAIN Columns[r] : r \in Runs}

Stages == {"snapshot", "temporary", "replace", "assets", "get_table", "put_table",
           "put_database", "finish"}

Goto(r, stage) == pc' = [pc EXCEPT ![r] = stage]

\* A publication by a run that no longer holds the lease.
Publishes(r, what) ==
    late' = IF holder = r THEN late ELSE [late EXCEPT ![r] = @ \union {what}]

\* What is published: the release of the run, and a file of it partly written.
Manifest(r) == [run |-> r, whole |-> TRUE]
Unfinished(r) == [run |-> r, whole |-> FALSE]

-----------------------------------------------------------------------------
(* The run.                                                                *)

\* A run acquires the lease when nobody holds it and no later run has; its
\* models are built, and their metadata is compiled.
Acquire(r) ==
    /\ pc[r] = "waiting"
    /\ holder = 0
    /\ \A q \in Runs : q < r => pc[q] # "waiting"
    /\ holder' = r
    /\ todo' = [todo EXCEPT ![r] = Assets[r]]
    /\ Goto(r, "snapshot")
    /\ UNCHANGED <<verified, seen, snapshot, files, database, entries, late, faults>>

\* heartbeat.verify(): renews the lease or ends the run.
Verify(r) ==
    /\ pc[r] \in {"snapshot", "temporary", "assets", "finish"}
    /\ ~verified[r]
    /\ IF holder = r
       THEN verified' = [verified EXCEPT ![r] = TRUE] /\ UNCHANGED pc
       ELSE Goto(r, "failed") /\ UNCHANGED verified
    /\ UNCHANGED <<holder, todo, seen, snapshot, files, database, entries, late, faults>>

\* The metadata store replaces the pipeline's snapshot in one statement.
PublishSnapshot(r) ==
    /\ pc[r] = "snapshot" /\ verified[r]
    /\ snapshot' = Manifest(r)
    /\ Publishes(r, "snapshot")
    /\ verified' = [verified EXCEPT ![r] = FALSE]
    /\ Goto(r, "temporary")
    /\ UNCHANGED <<holder, todo, seen, files, database, entries, faults>>

\* The registry is written to a temporary of its own, which a reader could
\* find half written ...
WriteTemporary(r) ==
    /\ pc[r] = "temporary" /\ verified[r]
    /\ \/ /\ files.temporary[r] = Absent
          /\ files' = [files EXCEPT !["temporary"][r] = Unfinished(r)]
          /\ UNCHANGED pc
       \/ /\ files.temporary[r] # Absent
          /\ files' = [files EXCEPT !["temporary"][r] = Manifest(r)]
          /\ Goto(r, "replace")
    /\ UNCHANGED <<holder, verified, todo, seen, snapshot, database, entries, late, faults>>

\* ... which replaces the output.
ReplaceRegistry(r) ==
    /\ pc[r] = "replace"
    /\ files' = [files EXCEPT !["output"] = files["temporary"][r],
                              !["temporary"][r] = Absent]
    /\ Publishes(r, "registry")
    /\ verified' = [verified EXCEPT ![r] = FALSE]
    /\ Goto(r, IF todo[r] = <<>> THEN "finish" ELSE "assets")
    /\ UNCHANGED <<holder, todo, seen, snapshot, database, entries, faults>>

-----------------------------------------------------------------------------
(* The catalog.                                                            *)

\* The asset is published: the next one, or the end of the run.
NextAsset(r) ==
    /\ todo' = [todo EXCEPT ![r] = Tail(@)]
    /\ seen' = [seen EXCEPT ![r] = Absent]
    /\ verified' = [verified EXCEPT ![r] = FALSE]
    /\ Goto(r, IF Len(todo[r]) = 1 THEN "finish" ELSE "assets")

MutModifyDeletesMissing(r) ==
    /\ Catalog = "dataplex"
    /\ pc[r] = "assets" /\ verified[r]
    /\ entries' = [entries EXCEPT ![Head(todo[r])] = [run |-> r, tags |-> {}]]
    /\ Publishes(r, Head(todo[r]))
    /\ NextAsset(r)
    /\ UNCHANGED <<holder, snapshot, files, database, faults>>

\* modify_entry with the generated aspects only: one call, which leaves every
\* other aspect alone.
ModifyEntry(r) ==
    /\ Catalog = "dataplex"
    /\ pc[r] = "assets" /\ verified[r]
    /\ LET a == Head(todo[r])
       IN  /\ entries' = [entries EXCEPT ![a] =
                  IF @ = Absent THEN [run |-> r, tags |-> {}] ELSE [@ EXCEPT !.run = r]]
           /\ Publishes(r, a)
    /\ NextAsset(r)
    /\ UNCHANGED <<holder, snapshot, files, database, faults>>

\* _ensure_database reads the database; one that is Dander's already is left.
GetDatabase(r) ==
    /\ Catalog = "glue"
    /\ pc[r] = "assets" /\ verified[r]
    /\ IF database # Absent /\ database.managed
       THEN Goto(r, "get_table") /\ UNCHANGED seen
       ELSE Goto(r, "put_database") /\ seen' = [seen EXCEPT ![r] = database]
    /\ UNCHANGED <<holder, verified, todo, snapshot, files, database, entries, late, faults>>

\* create_database, which fails when somebody else created it meanwhile, or
\* update_database with the parameters that were read.
PutDatabase(r) ==
    /\ pc[r] = "put_database"
    /\ IF seen[r] = Absent /\ database # Absent
       THEN Goto(r, "failed") /\ UNCHANGED database
       ELSE /\ database' = [managed |-> TRUE,
                            tags |-> IF seen[r] = Absent THEN {} ELSE seen[r].tags]
            /\ Goto(r, "get_table")
    /\ seen' = [seen EXCEPT ![r] = Absent]
    /\ UNCHANGED <<holder, verified, todo, snapshot, files, entries, late, faults>>

MutGetTableStrict(r) ==
    /\ pc[r] = "get_table"
    /\ seen' = [seen EXCEPT ![r] = entries[Head(todo[r])]]
    /\ Goto(r, IF entries[Head(todo[r])] = Absent THEN "failed" ELSE "put_table")
    /\ UNCHANGED <<holder, verified, todo, snapshot, files, database, entries, late, faults>>

\* get_table; a table that is not found is one to create.
GetTable(r) ==
    /\ pc[r] = "get_table"
    /\ seen' = [seen EXCEPT ![r] = entries[Head(todo[r])]]
    /\ Goto(r, "put_table")
    /\ UNCHANGED <<holder, verified, todo, snapshot, files, database, entries, late, faults>>

\* The input of an update: Dander's own fields from the asset, everything
\* else, and the parameters of columns that remain, from what was read.
TableInputFor(r, a, existing) ==
    [run |-> r,
     tags |-> IF existing = Absent THEN {} ELSE existing.tags,
     columns |-> [c \in Columns[r][a] |->
        IF existing # Absent /\ c \in DOMAIN existing.columns THEN existing.columns[c] ELSE {}]]

\* create_table, which fails when the table is there by now, or update_table.
PutTable(r) ==
    /\ pc[r] = "put_table"
    /\ LET a == Head(todo[r])
       IN  IF seen[r] = Absent /\ entries[a] # Absent
           THEN /\ Goto(r, "failed")
                /\ UNCHANGED <<verified, todo, seen, entries, late>>
           ELSE /\ entries' = [entries EXCEPT ![a] = TableInputFor(r, a, seen[r])]
                /\ Publishes(r, a)
                /\ NextAsset(r)
    /\ UNCHANGED <<holder, snapshot, files, database, faults>>

-----------------------------------------------------------------------------

\* The run records its success and gives the lease back.
Finish(r) ==
    /\ pc[r] = "finish" /\ verified[r]
    /\ holder' = IF holder = r THEN 0 ELSE holder
    /\ Goto(r, "succeeded")
    /\ verified' = [verified EXCEPT ![r] = FALSE]
    /\ UNCHANGED <<todo, seen, snapshot, files, database, entries, late, faults>>

\* A call fails or the process dies; a failing registry write removes its
\* temporary.  The lease is given back or left to expire.
Fail(r) ==
    /\ pc[r] \in Stages
    /\ faults.crashes < MaxCrashes
    /\ faults' = [faults EXCEPT !.crashes = @ + 1]
    /\ Goto(r, "failed")
    /\ files' = [files EXCEPT !["temporary"][r] = Absent]
    /\ UNCHANGED <<holder, verified, todo, seen, snapshot, database, entries, late>>

\* The lease of a run that ended is given back.
Release(r) ==
    /\ pc[r] = "failed" /\ holder = r
    /\ holder' = 0
    /\ UNCHANGED <<pc, verified, todo, seen, snapshot, files, database, entries, late, faults>>

\* The lease expires under a run that is still going.
Expire(r) ==
    /\ holder = r /\ pc[r] \in Stages
    /\ faults.losses < MaxLosses
    /\ holder' = 0
    /\ faults' = [faults EXCEPT !.losses = @ + 1]
    /\ UNCHANGED <<pc, verified, todo, seen, snapshot, files, database, entries, late>>

\* Whether a Glue publisher is between its read and its update.
BetweenReadAndUpdate == \E r \in Runs : pc[r] \in {"put_database", "put_table"}

\* Another tool attaches metadata to an entry, to one of its columns, or to
\* the database; it may also have created the database.
Edit(a, t) ==
    /\ EditsAnytime \/ ~BetweenReadAndUpdate
    /\ entries[a] # Absent /\ t \notin entries[a].tags
    /\ \/ entries' = [entries EXCEPT ![a].tags = @ \union {t}]
       \/ /\ Catalog = "glue"
          /\ \E c \in DOMAIN entries[a].columns :
                entries' = [entries EXCEPT ![a].columns[c] = @ \union {t}]
    /\ UNCHANGED <<holder, pc, verified, todo, seen, snapshot, files, database, late, faults>>

EditDatabase(t) ==
    /\ Catalog = "glue"
    /\ EditsAnytime \/ ~BetweenReadAndUpdate
    /\ database' = IF database = Absent THEN [managed |-> FALSE, tags |-> {t}]
                   ELSE [database EXCEPT !.tags = @ \union {t}]
    /\ UNCHANGED <<holder, pc, verified, todo, seen, snapshot, files, entries, late, faults>>

Init ==
    /\ holder = 0
    /\ pc = [r \in Runs |-> "waiting"]
    /\ verified = [r \in Runs |-> FALSE]
    /\ todo = [r \in Runs |-> <<>>]
    /\ seen = [r \in Runs |-> Absent]
    /\ snapshot = Absent
    /\ files = [output |-> Absent, temporary |-> [r \in Runs |-> Absent]]
    /\ database = Absent
    /\ entries = [a \in AllAssets |-> Absent]
    /\ late = [r \in Runs |-> {}]
    /\ faults = [losses |-> 0, crashes |-> 0]

Step(r) ==
    \/ Verify(r) \/ PublishSnapshot(r) \/ WriteTemporary(r) \/ ReplaceRegistry(r)
    \/ ModifyEntry(r) \/ GetDatabase(r) \/ PutDatabase(r) \/ GetTable(r) \/ PutTable(r)
    \/ Finish(r) \/ Release(r)

Next ==
    \/ \E r \in Runs : Acquire(r) \/ Step(r) \/ Fail(r) \/ Expire(r)
    \/ \E t \in Tags : EditDatabase(t) \/ \E a \in AllAssets : Edit(a, t)

Spec == Init /\ [][Next]_vars

-----------------------------------------------------------------------------
(* Properties.                                                             *)

\* Type correctness of the run and catalog state.
TypeOK ==
    /\ holder \in 0..MaxRuns
    /\ pc \in [Runs -> Stages \union {"waiting", "failed", "succeeded"}]
    /\ verified \in [Runs -> BOOLEAN]
    /\ \A r \in Runs : late[r] \subseteq AllAssets \union {"snapshot", "registry"}
    /\ \A a \in AllAssets : entries[a] # Absent => entries[a].run \in Runs
    /\ database # Absent => database.managed \in BOOLEAN /\ database.tags \subseteq Tags
    /\ faults \in [losses : 0..MaxLosses, crashes : 0..MaxCrashes]

\* Readers of the registry file find one run's whole manifest, whichever runs
\* write at once and wherever one of them stops.
RegistryIsWhole == files.output # Absent => files.output.whole

\* The publications carry no fence, but each is preceded by its own
\* verification: a run that lost its lease makes at most one more.
OnePublicationAfterLoss == \A r \in Runs : Cardinality(late[r]) <= 1

\* Who published what a reader finds.
PublishedBy(what) ==
    CASE what = "snapshot" -> snapshot.run
      [] what = "registry" -> files.output.run
      [] OTHER -> entries[what].run

\* When a run passes the verification before it records success, everything
\* it was to publish is its own publication or the one late publication of a
\* run that had the lease before it: no later run has published anything.
SuccessIsCurrent ==
    \A r \in Runs :
        (pc[r] = "finish" /\ ~verified[r] /\ verified'[r]) =>
            \A what \in DOMAIN Columns[r] \union {"snapshot", "registry"} :
                \/ PublishedBy(what) = r
                \/ PublishedBy(what) < r /\ what \in late[PublishedBy(what)]

\* The metadata other tools attached to an entry, to a column that remains and
\* to the database "is preserved".
UnrelatedIsKept ==
    /\ \A a \in AllAssets : entries[a] # Absent =>
         /\ entries[a].tags \subseteq entries'[a].tags
         /\ Catalog = "glue" =>
              \A c \in DOMAIN entries[a].columns \intersect DOMAIN entries'[a].columns :
                 entries[a].columns[c] \subseteq entries'[a].columns[c]
    /\ database # Absent => database.tags \subseteq database'.tags
=============================================================================
