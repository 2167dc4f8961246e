-------------------------- MODULE DestinationWrites ---------------------------
(***************************************************************************)
(* WritePattern.write of the four warehouses: stage the records of one     *)
(* load, publish them in one transaction behind the target's fence, drop   *)
(* the staging.  Executions are numbered in the order of their fencing     *)
(* tokens; run[r] is the run id of execution r, and a retried run has a    *)
(* new token but its old id, and extracts anew.  An execution writes       *)
(* again for its next batch.  A commit may succeed without its answer      *)
(* arriving; a process may die anywhere.                                   *)
(*                                                                         *)
(* A record is a key, a value and a cursor value; a load is the sequence   *)
(* of records of one write, and a record's position in it is its           *)
(* _dander_ordinal.  A table is a set of rows: how many copies of one row  *)
(* a replace keeps is left out.  A row of an scd2 table also has the times *)
(* it is valid from and to (Open while it is current).                     *)
(*                                                                         *)
(* Left out: schema evolution (SchemaEvolution), telemetry, and the local  *)
(* Parquet directory, which no other process sees.                         *)
(***************************************************************************)
EXTENDS Integers, Sequences, TLAPS

CONSTANTS
    Warehouse,      \* "redshift", "snowflake", "postgresql" or "bigquery"
    Modes,          \* the write modes the run looks at
    Loads,          \* the loads a source can produce
    Open,           \* the end of a current scd2 row
    NoKey,          \* the key of a record without a business key
    MaxRun,         \* executions are 1..MaxRun
    MaxWrites,      \* writes per execution
    DirectMaxRows,  \* direct_max_rows, 0: always staged in files
    RowsPerFile     \* max_rows_per_file

WritesAssumption ==
    /\ Warehouse \in {"redshift", "snowflake", "postgresql", "bigquery"}
    /\ MaxRun \in Nat \ {0} /\ MaxWrites \in Nat \ {0}
    /\ DirectMaxRows \in Nat /\ RowsPerFile \in Nat \ {0}
    /\ Open \notin Nat
    /\ \A rows \in Loads : /\ rows \in Seq({rows[i] : i \in DOMAIN rows})
                           /\ \A i \in DOMAIN rows : rows[i].c \in Int

Runs == 1..MaxRun

VARIABLES
    mode,       \* the target's write mode
    run,        \* run[r]: the run id of execution r
    table,      \* the target
    history,    \* <<run id, digest>> of committed loads (dander_stage_loads, load history)
    fence,      \* the execution that holds the target's publication fence, 0: none
    staged,     \* staging objects that exist: <<execution, write, kind>>
    pc,         \* pc[r]: where execution r's write is
    load,       \* load[r]: its records
    pending,    \* pending[r]: artifacts (Snowflake) or changed rows (BigQuery) found
    writes,     \* writes[r]: writes begun
    publisher,  \* the execution that published last, 0: none
    clock,      \* publications so far: the time stamps of scd2
    latest,     \* history: the records that were last applied to the table
    skipped     \* history, skipped[r]: r's publication found content of its load recorded

vars == <<mode, run, table, history, fence, staged, pc, load, pending, writes, publisher, clock, latest, skipped>>

\* What only a publication changes.
published == <<table, history, publisher, clock, latest, skipped>>

\* Files in a bucket, a table with an expiry, or what a session takes with it.
Kinds == {"files", "table", "session"}

Steps == {"idle", "claimed", "begun", "uploaded", "loaded", "checked", "published",
          "failing", "ok", "failed", "dead"}
InProgress == {"claimed", "begun", "uploaded", "loaded", "checked", "published", "failing"}

TypeOK ==
    /\ mode \in Modes /\ run \in [Runs -> Runs] /\ skipped \in [Runs -> BOOLEAN]
    /\ fence \in 0..MaxRun /\ publisher \in 0..MaxRun
    /\ staged \subseteq Runs \X (1..MaxWrites) \X Kinds
    /\ pc \in [Runs -> Steps]
    /\ load \in [Runs -> Loads \union {<< >>}]
    /\ writes \in [Runs -> 0..MaxWrites]
    /\ clock \in 0..(MaxRun * MaxWrites)

Init ==
    /\ mode \in Modes
    /\ run \in {ids \in [Runs -> Runs] : \A r \in Runs : ids[r] <= r /\ ids[ids[r]] = ids[r]}
    /\ table = {} /\ history = {} /\ latest = << >>
    /\ fence = 0 /\ publisher = 0 /\ clock = 0
    /\ skipped = [r \in Runs |-> FALSE]
    /\ staged = {}
    /\ pc = [r \in Runs |-> "idle"]
    /\ load = [r \in Runs |-> << >>]
    /\ pending = [r \in Runs |-> {}]
    /\ writes = [r \in Runs |-> 0]

----------------------------------------------------------------------------
(* The five write modes as the destinations' SQL computes them. *)

Records(batch) == {batch[i] : i \in DOMAIN batch}
KeysOf(rows) == {row.k : row \in rows}

\* Per key the record with the greatest ordinal.
LastOf(batch) ==
    {batch[i] : i \in {i \in DOMAIN batch :
        \A j \in DOMAIN batch : batch[j].k = batch[i].k => j <= i}}

\* Per key the record with the greatest cursor, the last one of equals.
NewestOf(batch) ==
    {batch[i] : i \in {i \in DOMAIN batch :
        \A j \in DOMAIN batch : batch[j].k = batch[i].k =>
            batch[j].c < batch[i].c \/ (batch[j].c = batch[i].c /\ j <= i)}}

\* Mutant: a matched row is kept, as a MERGE with only its insert branch does.
UpsertInsertOnly(target, rows) == target \union {row \in rows : row.k \notin KeysOf(target)}

\* MERGE on the business key.
Upsert(target, rows) == {row \in target : row.k \notin KeysOf(rows)} \union rows

\* The rows whose cursor has not fallen behind the table's row for their key.
NotOlder(target, rows) ==
    {row \in rows : \A old \in target : old.k = row.k => row.c >= old.c}

\* Snapshot: the distinct rows of the load that the table does not hold.
AppendUnseen(target, rows) == target \union {row \in rows : row \notin target}

Current(target, k) == {row \in target : row.k = k /\ row.to = Open}

\* scd2: close the current rows that a row of the load changes.
CloseChanged(target, rows, now) ==
    {IF row.to = Open /\ \E new \in rows : new.k = row.k /\ new.v # row.v
     THEN [row EXCEPT !.to = now] ELSE row : row \in target}

Version(row, now) == [k |-> row.k, v |-> row.v, from |-> now, to |-> Open]

\* scd2: insert the rows of the load whose key has no current row.
InsertNew(target, rows, now) ==
    target \union {Version(row, now) : row \in {row \in rows : Current(target, row.k) = {}}}

\* BigQuery's table `changed`: rows of the load whose key has no current row
\* or another one.
ChangedRows(target, rows) ==
    {row \in rows : \A old \in Current(target, row.k) : old.v # row.v}

\* BigQuery's transaction: close the current rows of `changed`, insert them.
CloseAndInsert(target, changed, now) ==
    {IF row.to = Open /\ row.k \in KeysOf(changed)
     THEN [row EXCEPT !.to = now] ELSE row : row \in target}
    \union {Version(row, now) : row \in changed}

----------------------------------------------------------------------------
(* Staging. *)

\* A replace of BigQuery refuses a fence; everything else requires one.
Fenced == ~(Warehouse = "bigquery" /\ mode = "replace")

\* Direct only when the complete endpoint fits.
Direct(rows) == DirectMaxRows > 0 /\ Len(rows) <= DirectMaxRows

\* The files of a load: at most RowsPerFile records each, with their ordinals.
\* A direct batch is one part, and its checksum is not one of a file.
Artifacts(rows) ==
    LET Part(n) == {<<i, rows[i]>> : i \in {i \in DOMAIN rows : (i - 1) \div RowsPerFile = n}}
    IN  IF Direct(rows) THEN {{<<0, rows>>} \union {<<i, rows[i]>> : i \in DOMAIN rows}}
        ELSE {Part(n) : n \in {(i - 1) \div RowsPerFile : i \in DOMAIN rows}}

\* What a load is recognised by: Redshift knows the load, Snowflake its files.
Digests(r) == IF Warehouse = "redshift" THEN {load[r]} ELSE Artifacts(load[r])

\* Mutant: the history is searched for the content only, under any run id.
CommittedByAnyRun(r, digest) == \E entry \in history : entry[2] = digest

\* The history has the content under the run's id.
Committed(r, digest) == <<run[r], digest>> \in history

Valid(rows) == \A i \in DOMAIN rows : rows[i].k # NoKey

Keyed == mode \in {"scd1", "scd2", "incremental"}

----------------------------------------------------------------------------
(* The publication statements. *)

Now == clock + 1

\* _incremental_prune_sql: staged rows older than the target's are deleted, and
\* the others keep their ordinals.
Prune(rows) == [i \in {i \in DOMAIN rows : rows[i] \in NotOlder(table, {rows[i]})} |-> rows[i]]

\* Redshift's statements.
RedshiftReplace(rows) == Records(rows)
RedshiftSnapshot(rows) == AppendUnseen(table, Records(rows))
RedshiftScd2(rows) == InsertNew(CloseChanged(table, LastOf(rows), Now), LastOf(rows), Now)
RedshiftMerge(rows) ==
    IF mode = "incremental" THEN Upsert(table, NewestOf(Prune(rows)))
    ELSE Upsert(table, LastOf(rows))

\* No statement has an effect for a load that is in the history.
RedshiftPublication(r) ==
    IF Committed(r, load[r]) \/ (mode # "replace" /\ load[r] = << >>) THEN table
    ELSE CASE mode = "replace" -> RedshiftReplace(load[r])
           [] mode = "snapshot" -> RedshiftSnapshot(load[r])
           [] mode = "scd2" -> RedshiftScd2(load[r])
           [] OTHER -> RedshiftMerge(load[r])

\* The records of the artifacts that are loaded, with their ordinals: all for a
\* replace, otherwise the pending ones.
ToLoad(r) ==
    [i \in {i \in DOMAIN load[r] : \/ mode = "replace"
                                   \/ \E part \in pending[r] : <<i, load[r][i]>> \in part}
        |-> load[r][i]]

\* Snowflake's statements.
SnowflakeReplace(rows) == Records(rows)
SnowflakeSnapshot(rows) == AppendUnseen(table, Records(rows))
SnowflakeScd2(rows) == InsertNew(CloseChanged(table, LastOf(rows), Now), LastOf(rows), Now)
SnowflakeMerge(rows) ==
    IF mode = "incremental" THEN Upsert(table, NotOlder(table, NewestOf(rows)))
    ELSE Upsert(table, LastOf(rows))

SnowflakePublication(r) ==
    IF load[r] = << >> THEN IF mode = "replace" THEN {} ELSE table
    ELSE IF pending[r] = {} THEN table
    ELSE CASE mode = "replace" -> SnowflakeReplace(ToLoad(r))
           [] mode = "snapshot" -> SnowflakeSnapshot(ToLoad(r))
           [] mode = "scd2" -> SnowflakeScd2(ToLoad(r))
           [] OTHER -> SnowflakeMerge(ToLoad(r))

\* PostgreSQL's statements.
PostgreSQLReplace(rows) == Records(rows)
PostgreSQLMerge(rows) ==
    IF mode = "incremental" THEN Upsert(table, NotOlder(table, NewestOf(rows)))
    ELSE Upsert(table, LastOf(rows))

PostgreSQLPublication(r) ==
    IF mode # "replace" /\ load[r] = << >> THEN table
    ELSE CASE mode = "replace" -> PostgreSQLReplace(load[r])
           [] mode = "snapshot" -> AppendUnseen(table, Records(load[r]))
           [] mode = "scd2" -> InsertNew(CloseChanged(table, LastOf(load[r]), Now), LastOf(load[r]), Now)
           [] OTHER -> PostgreSQLMerge(load[r])

\* The truncating copy of the staging table.
BigQueryReplace(rows) == Records(rows)
BigQuerySnapshot(rows) == AppendUnseen(table, Records(rows))

\* An incremental write is the scd1 merge: extraction owns the bound.
BigQueryIncremental(rows) == Upsert(table, LastOf(rows))

BigQueryPublication(r) ==
    CASE mode = "replace" -> BigQueryReplace(load[r])
      [] mode = "snapshot" -> BigQuerySnapshot(load[r])
      [] mode = "scd2" -> CloseAndInsert(table, pending[r], Now)
      [] mode = "incremental" -> BigQueryIncremental(load[r])
      [] OTHER -> Upsert(table, LastOf(load[r]))

Publication(r) ==
    CASE Warehouse = "redshift" -> RedshiftPublication(r)
      [] Warehouse = "snowflake" -> SnowflakePublication(r)
      [] Warehouse = "postgresql" -> PostgreSQLPublication(r)
      [] Warehouse = "bigquery" -> BigQueryPublication(r)

\* The records that a publication applies.
Batch(r) == IF Warehouse = "snowflake" THEN ToLoad(r) ELSE load[r]

\* The cases in which the target's history makes a publication a no-op.
Skips(r) ==
    \/ Warehouse = "redshift" /\ Committed(r, load[r])
    \/ Warehouse = "snowflake" /\ load[r] # << >> /\ pending[r] = {}

\* The history rows that the publication's transaction inserts.
HistoryAfter(r) ==
    CASE Warehouse = "redshift" -> history \union {<<run[r], load[r]>>}
      [] Warehouse = "snowflake" -> history \union ({run[r]} \X pending[r])
      [] OTHER -> history

----------------------------------------------------------------------------
\* The names carry a uuid, new for every write.
Named(r, kind) == <<r, writes[r], kind>>

Goto(r, step) == pc' = [pc EXCEPT ![r] = step]

\* supports_batched_writes.
Batched ==
    CASE Warehouse = "snowflake" -> FALSE
      [] Warehouse = "bigquery" -> mode = "scd1"
      [] OTHER -> DirectMaxRows = 0 /\ mode \in {"scd1", "incremental", "snapshot"}

\* The executor claims the target before it extracts: a newer token, or a replay.
Claim(r) ==
    /\ pc[r] = "idle"
    /\ IF Fenced THEN fence <= r /\ fence' = r ELSE UNCHANGED fence
    /\ writes' = [writes EXCEPT ![r] = @ + 1]
    /\ Goto(r, "claimed")
    /\ UNCHANGED <<mode, run, published, staged, load, pending>>

\* _write_batched: the next batch, behind the same claim.
NextBatch(r) ==
    /\ pc[r] = "ok" /\ Batched
    /\ writes[r] < MaxWrites
    /\ writes' = [writes EXCEPT ![r] = @ + 1]
    /\ Goto(r, "claimed")
    /\ UNCHANGED <<mode, run, published, fence, staged, load, pending>>

\* BigQuery: an empty load of an additive mode ends before anything is staged.
NothingToDo(rows) == Warehouse = "bigquery" /\ mode # "replace" /\ rows = << >>

\* write: the records are read and checked; a direct batch is held in memory.
Begin(r) ==
    /\ pc[r] = "claimed"
    /\ \E rows \in Loads :
        /\ load' = [load EXCEPT ![r] = rows]
        /\ CASE Keyed /\ ~Valid(rows) -> Goto(r, "failed")
             [] NothingToDo(rows) -> Goto(r, "ok")
             [] OTHER -> Goto(r, "begun")
    /\ pending' = [pending EXCEPT ![r] = {}]
    /\ UNCHANGED <<mode, run, published, fence, staged, writes>>

\* The artifacts and the manifest go to the bucket.
UploadRedshift(r) ==
    /\ Warehouse = "redshift"
    /\ pc[r] = "begun"
    /\ staged' = IF load[r] = << >> \/ Direct(load[r]) THEN staged
                 ELSE staged \union {Named(r, "files")}
    /\ Goto(r, "uploaded")
    /\ UNCHANGED <<mode, run, published, fence, load, pending, writes>>

\* CREATE TEMP TABLE and COPY or INSERT, then a commit of their own.
LoadRedshift(r) ==
    /\ pc[r] = "uploaded"
    /\ staged' = IF load[r] = << >> THEN staged ELSE staged \union {Named(r, "session")}
    /\ Goto(r, "checked")
    /\ UNCHANGED <<mode, run, published, fence, load, pending, writes>>

\* The temporary stage and table, and which artifacts the history does not know.
CheckSnowflake(r) ==
    /\ Warehouse = "snowflake"
    /\ pc[r] = "begun"
    /\ staged' = IF load[r] = << >> THEN staged ELSE staged \union {Named(r, "session")}
    /\ pending' = [pending EXCEPT ![r] = {d \in Digests(r) : ~Committed(r, d)}]
    /\ Goto(r, "checked")
    /\ UNCHANGED <<mode, run, published, fence, load, writes>>

\* PostgreSQL stages inside the publication's transaction.
BeginPostgreSQL(r) ==
    /\ Warehouse = "postgresql"
    /\ pc[r] = "begun"
    /\ Goto(r, "checked")
    /\ UNCHANGED <<mode, run, published, fence, staged, load, pending, writes>>

\* A staging table with an expiry is created and loaded in chunks.
LoadBigQuery(r) ==
    /\ Warehouse = "bigquery"
    /\ pc[r] = "begun"
    /\ staged' = staged \union {Named(r, "table")}
    /\ Goto(r, "loaded")
    /\ UNCHANGED <<mode, run, published, fence, load, pending, writes>>

\* The Storage Write API: a pending stream on the staging table, appended in
\* batches, finalized and committed as a whole.
AppendStream(r) ==
    /\ Warehouse = "bigquery"
    /\ mode \in {"scd1", "incremental"}
    /\ pc[r] = "begun"
    /\ staged' = staged \union {Named(r, "table")}
    /\ Goto(r, "loaded")
    /\ UNCHANGED <<mode, run, published, fence, load, pending, writes>>

\* CREATE TEMP TABLE changed, before the transaction begins.
Changed(r) == ChangedRows(table, LastOf(load[r]))

CompareBigQuery(r) ==
    /\ pc[r] = "loaded"
    /\ pending' = [pending EXCEPT ![r] = IF mode = "scd2" THEN Changed(r) ELSE {}]
    /\ Goto(r, "checked")
    /\ UNCHANGED <<mode, run, published, fence, staged, load, writes>>

\* Mutant: the transaction does not touch the fence.
OwnsAlways(r) == TRUE

\* touch_sql and commit_sql match the claim.
Owns(r) == Fenced => fence = r

\* The publication commits; the writer may not hear of it.
Publish(r) ==
    /\ pc[r] = "checked"
    /\ Owns(r)
    /\ table' = Publication(r)
    /\ history' = HistoryAfter(r)
    /\ publisher' = r
    /\ clock' = clock + 1
    /\ latest' = IF Skips(r) THEN latest ELSE Batch(r)
    /\ skipped' = [skipped EXCEPT ![r] = \E digest \in Digests(r) : <<run[r], digest>> \in history]
    /\ \E step \in {"published", "failing"} : Goto(r, step)
    /\ UNCHANGED <<mode, run, fence, staged, load, pending, writes>>

\* TargetFenceLostError, and the transaction is rolled back.
FenceLost(r) ==
    /\ pc[r] = "checked"
    /\ ~Owns(r)
    /\ Goto(r, "failing")
    /\ UNCHANGED <<mode, run, published, fence, staged, load, pending, writes>>

\* Any call of the write may fail before the publication commits.
Fail(r) ==
    /\ pc[r] \in {"begun", "uploaded", "loaded", "checked"}
    /\ Goto(r, "failing")
    /\ UNCHANGED <<mode, run, published, fence, staged, load, pending, writes>>

\* A failed cleanup is raised, unless there already is an error.
AfterCleanup(r, clean) == IF pc[r] = "published" /\ clean THEN "ok" ELSE "failed"

\* What the writer drops: the names it made itself.
Owned(r) == {Named(r, kind) : kind \in Kinds}

\* finally: drop the staging, or fail to.
Cleanup(r) ==
    /\ pc[r] \in {"published", "failing"}
    /\ \/ staged' = staged \ Owned(r) /\ Goto(r, AfterCleanup(r, TRUE))
       \/ /\ staged \intersect {Named(r, kind) : kind \in Kinds} # {}
          /\ UNCHANGED staged
          /\ Goto(r, AfterCleanup(r, FALSE))
    /\ UNCHANGED <<mode, run, published, fence, load, pending, writes>>

\* The process dies, and its session's tables with it.
Crash(r) ==
    /\ pc[r] \in InProgress
    /\ Goto(r, "dead")
    /\ staged' = staged \ {Named(r, "session")}
    /\ UNCHANGED <<mode, run, published, fence, load, pending, writes>>

\* A BigQuery staging table expires.
Expire(r) ==
    /\ pc[r] \in {"ok", "failed", "dead"}
    /\ \E n \in 1..writes[r] :
        /\ <<r, n, "table">> \in staged
        /\ staged' = staged \ {<<r, n, "table">>}
    /\ UNCHANGED <<mode, run, published, fence, pc, load, pending, writes>>

Stop == (\A r \in Runs : pc[r] \in {"ok", "failed", "dead", "idle"}) /\ UNCHANGED vars

Next ==
    \/ \E r \in Runs :
        \/ Claim(r) \/ NextBatch(r) \/ Begin(r)
        \/ UploadRedshift(r) \/ LoadRedshift(r)
        \/ CheckSnowflake(r) \/ BeginPostgreSQL(r)
        \/ LoadBigQuery(r) \/ AppendStream(r) \/ CompareBigQuery(r)
        \/ Publish(r) \/ FenceLost(r) \/ Fail(r)
        \/ Cleanup(r) \/ Crash(r) \/ Expire(r)
    \/ Stop

Spec == Init /\ [][Next]_vars
----------------------------------------------------------------------------
(* Properties. *)

\* The table holds what a load asks for.
Absorbed(rows) ==
    CASE mode = "replace" -> table = Records(rows)
      [] mode = "snapshot" -> Records(rows) \subseteq table
      [] mode = "scd2" -> \A last \in LastOf(rows) :
                             {row.v : row \in Current(table, last.k)} = {last.v}
      [] mode = "incremental" /\ Warehouse # "bigquery" ->
            \A new \in NewestOf(rows) :
                \E row \in table : /\ row.k = new.k
                                   /\ row = new \/ row.c > new.c
      [] OTHER -> \A last \in LastOf(rows) : {row \in table : row.k = last.k} = {last}

\* A write that returned has taken effect, through every batch, retry, lost
\* answer and superseding execution: until another one publishes, the table
\* holds what its mode makes of the load (WritePattern.write: "Write records
\* to target idempotently").  The replay guard may leave out content that the
\* same run id has recorded before; then the table is claimed to hold the load
\* only if it is the one applied last, as when an answer was lost.
TakesEffect ==
    \A r \in Runs : pc[r] = "ok" /\ publisher = r /\ (skipped[r] => latest = load[r]) => Absorbed(load[r])

\* scd2: a key has at most one current row, its versions follow one another
\* without overlap, and no version repeats the one before it, so that a
\* replay added none.
OneHistory ==
    mode = "scd2" =>
        \A a, b \in table : a.k = b.k /\ a # b =>
            /\ a.from # b.from
            /\ a.from < b.from => a.to # Open /\ a.to <= b.from
            /\ a.to = b.from => a.v # b.v

\* An scd2 version and a snapshot row stay for ever, and an incremental row
\* never falls back to an older cursor (docs/redshift.md: "incremental writes
\* additionally reject cursor regression").
NothingLost ==
    \A old \in table :
        CASE mode = "scd2" -> \E new \in table' : new.k = old.k /\ new.v = old.v /\ new.from = old.from
          [] mode = "snapshot" -> old \in table'
          [] mode = "incremental" /\ Warehouse # "bigquery" ->
                \E new \in table' : new.k = old.k /\ new.c >= old.c
          [] OTHER -> TRUE


\* Once a newer run has published, no older run changes the target again.
NoOlderPublication == Fenced => publisher' >= publisher

\* A write that returned has left none of its own staging behind.
NoLitter == \A r \in Runs : pc[r] = "ok" => Owned(r) \intersect staged = {}

-----------------------------------------------------------------------------
(***************************************************************************)
(* Proofs: the data.  What the statements of the write modes make of a     *)
(* table, for every table and every batch.                                 *)
(***************************************************************************)

\* The records of a load, or the ones of them that are staged, by ordinal.
IsBatch(batch) ==
    /\ batch = [i \in DOMAIN batch |-> batch[i]] /\ DOMAIN batch \subseteq Nat
    /\ \A i \in DOMAIN batch : batch[i].c \in Int

\* No two rows have the same key.
OnePerKey(rows) == \A a, b \in rows : a.k = b.k => a = b

\* The last records of a batch, and its newest ones, are one per key.
LEMMA LastOnePerKey ==
    ASSUME NEW batch, IsBatch(batch)
    PROVE  OnePerKey(LastOf(batch))
<1> SUFFICES ASSUME NEW a \in LastOf(batch), NEW b \in LastOf(batch), a.k = b.k PROVE a = b
  BY DEF OnePerKey
<1>1. PICK i \in DOMAIN batch : a = batch[i] /\ \A j \in DOMAIN batch : batch[j].k = batch[i].k => j <= i
  BY DEF LastOf
<1>2. PICK j \in DOMAIN batch : b = batch[j] /\ \A n \in DOMAIN batch : batch[n].k = batch[j].k => n <= j
  BY DEF LastOf
<1>3. i <= j /\ j <= i /\ i \in Nat /\ j \in Nat
  BY <1>1, <1>2 DEF IsBatch
<1> QED BY <1>1, <1>2, <1>3

\* The same for the newest records.
LEMMA NewestOnePerKey ==
    ASSUME NEW batch, IsBatch(batch)
    PROVE  OnePerKey(NewestOf(batch))
<1> SUFFICES ASSUME NEW a \in NewestOf(batch), NEW b \in NewestOf(batch), a.k = b.k PROVE a = b
  BY DEF OnePerKey
<1>1. PICK i \in DOMAIN batch :
        /\ a = batch[i]
        /\ \A j \in DOMAIN batch : batch[j].k = batch[i].k =>
              batch[j].c < batch[i].c \/ (batch[j].c = batch[i].c /\ j <= i)
  BY DEF NewestOf
<1>2. PICK j \in DOMAIN batch :
        /\ b = batch[j]
        /\ \A n \in DOMAIN batch : batch[n].k = batch[j].k =>
              batch[n].c < batch[j].c \/ (batch[n].c = batch[j].c /\ n <= j)
  BY DEF NewestOf
<1>3. i \in Nat /\ j \in Nat /\ batch[i].c \in Int /\ batch[j].c \in Int
  BY DEF IsBatch
<1>4. i <= j /\ j <= i
  BY <1>1, <1>2, <1>3
<1> QED BY <1>1, <1>2, <1>3, <1>4

\* MERGE: the table holds the row of each key of the batch, and no other.
LEMMA UpsertHolds ==
    ASSUME NEW target, NEW rows, OnePerKey(rows), NEW x \in rows
    PROVE  {row \in Upsert(target, rows) : row.k = x.k} = {x}
BY DEF Upsert, KeysOf, OnePerKey

\* An incremental MERGE: the table holds the newest record of each key, or one
\* with a greater cursor.
LEMMA IncrementalHolds ==
    ASSUME NEW target, \A row \in target : row.c \in Int, NEW batch, IsBatch(batch), NEW new \in NewestOf(batch)
    PROVE  \E row \in Upsert(target, NotOlder(target, NewestOf(batch))) :
              row.k = new.k /\ (row = new \/ row.c > new.c)
<1>1. new.c \in Int /\ OnePerKey(NewestOf(batch))
  BY NewestOnePerKey DEF IsBatch, NewestOf
<1>2. CASE new \in NotOlder(target, NewestOf(batch))
  BY <1>2 DEF Upsert
<1>3. CASE new \notin NotOlder(target, NewestOf(batch))
  <2>1. PICK old \in target : old.k = new.k /\ ~(new.c >= old.c)
    BY <1>3 DEF NotOlder
  <2>2. old.k \notin KeysOf(NotOlder(target, NewestOf(batch)))
    BY <1>1, <1>3, <2>1 DEF KeysOf, NotOlder, OnePerKey
  <2>3. old \in Upsert(target, NotOlder(target, NewestOf(batch)))
    BY <2>2 DEF Upsert
  <2> QED BY <1>1, <2>1, <2>3
<1> QED BY <1>2, <1>3

\* And no key falls back to an older cursor.
LEMMA IncrementalKeeps ==
    ASSUME NEW target, \A row \in target : row.c \in Int, NEW rows,
           \A row \in rows : \A old \in target : old.k = row.k => row.c >= old.c, NEW old \in target
    PROVE  \E row \in Upsert(target, rows) : row.k = old.k /\ row.c >= old.c
<1>1. CASE old.k \in KeysOf(rows)
  BY <1>1 DEF KeysOf, Upsert
<1>2. CASE old.k \notin KeysOf(rows)
  <2>1. old \in Upsert(target, rows) /\ old.c >= old.c
    BY <1>2 DEF Upsert
  <2> QED BY <2>1
<1> QED BY <1>1, <1>2

-----------------------------------------------------------------------------
(* The versions of an scd2 table. *)

IsVersion(row, now) ==
    /\ row = [k |-> row.k, v |-> row.v, from |-> row.from, to |-> row.to]
    /\ row.from \in Nat /\ row.from <= now
    /\ row.to # Open => row.to \in Nat /\ row.to <= now

\* OneHistory of a table.
Follow(target) ==
    \A a, b \in target : a.k = b.k /\ a # b =>
        /\ a.from # b.from
        /\ a.from < b.from => a.to # Open /\ a.to <= b.from
        /\ a.to = b.from => a.v # b.v

VersionsOK(target, now) == (\A row \in target : IsVersion(row, now)) /\ Follow(target)

\* A current row that the batch changes.
Superseded(row, rows) == row.to = Open /\ \E new \in rows : new.k = row.k /\ new.v # row.v

\* What closing does to a row of the table.
LEMMA ClosedRows ==
    ASSUME NEW target, NEW rows, NEW now \in Nat, \A row \in target : IsVersion(row, now - 1), now > 0
    PROVE  /\ \A u \in CloseChanged(target, rows, now) : \E row \in target :
                 /\ u.k = row.k /\ u.v = row.v /\ u.from = row.from
                 /\ IF Superseded(row, rows) THEN u.to = now ELSE u = row
                 /\ IsVersion(u, now)
           /\ \A row \in target : \E u \in CloseChanged(target, rows, now) :
                 /\ u.k = row.k /\ u.v = row.v /\ u.from = row.from
                 /\ IF Superseded(row, rows) THEN u.to = now ELSE u = row
<1>1. ASSUME NEW row \in target, NEW u, u = (IF Superseded(row, rows) THEN [row EXCEPT !.to = now] ELSE row)
      PROVE  /\ u.k = row.k /\ u.v = row.v /\ u.from = row.from
             /\ IF Superseded(row, rows) THEN u.to = now ELSE u = row
             /\ IsVersion(u, now)
  <2>1. IsVersion(row, now - 1)
    OBVIOUS
  <2>2. CASE Superseded(row, rows)
    <3>1. u = [k |-> row.k, v |-> row.v, from |-> row.from, to |-> now]
      BY <1>1, <2>1, <2>2 DEF IsVersion
    <3>2. u.k = row.k /\ u.v = row.v /\ u.from = row.from /\ u.to = now
      BY <3>1
    <3> QED BY <2>1, <2>2, <3>1, <3>2 DEF IsVersion
  <2>3. CASE ~Superseded(row, rows)
    BY <1>1, <2>1, <2>3 DEF IsVersion
  <2> QED BY <2>2, <2>3
<1>2. CloseChanged(target, rows, now) =
        {IF Superseded(row, rows) THEN [row EXCEPT !.to = now] ELSE row : row \in target}
  BY DEF CloseChanged, Superseded
<1> QED BY <1>1, <1>2

\* scd2's two statements: close, then insert.
Scd2(target, rows, now) == InsertNew(CloseChanged(target, rows, now), rows, now)

\* A row of the table after them is one that was there, closed if the batch
\* changes it, or a new version of a key that has no current row.
LEMMA Scd2Rows ==
    ASSUME NEW target, NEW rows, NEW now \in Nat, now > 0, \A row \in target : IsVersion(row, now - 1),
           NEW u \in Scd2(target, rows, now)
    PROVE  \/ /\ u \in CloseChanged(target, rows, now)
              /\ IsVersion(u, now)
              /\ \E row \in target : /\ u.k = row.k /\ u.v = row.v /\ u.from = row.from
                                     /\ IF Superseded(row, rows) THEN u.to = now ELSE u = row
           \/ \E new \in rows : /\ Current(CloseChanged(target, rows, now), new.k) = {}
                                /\ u = Version(new, now)
                                /\ u.k = new.k /\ u.v = new.v /\ u.from = now /\ u.to = Open
                                /\ IsVersion(u, now)
<1>1. CASE u \in CloseChanged(target, rows, now)
  BY <1>1, ClosedRows
<1>2. ASSUME NEW new \in rows, u = Version(new, now)
      PROVE  u.k = new.k /\ u.v = new.v /\ u.from = now /\ u.to = Open /\ IsVersion(u, now)
  BY <1>2 DEF Version, IsVersion
<1> QED BY <1>1, <1>2 DEF Scd2, InsertNew

\* scd2 keeps one history of every key.
LEMMA Scd2Follow ==
    ASSUME NEW target, NEW rows, NEW now \in Nat, now > 0, OnePerKey(rows), VersionsOK(target, now - 1),
           Open \notin Nat
    PROVE  VersionsOK(Scd2(target, rows, now), now)
<1> DEFINE C == CloseChanged(target, rows, now)
           S == Scd2(target, rows, now)
           IsOld(u, row) == /\ u.k = row.k /\ u.v = row.v /\ u.from = row.from
                            /\ IF Superseded(row, rows) THEN u.to = now ELSE u = row
           IsNew(u, new) == u = Version(new, now) /\ u.k = new.k /\ u.v = new.v /\ u.from = now /\ u.to = Open
<1>v. \A row \in target : IsVersion(row, now - 1)
  BY DEF VersionsOK
<1>1. ASSUME NEW u \in S
      PROVE  /\ IsVersion(u, now)
             /\ \/ u \in C /\ \E row \in target : IsOld(u, row)
                \/ \E new \in rows : IsNew(u, new) /\ Current(C, new.k) = {}
  BY <1>v, Scd2Rows
<1> HIDE DEF C, S
<1>2. ASSUME NEW a \in S, NEW b \in S, a.k = b.k, a # b
      PROVE  /\ a.from # b.from
             /\ a.from < b.from => a.to # Open /\ a.to <= b.from
             /\ a.to = b.from => a.v # b.v
  <2>1. CASE (\E x \in target : IsOld(a, x)) /\ (\E y \in target : IsOld(b, y))
    <3>1. PICK x \in target : IsOld(a, x)
      BY <2>1
    <3>2. PICK y \in target : IsOld(b, y)
      BY <2>1
    <3>a. /\ a = [k |-> a.k, v |-> a.v, from |-> a.from, to |-> a.to]
          /\ b = [k |-> b.k, v |-> b.v, from |-> b.from, to |-> b.to]
      BY <1>1 DEF IsVersion
    <3>b. a.to = b.to /\ a.from = b.from /\ a.v = b.v => a = b
      BY <3>a, <1>2
    <3>3. x # y
      BY <1>2, <3>1, <3>2, <3>b
    <3>4. /\ x.from # y.from
          /\ x.from < y.from => x.to # Open /\ x.to <= y.from
          /\ x.to = y.from => x.v # y.v
      BY <1>2, <3>1, <3>2, <3>3 DEF VersionsOK, Follow
    <3>5. y.from \in Nat /\ y.from <= now - 1 /\ x.from \in Nat /\ x.from <= now - 1
      BY <1>v DEF IsVersion
    <3>6. CASE Superseded(x, rows)
      BY <3>1, <3>2, <3>4, <3>5, <3>6 DEF Superseded
    <3>7. CASE ~Superseded(x, rows)
      BY <3>1, <3>2, <3>4, <3>7
    <3> QED BY <3>6, <3>7
  <2>2. CASE a \in C /\ (\E x \in target : IsOld(a, x)) /\ \E new \in rows : IsNew(b, new) /\ Current(C, new.k) = {}
    <3>1. PICK x \in target : IsOld(a, x)
      BY <2>2
    <3>2. PICK new \in rows : IsNew(b, new) /\ Current(C, new.k) = {}
      BY <2>2
    <3>3. x.from \in Nat /\ x.from <= now - 1 /\ (x.to # Open => x.to \in Nat /\ x.to <= now - 1)
      BY <1>v DEF IsVersion
    <3>4. a.to # Open
      BY <1>2, <2>2, <3>2 DEF Current
    <3>5. a.to <= now
      BY <3>1, <3>3, <3>4
    <3>6. a.to = now => a.v # b.v
      <4> SUFFICES ASSUME a.to = now PROVE a.v # b.v
        OBVIOUS
      <4>1. Superseded(x, rows)
        BY <3>1, <3>3, <3>4
      <4>2. PICK n \in rows : n.k = x.k /\ n.v # x.v
        BY <4>1 DEF Superseded
      <4>3. n = new
        BY <1>2, <3>1, <3>2, <4>2 DEF OnePerKey
      <4> QED BY <3>1, <3>2, <4>2, <4>3
    <3> QED BY <3>1, <3>2, <3>3, <3>4, <3>5, <3>6
  <2>3. CASE (\E new \in rows : IsNew(a, new)) /\ \E x \in target : IsOld(b, x)
    <3>1. PICK x \in target : IsOld(b, x)
      BY <2>3
    <3>2. PICK new \in rows : IsNew(a, new)
      BY <2>3
    <3>3. x.from \in Nat /\ x.from <= now - 1
      BY <1>v DEF IsVersion
    <3> QED BY <3>1, <3>2, <3>3
  <2>4. CASE (\E new \in rows : IsNew(a, new)) /\ \E new \in rows : IsNew(b, new)
    BY <1>2, <2>4 DEF OnePerKey
  <2> QED BY <1>1, <2>1, <2>2, <2>3, <2>4
<1> QED BY <1>1, <1>2 DEF VersionsOK, Follow, S

\* After scd2 the current row of each key of the batch has the batch's value.
LEMMA Scd2Holds ==
    ASSUME NEW target, NEW rows, NEW now \in Nat, now > 0, OnePerKey(rows), VersionsOK(target, now - 1),
           Open \notin Nat, NEW last \in rows
    PROVE  {row.v : row \in Current(Scd2(target, rows, now), last.k)} = {last.v}
<1> DEFINE C == CloseChanged(target, rows, now)
           S == Scd2(target, rows, now)
<1>v. \A row \in target : IsVersion(row, now - 1)
  BY DEF VersionsOK
<1>1. ASSUME NEW u \in Current(S, last.k) PROVE u.v = last.v
  <2>0. u \in S /\ u.k = last.k /\ u.to = Open
    BY DEF Current
  <2>1. CASE \E row \in target : /\ u.k = row.k /\ u.v = row.v /\ u.from = row.from
                                 /\ IF Superseded(row, rows) THEN u.to = now ELSE u = row
    BY <2>0, <2>1 DEF Superseded
  <2>2. CASE \E new \in rows : u.k = new.k /\ u.v = new.v
    BY <2>0, <2>2 DEF OnePerKey
  <2> QED BY <1>v, <2>0, <2>1, <2>2, Scd2Rows
<1>2. Current(S, last.k) # {}
  <2>1. CASE Current(C, last.k) = {}
    <3>1. Version(last, now) \in S
      BY <2>1 DEF Scd2, InsertNew
    <3>2. Version(last, now).k = last.k /\ Version(last, now).to = Open
      BY DEF Version
    <3> QED BY <3>1, <3>2 DEF Current
  <2>2. CASE Current(C, last.k) # {}
    BY <2>2 DEF Scd2, InsertNew, Current
  <2> QED BY <2>1, <2>2
<1> QED BY <1>1, <1>2

\* scd2 keeps every version.
LEMMA Scd2Keeps ==
    ASSUME NEW target, NEW rows, NEW now \in Nat, now > 0, VersionsOK(target, now - 1), NEW old \in target
    PROVE  \E new \in Scd2(target, rows, now) : new.k = old.k /\ new.v = old.v /\ new.from = old.from
<1>1. \E u \in CloseChanged(target, rows, now) : u.k = old.k /\ u.v = old.v /\ u.from = old.from
  BY ClosedRows DEF VersionsOK
<1> QED BY <1>1 DEF Scd2, InsertNew

\* BigQuery's scd2, which compares before its transaction, has the same effect
\* if the table has not changed in between.
LEMMA BigQueryScd2 ==
    ASSUME NEW target, NEW rows, NEW now \in Nat, now > 0, OnePerKey(rows), VersionsOK(target, now - 1),
           Open \notin Nat
    PROVE  CloseAndInsert(target, ChangedRows(target, rows), now) = Scd2(target, rows, now)
<1> DEFINE C == CloseChanged(target, rows, now)
           changed == ChangedRows(target, rows)
<1>v. \A row \in target : IsVersion(row, now - 1)
  BY DEF VersionsOK
<1>u. ASSUME NEW a \in target, NEW b \in target, a.k = b.k, a.to = Open, b.to = Open PROVE a = b
  BY <1>u, <1>v DEF VersionsOK, Follow, IsVersion
<1>1. ASSUME NEW row \in target, row.to = Open
      PROVE  (row.k \in KeysOf(changed)) <=> \E new \in rows : new.k = row.k /\ new.v # row.v
  <2>1. ASSUME row.k \in KeysOf(changed) PROVE \E new \in rows : new.k = row.k /\ new.v # row.v
    BY <1>1, <2>1 DEF KeysOf, ChangedRows, Current
  <2>2. ASSUME NEW new \in rows, new.k = row.k, new.v # row.v PROVE row.k \in KeysOf(changed)
    <3>1. \A old \in Current(target, new.k) : old.v # new.v
      BY <1>1, <1>u, <2>2 DEF Current
    <3> QED BY <2>2, <3>1 DEF KeysOf, ChangedRows
  <2> QED BY <2>1, <2>2
<1>2. C = {IF row.to = Open /\ row.k \in KeysOf(changed)
           THEN [row EXCEPT !.to = now] ELSE row : row \in target}
  <2>1. \A row \in target : (row.to = Open /\ row.k \in KeysOf(changed))
                               <=> (row.to = Open /\ \E new \in rows : new.k = row.k /\ new.v # row.v)
    BY <1>1
  <2> HIDE DEF changed
  <2> QED BY <2>1 DEF CloseChanged
<1>3. changed = {row \in rows : Current(C, row.k) = {}}
  <2>1. ASSUME NEW new \in rows, new \in changed, NEW u \in Current(C, new.k) PROVE FALSE
    <3>1. u \in C /\ u.k = new.k /\ u.to = Open
      BY DEF Current
    <3>2. PICK x \in target : /\ u.k = x.k /\ u.v = x.v
                              /\ IF Superseded(x, rows) THEN u.to = now ELSE u = x
      BY <1>v, <3>1, ClosedRows
    <3>3. u = x /\ x \in Current(target, new.k)
      BY <3>1, <3>2 DEF Current
    <3>4. x.v # new.v
      BY <2>1, <3>3 DEF ChangedRows
    <3> QED BY <3>1, <3>2, <3>3, <3>4 DEF Superseded
  <2>2. ASSUME NEW new \in rows, Current(C, new.k) = {}, NEW old \in Current(target, new.k) PROVE old.v # new.v
    <3>1. old \in target /\ old.k = new.k /\ old.to = Open
      BY DEF Current
    <3>2. Superseded(old, rows)
      BY <1>v, <2>2, <3>1, ClosedRows DEF Current
    <3> QED BY <3>1, <3>2 DEF Superseded, OnePerKey
  <2> QED BY <2>1, <2>2 DEF ChangedRows
<1> HIDE DEF C, changed
<1>4. CloseAndInsert(target, changed, now) = C \union {Version(row, now) : row \in changed}
  BY <1>2 DEF CloseAndInsert
<1> QED BY <1>3, <1>4 DEF Scd2, InsertNew, C, changed

-----------------------------------------------------------------------------
(* What one publication makes of a table, whatever the warehouse. *)

Applied(md, target, batch, now) ==
    CASE md = "replace" -> Records(batch)
      [] md = "snapshot" -> AppendUnseen(target, Records(batch))
      [] md = "scd2" -> Scd2(target, LastOf(batch), now)
      [] md = "incremental" /\ Warehouse # "bigquery" -> Upsert(target, NotOlder(target, NewestOf(batch)))
      [] OTHER -> Upsert(target, LastOf(batch))

\* Absorbed, of any table.
Holds(md, target, rows) ==
    CASE md = "replace" -> target = Records(rows)
      [] md = "snapshot" -> Records(rows) \subseteq target
      [] md = "scd2" -> \A last \in LastOf(rows) :
                             {row.v : row \in Current(target, last.k)} = {last.v}
      [] md = "incremental" /\ Warehouse # "bigquery" ->
            \A new \in NewestOf(rows) :
                \E row \in target : /\ row.k = new.k
                                    /\ row = new \/ row.c > new.c
      [] OTHER -> \A last \in LastOf(rows) : {row \in target : row.k = last.k} = {last}

\* NothingLost, of any two tables.
Keeps(md, target, after) ==
    \A old \in target :
        CASE md = "scd2" -> \E new \in after : new.k = old.k /\ new.v = old.v /\ new.from = old.from
          [] md = "snapshot" -> old \in after
          [] md = "incremental" /\ Warehouse # "bigquery" -> \E new \in after : new.k = old.k /\ new.c >= old.c
          [] OTHER -> TRUE

\* The tables of a mode.
TableOK(md, target, now) ==
    /\ md = "scd2" => VersionsOK(target, now)
    /\ md = "incremental" /\ Warehouse # "bigquery" => \A row \in target : row.c \in Int

\* A publication yields a table of its mode that holds the batch and has lost
\* nothing.
LEMMA AppliedHolds ==
    ASSUME NEW md, NEW target, NEW batch, IsBatch(batch), NEW now \in Nat, now > 0, TableOK(md, target, now - 1),
           Open \notin Nat
    PROVE  /\ TableOK(md, Applied(md, target, batch, now), now)
           /\ Holds(md, Applied(md, target, batch, now), batch)
           /\ Keeps(md, target, Applied(md, target, batch, now))
<1>1. OnePerKey(LastOf(batch))
  BY LastOnePerKey
<1>2. CASE md = "scd2"
  BY <1>1, <1>2, Scd2Follow, Scd2Holds, Scd2Keeps DEF TableOK, Applied, Holds, Keeps
<1>3. CASE md = "snapshot"
  BY <1>3 DEF TableOK, Applied, Holds, Keeps, AppendUnseen
<1>4. CASE md = "replace"
  BY <1>4 DEF TableOK, Applied, Holds, Keeps
<1>5. CASE md = "incremental" /\ Warehouse # "bigquery"
  <2> DEFINE rows == NotOlder(target, NewestOf(batch))
  <2>1. \A row \in target : row.c \in Int
    BY <1>5 DEF TableOK
  <2>2. Applied(md, target, batch, now) = Upsert(target, rows)
    BY <1>5 DEF Applied
  <2>3. \A row \in rows : row.c \in Int /\ \A old \in target : old.k = row.k => row.c >= old.c
    BY DEF NotOlder, NewestOf, IsBatch
  <2>4. \A row \in Upsert(target, rows) : row.c \in Int
    BY <2>1, <2>3 DEF Upsert
  <2>5. \A old \in target : \E row \in Upsert(target, rows) : row.k = old.k /\ row.c >= old.c
    BY <2>1, <2>3, IncrementalKeeps
  <2>6. \A new \in NewestOf(batch) : \E row \in Upsert(target, rows) : row.k = new.k /\ (row = new \/ row.c > new.c)
    BY <2>1, IncrementalHolds
  <2> HIDE DEF rows
  <2> QED BY <1>5, <2>2, <2>4, <2>5, <2>6 DEF TableOK, Holds, Keeps
<1>6. CASE md \notin {"scd2", "snapshot", "replace"} /\ ~(md = "incremental" /\ Warehouse # "bigquery")
  BY <1>1, <1>6, UpsertHolds DEF TableOK, Applied, Holds, Keeps
<1> QED BY <1>2, <1>3, <1>4, <1>5, <1>6

\* An empty batch changes nothing, except that a replace empties the table.
LEMMA AppliedEmpty ==
    ASSUME NEW md, NEW target, NEW batch, DOMAIN batch = {}, NEW now
    PROVE  Applied(md, target, batch, now) = IF md = "replace" THEN {} ELSE target
<1>1. Records(batch) = {} /\ LastOf(batch) = {} /\ NewestOf(batch) = {}
  BY DEF Records, LastOf, NewestOf
<1>2. Upsert(target, {}) = target /\ AppendUnseen(target, {}) = target /\ NotOlder(target, {}) = {}
  BY DEF Upsert, AppendUnseen, NotOlder, KeysOf
<1>3. Scd2(target, {}, now) = target
  BY DEF Scd2, InsertNew, CloseChanged
<1> QED BY <1>1, <1>2, <1>3 DEF Applied

\* Every table holds an empty load, except after a replace.
LEMMA HoldsEmpty ==
    ASSUME NEW md, NEW target, md # "replace"
    PROVE  Holds(md, target, << >>)
<1>1. Records(<< >>) = {} /\ LastOf(<< >>) = {} /\ NewestOf(<< >>) = {}
  BY DEF Records, LastOf, NewestOf
<1> QED BY <1>1 DEF Holds

\* A table that has lost nothing to itself.
LEMMA KeepsItself ==
    ASSUME NEW md, NEW target, NEW now \in Nat, now > 0, TableOK(md, target, now - 1)
    PROVE  Keeps(md, target, target) /\ TableOK(md, target, now)
<1>1. md = "incremental" /\ Warehouse # "bigquery" => \A row \in target : row.c >= row.c
  BY DEF TableOK
<1>2. md = "scd2" => VersionsOK(target, now)
  BY DEF TableOK, VersionsOK, IsVersion
<1>3. ASSUME NEW old \in target
      PROVE  CASE md = "scd2" -> \E new \in target : new.k = old.k /\ new.v = old.v /\ new.from = old.from
               [] md = "snapshot" -> old \in target
               [] md = "incremental" /\ Warehouse # "bigquery" -> \E new \in target : new.k = old.k /\ new.c >= old.c
               [] OTHER -> TRUE
  BY <1>1
<1> QED BY <1>2, <1>3 DEF TableOK, Keeps

\* Redshift's incremental write deletes the older records and takes the newest
\* of the rest, Snowflake's and PostgreSQL's take the newest and drop it when it
\* is older: the same rows.
LEMMA PruneThenNewest ==
    ASSUME NEW batch, IsBatch(batch), \A row \in table : row.c \in Int
    PROVE  NewestOf(Prune(batch)) = NotOlder(table, NewestOf(batch))
<1> DEFINE Fresh(row) == \A old \in table : old.k = row.k => row.c >= old.c
           P == Prune(batch)
           Newer(i, j) == batch[j].c < batch[i].c \/ (batch[j].c = batch[i].c /\ j <= i)
           First(i) == \A j \in DOMAIN batch : batch[j].k = batch[i].k => Newer(i, j)
<1>1. /\ DOMAIN P = {i \in DOMAIN batch : Fresh(batch[i])}
      /\ \A i \in DOMAIN P : P[i] = batch[i]
  BY DEF Prune, NotOlder
<1>2. \A i \in DOMAIN batch : i \in Nat /\ batch[i].c \in Int
  BY DEF IsBatch
<1> HIDE DEF P
<1>3. ASSUME NEW i \in DOMAIN batch, Fresh(batch[i])
      PROVE  First(i) <=> \A j \in DOMAIN P : P[j].k = P[i].k => P[j].c < P[i].c \/ (P[j].c = P[i].c /\ j <= i)
  <2>1. ASSUME NEW j \in DOMAIN batch, batch[j].k = batch[i].k, ~Newer(i, j) PROVE Fresh(batch[j])
    <3>1. batch[j].c >= batch[i].c
      BY <1>2, <2>1
    <3> QED BY <1>2, <1>3, <2>1, <3>1
  <2>2. i \in DOMAIN P /\ P[i] = batch[i]
    BY <1>1, <1>3
  <2>3. (\A j \in DOMAIN P : P[j].k = P[i].k => P[j].c < P[i].c \/ (P[j].c = P[i].c /\ j <= i))
          <=> \A j \in DOMAIN P : batch[j].k = batch[i].k => Newer(i, j)
    BY <1>1, <2>2
  <2> HIDE DEF Fresh, Newer
  <2> QED BY <1>1, <2>1, <2>3
<1>4. NewestOf(P) = {batch[i] : i \in {i \in DOMAIN batch : Fresh(batch[i]) /\ First(i)}}
  <2> HIDE DEF Fresh, First
  <2>1. {i \in DOMAIN P : \A j \in DOMAIN P : P[j].k = P[i].k => P[j].c < P[i].c \/ (P[j].c = P[i].c /\ j <= i)}
          = {i \in DOMAIN batch : Fresh(batch[i]) /\ First(i)}
    BY <1>1, <1>3
  <2> QED BY <1>1, <2>1 DEF NewestOf
<1>5. NotOlder(table, NewestOf(batch)) = {batch[i] : i \in {i \in DOMAIN batch : Fresh(batch[i]) /\ First(i)}}
  BY DEF NotOlder, NewestOf
<1> QED BY <1>4, <1>5 DEF P

-----------------------------------------------------------------------------
(***************************************************************************)
(* Proofs: the writes.                                                     *)
(***************************************************************************)

Shape ==
    /\ fence \in 0..MaxRun /\ publisher \in 0..MaxRun /\ clock \in Nat
    /\ pc \in [Runs -> Steps]
    /\ load \in [Runs -> Loads \union {<< >>}]
    /\ pending = [r \in Runs |-> pending[r]]
    /\ writes \in [Runs -> Nat] /\ skipped \in [Runs -> BOOLEAN]
    /\ staged \subseteq Runs \X Nat \X Kinds

\* A write that is in the stage of another warehouse does not exist.
PlaceOK ==
    \A r \in Runs : /\ pc[r] # "idle" => writes[r] >= 1
                    /\ pc[r] = "uploaded" => Warehouse = "redshift"
                    /\ pc[r] = "loaded" => Warehouse = "bigquery"

\* The last publication had the fence, or one that was superseded since.
FenceOK == Fenced => publisher <= fence

\* Staging is named for a write that has begun; a write that has only claimed
\* its target, or has returned, has none.
StagedOK ==
    \A r \in Runs, n \in Nat, kind \in Kinds :
        <<r, n, kind>> \in staged => /\ n <= writes[r]
                                     /\ pc[r] \in {"claimed", "ok"} => n < writes[r]

WritesInv == Shape /\ PlaceOK /\ FenceOK /\ StagedOK

\* A load is a batch.
LEMMA LoadIsBatch ==
    ASSUME WritesAssumption, Shape, NEW r \in Runs
    PROVE  IsBatch(load[r])
<1>1. CASE load[r] \in Loads
  <2>1. load[r] \in Seq({load[r][i] : i \in DOMAIN load[r]}) /\ \A i \in DOMAIN load[r] : load[r][i].c \in Int
    BY <1>1 DEF WritesAssumption
  <2>2. DOMAIN load[r] = 1..Len(load[r]) /\ Len(load[r]) \in Nat
    BY <2>1
  <2>3. load[r] = [i \in DOMAIN load[r] |-> load[r][i]]
    BY <2>1
  <2> QED BY <2>1, <2>2, <2>3 DEF IsBatch
<1>2. CASE load[r] = << >>
  <2>1. << >> \in Seq({}) /\ DOMAIN << >> = {}
    OBVIOUS
  <2>2. << >> = [i \in DOMAIN << >> |-> << >>[i]]
    BY <2>1
  <2> QED BY <1>2, <2>1, <2>2 DEF IsBatch
<1> QED BY <1>1, <1>2 DEF Shape

\* The writes begin in the invariant.
LEMMA WritesInvInit == ASSUME WritesAssumption, Init PROVE WritesInv
BY DEF WritesAssumption, Init, WritesInv, Shape, PlaceOK, FenceOK, StagedOK, Runs, Steps, Fenced

\* Every step keeps the shape of the state.
LEMMA ShapeNext ==
    ASSUME WritesAssumption, Shape, [Next]_vars
    PROVE  Shape' /\ mode' = mode
<1>m. MaxRun \in Nat
  BY DEF WritesAssumption
<1>r. \A r \in Runs : r \in 0..MaxRun /\ r \in Nat
  BY <1>m DEF Runs
<1> USE DEF Shape, Steps, Goto, published
<1>1. ASSUME NEW r \in Runs, Claim(r) \/ NextBatch(r) PROVE Shape' /\ mode' = mode
  <2>1. fence' = fence \/ fence' = r
    BY <1>1 DEF Claim, NextBatch
  <2>2. /\ pc' = [pc EXCEPT ![r] = "claimed"] /\ writes' = [writes EXCEPT ![r] = writes[r] + 1]
        /\ UNCHANGED <<mode, publisher, clock, skipped, load, pending, staged>>
    BY <1>1 DEF Claim, NextBatch
  <2> QED BY <1>r, <2>1, <2>2
<1>2. ASSUME NEW r \in Runs, Begin(r) PROVE Shape' /\ mode' = mode
  <2>1. PICK rows \in Loads : load' = [load EXCEPT ![r] = rows]
    BY <1>2 DEF Begin
  <2>2. rows \in Loads \union {<< >>}
    BY <2>1
  <2>3. pc' \in [Runs -> Steps]
    BY <1>2 DEF Begin
  <2> QED BY <1>2, <2>1, <2>2, <2>3 DEF Begin
<1>3. ASSUME NEW r \in Runs, NEW kind \in Kinds PROVE Named(r, kind) \in Runs \X Nat \X Kinds
  BY DEF Named
<1>4. ASSUME NEW r \in Runs, UploadRedshift(r) \/ LoadRedshift(r) PROVE Shape' /\ mode' = mode
  BY <1>3, <1>4 DEF UploadRedshift, LoadRedshift, Kinds
<1>5. ASSUME NEW r \in Runs, CheckSnowflake(r) \/ BeginPostgreSQL(r) PROVE Shape' /\ mode' = mode
  BY <1>3, <1>5 DEF CheckSnowflake, BeginPostgreSQL, Kinds
<1>6. ASSUME NEW r \in Runs, LoadBigQuery(r) \/ AppendStream(r) \/ CompareBigQuery(r) PROVE Shape' /\ mode' = mode
  BY <1>3, <1>6 DEF LoadBigQuery, AppendStream, CompareBigQuery, Kinds
<1>7. ASSUME NEW r \in Runs, Publish(r) PROVE Shape' /\ mode' = mode
  BY <1>r, <1>7 DEF Publish
<1>8. ASSUME NEW r \in Runs, FenceLost(r) \/ Fail(r) PROVE Shape' /\ mode' = mode
  BY <1>8 DEF FenceLost, Fail
<1>9. ASSUME NEW r \in Runs, Cleanup(r) PROVE Shape' /\ mode' = mode
  BY <1>9 DEF Cleanup, AfterCleanup
<1>10. ASSUME NEW r \in Runs, Crash(r) \/ Expire(r) PROVE Shape' /\ mode' = mode
  BY <1>10 DEF Crash, Expire
<1>11. CASE UNCHANGED vars
  BY <1>11 DEF vars
<1> QED BY <1>1, <1>2, <1>4, <1>5, <1>6, <1>7, <1>8, <1>9, <1>10, <1>11 DEF Next, Stop

\* Every step keeps the invariant.
LEMMA WritesInvNext ==
    ASSUME WritesAssumption, WritesInv, [Next]_vars
    PROVE  WritesInv'
<1>s. Shape' /\ mode' = mode
  BY ShapeNext DEF WritesInv
<1>r. \A r \in Runs : r \in Nat
  BY DEF Runs, WritesAssumption
<1>u. Shape /\ PlaceOK /\ FenceOK /\ StagedOK
  BY DEF WritesInv
<1>1. PlaceOK'
  <2> USE DEF PlaceOK, Shape, Goto
  <2>1. ASSUME NEW r \in Runs, Claim(r) \/ NextBatch(r) PROVE PlaceOK'
    BY <1>u, <2>1 DEF Claim, NextBatch
  <2>2. ASSUME NEW r \in Runs, Begin(r) PROVE PlaceOK'
    BY <1>u, <2>2 DEF Begin
  <2>3. ASSUME NEW r \in Runs, \/ UploadRedshift(r) \/ LoadRedshift(r) \/ CheckSnowflake(r) \/ BeginPostgreSQL(r)
                               \/ LoadBigQuery(r) \/ AppendStream(r) \/ CompareBigQuery(r)
        PROVE  PlaceOK'
    BY <1>u, <2>3 DEF UploadRedshift, LoadRedshift, CheckSnowflake, BeginPostgreSQL, LoadBigQuery, AppendStream,
       CompareBigQuery
  <2>4. ASSUME NEW r \in Runs, Publish(r) \/ FenceLost(r) \/ Fail(r) PROVE PlaceOK'
    BY <1>u, <2>4 DEF Publish, FenceLost, Fail
  <2>5. ASSUME NEW r \in Runs, Cleanup(r) PROVE PlaceOK'
    BY <1>u, <2>5 DEF Cleanup, AfterCleanup
  <2>6. ASSUME NEW r \in Runs, Crash(r) \/ Expire(r) PROVE PlaceOK'
    BY <1>u, <2>6 DEF Crash, Expire, InProgress
  <2>7. CASE UNCHANGED vars
    BY <1>u, <2>7 DEF vars
  <2> QED BY <2>1, <2>2, <2>3, <2>4, <2>5, <2>6, <2>7 DEF Next, Stop
<1>2. FenceOK'
  <2>f. Fenced' <=> Fenced
    BY <1>s DEF Fenced
  <2>1. ASSUME NEW r \in Runs, Claim(r) PROVE FenceOK'
    <3> SUFFICES ASSUME Fenced PROVE publisher' <= fence'
      BY <2>f DEF FenceOK
    <3>1. publisher \in Int /\ fence \in Int /\ r \in Int
      BY <1>u, <1>r DEF Shape
    <3> QED BY <1>u, <2>1, <3>1 DEF FenceOK, Claim, published
  <2>2. ASSUME NEW r \in Runs, Publish(r) PROVE FenceOK'
    BY <1>r, <2>f, <2>2 DEF FenceOK, Publish, Owns
  <2>3. ASSUME UNCHANGED <<fence, publisher>> PROVE FenceOK'
    BY <1>u, <2>f, <2>3 DEF FenceOK
  <2> QED BY <2>1, <2>2, <2>3 DEF Next, Stop, vars, published, NextBatch, Begin, UploadRedshift, LoadRedshift, CheckSnowflake, BeginPostgreSQL,
            LoadBigQuery, AppendStream, CompareBigQuery, FenceLost, Fail, Cleanup, Crash, Expire
<1>3. StagedOK'
  <2> USE DEF Goto, Named
  <2>h. /\ \A r \in Runs : writes[r] \in Nat /\ writes' \in [Runs -> Nat] /\ pc \in [Runs -> Steps]
        /\ \A r \in Runs, n \in Nat, kind \in Kinds :
              <<r, n, kind>> \in staged => n <= writes[r] /\ (pc[r] \in {"claimed", "ok"} => n < writes[r])
    BY <1>s, <1>u DEF Shape, StagedOK
  <2>1. ASSUME NEW r \in Runs, Claim(r) \/ NextBatch(r) PROVE StagedOK'
    <3>1. /\ staged' = staged /\ writes' = [writes EXCEPT ![r] = writes[r] + 1]
          /\ pc' = [pc EXCEPT ![r] = "claimed"] /\ writes \in [Runs -> Nat]
      BY <1>u, <2>1 DEF Claim, NextBatch, Shape
    <3> QED BY <2>h, <3>1 DEF StagedOK
  <2>2. ASSUME NEW r \in Runs, NEW step, step \notin {"claimed", "ok"} \/ pc[r] \in {"claimed", "ok"},
               pc' = [pc EXCEPT ![r] = step], writes' = writes, staged' \subseteq staged
        PROVE  StagedOK'
    BY <2>h, <2>2 DEF StagedOK
  <2>3. ASSUME NEW r \in Runs, Begin(r) PROVE StagedOK'
    <3>1. PICK step \in {"failed", "ok", "begun"} : pc' = [pc EXCEPT ![r] = step]
      BY <2>3 DEF Begin
    <3> QED BY <2>2, <2>3, <3>1 DEF Begin
  <2>4. ASSUME NEW r \in Runs, NEW step, step \notin {"claimed", "ok"}, NEW kind \in Kinds,
               pc' = [pc EXCEPT ![r] = step], writes' = writes, staged' \subseteq staged \union {<<r, writes[r], kind>>}
        PROVE  StagedOK'
    <3> SUFFICES ASSUME NEW q \in Runs, NEW n \in Nat, NEW any \in Kinds, <<q, n, any>> \in staged'
                 PROVE  n <= writes'[q] /\ (pc'[q] \in {"claimed", "ok"} => n < writes'[q])
      BY DEF StagedOK
    <3>1. CASE <<q, n, any>> \in staged
      BY <2>h, <2>4, <3>1
    <3>2. CASE <<q, n, any>> = <<r, writes[r], kind>>
      <4>1. q = r /\ n = writes[r]
        BY <3>2
      <4> QED BY <2>h, <2>4, <4>1
    <3> QED BY <2>4, <3>1, <3>2
  <2>5. ASSUME NEW r \in Runs, UploadRedshift(r) PROVE StagedOK'
    BY <2>4, <2>5 DEF UploadRedshift, Kinds
  <2>6. ASSUME NEW r \in Runs, LoadRedshift(r) PROVE StagedOK'
    BY <2>4, <2>6 DEF LoadRedshift, Kinds
  <2>7. ASSUME NEW r \in Runs, CheckSnowflake(r) PROVE StagedOK'
    BY <2>4, <2>7 DEF CheckSnowflake, Kinds
  <2>8. ASSUME NEW r \in Runs, LoadBigQuery(r) PROVE StagedOK'
    BY <2>4, <2>8 DEF LoadBigQuery, Kinds
  <2>9. ASSUME NEW r \in Runs, AppendStream(r) PROVE StagedOK'
    BY <2>4, <2>9 DEF AppendStream, Kinds
  <2>10. ASSUME NEW r \in Runs, BeginPostgreSQL(r) PROVE StagedOK'
    BY <2>2, <2>10 DEF BeginPostgreSQL
  <2>11. ASSUME NEW r \in Runs, CompareBigQuery(r) PROVE StagedOK'
    BY <2>2, <2>11 DEF CompareBigQuery
  <2>12. ASSUME NEW r \in Runs, Publish(r) PROVE StagedOK'
    <3>1. PICK step \in {"published", "failing"} : pc' = [pc EXCEPT ![r] = step]
      BY <2>12 DEF Publish
    <3> QED BY <2>2, <2>12, <3>1 DEF Publish
  <2>13. ASSUME NEW r \in Runs, FenceLost(r) PROVE StagedOK'
    BY <2>2, <2>13 DEF FenceLost
  <2>14. ASSUME NEW r \in Runs, Fail(r) PROVE StagedOK'
    BY <2>2, <2>14 DEF Fail
  <2>15. ASSUME NEW r \in Runs, Crash(r) PROVE StagedOK'
    <3>1. staged' \subseteq staged
      BY <2>15 DEF Crash
    <3> QED BY <2>2, <2>15, <3>1 DEF Crash
  <2>16. ASSUME NEW r \in Runs, Expire(r) PROVE StagedOK'
    <3>1. staged' \subseteq staged /\ pc' = pc /\ writes' = writes
      BY <2>16 DEF Expire
    <3> QED BY <2>h, <3>1 DEF StagedOK
  <2>17. ASSUME NEW r \in Runs, Cleanup(r) PROVE StagedOK'
    <3>1. CASE staged' = staged \ Owned(r) /\ pc' = [pc EXCEPT ![r] = AfterCleanup(r, TRUE)]
      <4> SUFFICES ASSUME NEW q \in Runs, NEW n \in Nat, NEW any \in Kinds, <<q, n, any>> \in staged'
                   PROVE  n <= writes'[q] /\ (pc'[q] \in {"claimed", "ok"} => n < writes'[q])
        BY DEF StagedOK
      <4>1. <<q, n, any>> \in staged /\ <<q, n, any>> \notin Owned(r) /\ writes' = writes
        BY <2>17, <3>1 DEF Cleanup
      <4>2. q = r => n # writes[r]
        BY <4>1 DEF Owned
      <4>3. n <= writes[q] /\ writes[q] \in Nat /\ (pc[q] \in {"claimed", "ok"} => n < writes[q])
        BY <2>h, <4>1
      <4>4. CASE q = r
        BY <4>1, <4>2, <4>3, <4>4
      <4>5. CASE q # r
        BY <2>h, <3>1, <4>1, <4>3, <4>5
      <4> QED BY <4>4, <4>5
    <3>2. CASE UNCHANGED staged /\ pc' = [pc EXCEPT ![r] = AfterCleanup(r, FALSE)]
      BY <2>2, <2>17, <3>2 DEF Cleanup, AfterCleanup
    <3> QED BY <2>17, <3>1, <3>2 DEF Cleanup
  <2>18. CASE UNCHANGED vars
    BY <2>h, <2>18 DEF vars, StagedOK
  <2> QED BY <2>1, <2>3, <2>5, <2>6, <2>7, <2>8, <2>9, <2>10, <2>11, <2>12, <2>13, <2>14, <2>15, <2>16, <2>17, <2>18
      DEF Next, Stop
<1> QED BY <1>s, <1>1, <1>2, <1>3 DEF WritesInv

\* Every reachable state is in the invariant.
LEMMA WritesInvHolds == ASSUME WritesAssumption PROVE Spec => []WritesInv
<1>1. Init => WritesInv
  BY WritesInvInit
<1>2. WritesInv /\ [Next]_vars => WritesInv'
  BY WritesInvNext
<1> QED BY <1>1, <1>2, PTL DEF Spec

\* Once a newer run has published, no older run changes the target again: a
\* publication matches the fence in its own transaction, and the fence only
\* ever moves to a newer run.  For every number of runs and writes, whatever
\* the loads, with lost answers and crashes anywhere.
THEOREM OlderRunsNeverPublish ==
    ASSUME WritesAssumption
    PROVE  Spec => [][NoOlderPublication]_vars
<1>1. WritesInv /\ [Next]_vars => [NoOlderPublication]_vars
  <2> SUFFICES ASSUME WritesInv, Next, Fenced PROVE publisher' >= publisher
    BY DEF NoOlderPublication, vars, Fenced
  <2>0. publisher \in Int /\ \A r \in Runs : r \in Int
    BY DEF WritesInv, Shape, Runs, WritesAssumption
  <2>1. ASSUME NEW r \in Runs, Publish(r) PROVE publisher' >= publisher
    BY <2>0, <2>1 DEF Publish, Owns, WritesInv, FenceOK
  <2>2. CASE UNCHANGED publisher
    BY <2>0, <2>2
  <2> QED BY <2>1, <2>2 DEF Next, Stop, vars, published, Claim, NextBatch, Begin, UploadRedshift, LoadRedshift, CheckSnowflake, BeginPostgreSQL,
            LoadBigQuery, AppendStream, CompareBigQuery, FenceLost, Fail, Cleanup, Crash, Expire
<1> QED BY <1>1, WritesInvHolds, PTL DEF Spec

\* A write that returned has left none of its own staging behind, whatever
\* failed writes and dead processes of the same run left.
THEOREM WritesLeaveNoLitter ==
    ASSUME WritesAssumption
    PROVE  Spec => []NoLitter
<1>1. WritesInv => NoLitter
  BY DEF WritesInv, Shape, StagedOK, NoLitter, Owned, Named
<1> QED BY <1>1, WritesInvHolds, PTL

-----------------------------------------------------------------------------
(* The table. *)

\* BigQuery: what was found changed still is what is changed, as long as the
\* run holds the fence.
ChangedOK ==
    Warehouse = "bigquery" /\ mode = "scd2" =>
        \A r \in Runs : pc[r] = "checked" /\ fence = r => pending[r] = Changed(r)

TableInv == WritesInv /\ TableOK(mode, table, clock) /\ ChangedOK

\* The publications of the four warehouses do the same to the table.
LEMMA Publications ==
    ASSUME WritesAssumption, TableInv, NEW r \in Runs, pc[r] = "checked", Owns(r)
    PROVE  /\ IsBatch(Batch(r))
           /\ Publication(r) = IF Skips(r) THEN table ELSE Applied(mode, table, Batch(r), clock + 1)
<1>0. IsBatch(load[r]) /\ clock \in Nat /\ TableOK(mode, table, clock)
  BY LoadIsBatch DEF TableInv, WritesInv, Shape
<1>1. DOMAIN << >> = {} /\ Records(<< >>) = {}
  BY DEF Records
<1>2. ASSUME load[r] = << >>
      PROVE  Applied(mode, table, load[r], clock + 1) = IF mode = "replace" THEN {} ELSE table
  <2>1. DOMAIN load[r] = {}
    BY <1>1, <1>2
  <2>2. \A batch : DOMAIN batch = {} =>
           Applied(mode, table, batch, clock + 1) = IF mode = "replace" THEN {} ELSE table
    BY AppliedEmpty
  <2> QED BY <2>1, <2>2
<1>b. Warehouse # "snowflake" => Batch(r) = load[r]
  BY DEF Batch
<1>3. CASE Warehouse = "redshift"
  <2>1. mode = "incremental" => NewestOf(Prune(load[r])) = NotOlder(table, NewestOf(load[r]))
    BY <1>0, <1>3, PruneThenNewest DEF TableOK
  <2>2. Publication(r) = RedshiftPublication(r)
    BY <1>3 DEF Publication
  <2>3. CASE Committed(r, load[r])
    BY <1>0, <1>b, <1>3, <2>2, <2>3 DEF RedshiftPublication, Skips
  <2>4. CASE ~Committed(r, load[r])
    <3>1. RedshiftPublication(r) = Applied(mode, table, load[r], clock + 1)
      BY <1>2, <1>3, <2>1, <2>4 DEF RedshiftPublication, Applied, RedshiftReplace,
         RedshiftSnapshot, RedshiftScd2, RedshiftMerge, Scd2, Now
    <3>2. ~Skips(r)
      BY <1>3, <2>4 DEF Skips
    <3> QED BY <1>0, <1>b, <1>3, <2>2, <3>1, <3>2
  <2> QED BY <2>3, <2>4
<1>4. CASE Warehouse = "snowflake"
  <2>1. IsBatch(ToLoad(r)) /\ DOMAIN ToLoad(r) \subseteq DOMAIN load[r] /\ Batch(r) = ToLoad(r)
    BY <1>0, <1>4 DEF ToLoad, IsBatch, Batch
  <2>2. Publication(r) = SnowflakePublication(r)
    BY <1>4 DEF Publication
  <2>3. CASE load[r] = << >>
    <3>1. DOMAIN ToLoad(r) = {}
      BY <1>1, <2>1, <2>3
    <3>2. Applied(mode, table, ToLoad(r), clock + 1) = IF mode = "replace" THEN {} ELSE table
      BY <3>1, AppliedEmpty
    <3>3. ~Skips(r)
      BY <1>4, <2>3 DEF Skips
    <3>4. SnowflakePublication(r) = IF mode = "replace" THEN {} ELSE table
      BY <2>3 DEF SnowflakePublication
    <3> QED BY <2>1, <2>2, <3>2, <3>3, <3>4
  <2>4. CASE load[r] # << >>
    <3>1. Skips(r) <=> pending[r] = {}
      BY <1>4, <2>4 DEF Skips
    <3>2. CASE pending[r] = {}
      BY <2>1, <2>2, <2>4, <3>1, <3>2 DEF SnowflakePublication
    <3>3. CASE pending[r] # {}
      <4>1. SnowflakePublication(r) = Applied(mode, table, ToLoad(r), clock + 1)
        BY <1>4, <2>4, <3>3 DEF SnowflakePublication, Applied, SnowflakeReplace, SnowflakeSnapshot,
           SnowflakeScd2, SnowflakeMerge, Scd2, Now
      <4> QED BY <2>1, <2>2, <3>1, <3>3, <4>1
    <3> QED BY <3>2, <3>3
  <2> QED BY <2>3, <2>4
<1>5. CASE Warehouse = "postgresql"
  <2>1. Publication(r) = PostgreSQLPublication(r) /\ ~Skips(r)
    BY <1>5 DEF Publication, Skips
  <2>2. PostgreSQLPublication(r) = Applied(mode, table, load[r], clock + 1)
    BY <1>2, <1>5 DEF PostgreSQLPublication, Applied, PostgreSQLReplace, PostgreSQLMerge, Scd2, Now
  <2> QED BY <1>0, <1>b, <1>5, <2>1, <2>2
<1>6. CASE Warehouse = "bigquery"
  <2>1. mode = "scd2" => CloseAndInsert(table, pending[r], clock + 1) = Scd2(table, LastOf(load[r]), clock + 1)
    <3> SUFFICES ASSUME mode = "scd2" PROVE CloseAndInsert(table, pending[r], clock + 1) = Scd2(table, LastOf(load[r]), clock + 1)
      OBVIOUS
    <3>1. fence = r
      BY DEF Owns, Fenced
    <3>2. pending[r] = ChangedRows(table, LastOf(load[r]))
      BY <1>6, <3>1 DEF TableInv, ChangedOK, Changed
    <3>3. VersionsOK(table, clock) /\ OnePerKey(LastOf(load[r])) /\ Open \notin Nat
      BY <1>0, LastOnePerKey DEF TableOK, WritesAssumption
    <3>4. clock + 1 \in Nat /\ clock + 1 > 0 /\ (clock + 1) - 1 = clock
      BY <1>0
    <3> QED BY <3>2, <3>3, <3>4, BigQueryScd2
  <2>2. Publication(r) = BigQueryPublication(r) /\ ~Skips(r)
    BY <1>6 DEF Publication, Skips
  <2>3. BigQueryPublication(r) = Applied(mode, table, load[r], clock + 1)
    BY <1>6, <2>1 DEF BigQueryPublication, Applied, BigQueryReplace, BigQuerySnapshot, BigQueryIncremental, Now
  <2> QED BY <1>0, <1>b, <1>6, <2>2, <2>3
<1> QED BY <1>3, <1>4, <1>5, <1>6 DEF WritesAssumption

\* What a publication does to the table: it keeps the mode's shape, loses
\* nothing, and unless it is skipped the table holds the batch.
LEMMA PublicationHolds ==
    ASSUME WritesAssumption, TableInv, NEW r \in Runs, pc[r] = "checked", Owns(r)
    PROVE  /\ TableOK(mode, Publication(r), clock + 1)
           /\ Keeps(mode, table, Publication(r))
           /\ IF Skips(r) THEN Publication(r) = table ELSE Holds(mode, Publication(r), Batch(r))
<1>1. /\ IsBatch(Batch(r))
      /\ Publication(r) = IF Skips(r) THEN table ELSE Applied(mode, table, Batch(r), clock + 1)
  BY Publications
<1>2. clock \in Nat /\ clock + 1 \in Nat /\ clock + 1 > 0 /\ (clock + 1) - 1 = clock
  BY DEF TableInv, WritesInv, Shape
<1>3. TableOK(mode, table, clock) /\ Open \notin Nat
  BY DEF TableInv, WritesAssumption
<1>4. CASE Skips(r)
  BY <1>1, <1>2, <1>3, <1>4, KeepsItself
<1>5. CASE ~Skips(r)
  BY <1>1, <1>2, <1>3, <1>5, AppliedHolds
<1> QED BY <1>4, <1>5

\* The table is empty at first.
LEMMA TableInvInit == ASSUME WritesAssumption, Init PROVE TableInv
<1>1. TableOK(mode, table, clock)
  BY DEF Init, TableOK, VersionsOK, Follow
<1>2. ChangedOK
  BY DEF Init, ChangedOK
<1> QED BY <1>1, <1>2, WritesInvInit DEF TableInv

\* Every step keeps it one of its mode.
LEMMA TableInvNext ==
    ASSUME WritesAssumption, TableInv, [Next]_vars
    PROVE  TableInv'
<1>s. WritesInv /\ WritesInv' /\ Shape /\ Shape' /\ mode' = mode
  BY WritesInvNext, ShapeNext DEF TableInv, WritesInv
<1>1. TableOK(mode, table, clock)'
  <2>1. ASSUME NEW r \in Runs, Publish(r) PROVE TableOK(mode', table', clock')
    BY <1>s, <2>1, PublicationHolds DEF Publish
  <2>2. ASSUME UNCHANGED <<table, clock>> PROVE TableOK(mode', table', clock')
    BY <1>s, <2>2 DEF TableInv
  <2>3. TableOK(mode', table', clock')
    BY <2>1, <2>2 DEF Next, Stop, vars, published, Claim, NextBatch, Begin, UploadRedshift, LoadRedshift, CheckSnowflake, BeginPostgreSQL,
            LoadBigQuery, AppendStream, CompareBigQuery, FenceLost, Fail, Cleanup, Crash, Expire
  <2> QED BY <2>3
<1>2. ChangedOK'
  <2> SUFFICES ASSUME Warehouse = "bigquery", mode = "scd2", NEW r \in Runs, pc'[r] = "checked", fence' = r
               PROVE  pending'[r] = ChangedRows(table', LastOf(load'[r]))
    BY <1>s DEF ChangedOK, Changed
  <2>0. /\ \A q \in Runs : pc[q] = "checked" /\ fence = q => pending[q] = ChangedRows(table, LastOf(load[q]))
        /\ pc \in [Runs -> Steps] /\ load \in [Runs -> Loads \union {<< >>}] /\ pending = [q \in Runs |-> pending[q]]
    BY <1>s DEF TableInv, ChangedOK, Changed, Shape
  <2> USE DEF Goto, published
  <2>1. ASSUME NEW q \in Runs, Claim(q) PROVE pending'[r] = ChangedRows(table', LastOf(load'[r]))
    <3>1. fence' = q /\ pc'[q] = "claimed"
      BY <2>0, <2>1 DEF Claim, Fenced
    <3> QED BY <3>1
  <2>2. ASSUME NEW q \in Runs, Begin(q) PROVE pending'[r] = ChangedRows(table', LastOf(load'[r]))
    <3>1. q # r
      BY <2>0, <2>2 DEF Begin
    <3>2. load'[r] = load[r] /\ pending'[r] = pending[r] /\ pc'[r] = pc[r] /\ table' = table /\ fence' = fence
      BY <2>0, <2>2, <3>1 DEF Begin
    <3> QED BY <2>0, <3>2
  <2>3. ASSUME NEW q \in Runs, CompareBigQuery(q) PROVE pending'[r] = ChangedRows(table', LastOf(load'[r]))
    <3>1. CASE q = r
      BY <2>0, <2>3, <3>1 DEF CompareBigQuery, Changed
    <3>2. CASE q # r
      BY <2>0, <2>3, <3>2 DEF CompareBigQuery
    <3> QED BY <3>1, <3>2
  <2>4. ASSUME NEW q \in Runs, Publish(q) PROVE pending'[r] = ChangedRows(table', LastOf(load'[r]))
    <3>1. fence = q /\ fence' = fence /\ pc'[q] # "checked"
      BY <2>0, <2>4 DEF Publish, Owns, Fenced
    <3> QED BY <3>1
  <2>5. ASSUME UNCHANGED <<table, load, pending, fence>>, NEW q \in Runs, NEW step, step # "checked",
               pc' = [pc EXCEPT ![q] = step] \/ pc' = pc
        PROVE  pending'[r] = ChangedRows(table', LastOf(load'[r]))
    BY <2>0, <2>5
  <2>6. ASSUME NEW q \in Runs, UploadRedshift(q) \/ LoadRedshift(q) \/ CheckSnowflake(q) \/ BeginPostgreSQL(q)
        PROVE  FALSE
    BY <1>s, <2>6 DEF UploadRedshift, LoadRedshift, CheckSnowflake, BeginPostgreSQL, WritesInv, PlaceOK
  <2>7. ASSUME NEW q \in Runs, LoadBigQuery(q) \/ AppendStream(q)
        PROVE  pending'[r] = ChangedRows(table', LastOf(load'[r]))
    BY <2>5, <2>7 DEF LoadBigQuery, AppendStream
  <2>8. ASSUME NEW q \in Runs, FenceLost(q) \/ Fail(q) \/ NextBatch(q) PROVE pending'[r] = ChangedRows(table', LastOf(load'[r]))
    BY <2>5, <2>8 DEF FenceLost, Fail, NextBatch
  <2>9. ASSUME NEW q \in Runs, Cleanup(q) PROVE pending'[r] = ChangedRows(table', LastOf(load'[r]))
    <3>1. PICK step \in {"ok", "failed"} : pc' = [pc EXCEPT ![q] = step]
      BY <2>9 DEF Cleanup, AfterCleanup
    <3> QED BY <2>5, <2>9, <3>1 DEF Cleanup
  <2>10. ASSUME NEW q \in Runs, Crash(q) \/ Expire(q) PROVE pending'[r] = ChangedRows(table', LastOf(load'[r]))
    BY <2>5, <2>10 DEF Crash, Expire
  <2>11. CASE UNCHANGED vars
    BY <2>0, <2>11 DEF vars
  <2> QED BY <2>1, <2>2, <2>3, <2>4, <2>6, <2>7, <2>8, <2>9, <2>10, <2>11 DEF Next, Stop
<1> QED BY <1>s, <1>1, <1>2 DEF TableInv

\* Every reachable table is one of its mode.
LEMMA TableInvHolds == ASSUME WritesAssumption PROVE Spec => []TableInv
<1>1. Init => TableInv
  BY TableInvInit
<1>2. TableInv /\ [Next]_vars => TableInv'
  BY TableInvNext
<1> QED BY <1>1, <1>2, PTL DEF Spec

\* An scd2 table has one history of every key in every warehouse: at most one
\* current row, versions that follow one another, and no version that repeats
\* the one before it, through every replay, retry and superseding run.
THEOREM VersionsFollow ==
    ASSUME WritesAssumption
    PROVE  Spec => []OneHistory
<1>1. TableInv => OneHistory
  BY DEF TableInv, TableOK, VersionsOK, Follow, OneHistory
<1> QED BY <1>1, TableInvHolds, PTL

\* No publication loses an scd2 version or a snapshot row, and none but
\* BigQuery's lets an incremental row fall back to an older cursor.
THEOREM PublicationsLoseNothing ==
    ASSUME WritesAssumption
    PROVE  Spec => [][NothingLost]_vars
<1>1. TableInv /\ [Next]_vars => [NothingLost]_vars
  <2> SUFFICES ASSUME TableInv, Next PROVE NothingLost
    OBVIOUS
  <2>k. Keeps(mode, table, table') => NothingLost
    BY DEF Keeps, NothingLost
  <2>1. ASSUME NEW r \in Runs, Publish(r) PROVE NothingLost
    BY <2>k, <2>1, PublicationHolds DEF Publish
  <2>2. CASE table' = table
    <3>1. clock + 1 \in Nat /\ clock + 1 > 0 /\ (clock + 1) - 1 = clock
      BY DEF TableInv, WritesInv, Shape
    <3>2. Keeps(mode, table, table)
      BY <3>1, KeepsItself DEF TableInv
    <3> QED BY <2>k, <2>2, <3>2
  <2> QED BY <2>1, <2>2 DEF Next, Stop, vars, published, Claim, NextBatch, Begin, UploadRedshift, LoadRedshift, CheckSnowflake, BeginPostgreSQL,
            LoadBigQuery, AppendStream, CompareBigQuery, FenceLost, Fail, Cleanup, Crash, Expire
<1> QED BY <1>1, TableInvHolds, PTL DEF Spec

-----------------------------------------------------------------------------
(* What a write that returned has done. *)

\* Snowflake: the artifacts that were found missing from the history still are,
\* as long as the execution holds the fence.
PendingOK ==
    Warehouse = "snowflake" =>
        \A r \in Runs : pc[r] = "checked" /\ fence = r =>
            pending[r] = {d \in Digests(r) : <<run[r], d>> \notin history}

\* The table holds the records that were last applied to it.
LatestOK == Holds(mode, table, latest)

\* It holds the load that was last published, unless the history left some of
\* it out and other records were applied since.
AbsorbedOK ==
    \A r \in Runs : publisher = r /\ pc[r] \in {"published", "ok"} /\ (skipped[r] => latest = load[r]) =>
        Holds(mode, table, load[r])

EffectInv == PendingOK /\ LatestOK /\ AbsorbedOK

\* Every record of a load is in an artifact, and a load of records has one.
LEMMA ArtifactsCover ==
    ASSUME NEW rows, NEW i \in DOMAIN rows
    PROVE  \E part \in Artifacts(rows) : <<i, rows[i]>> \in part
<1>1. CASE Direct(rows)
  BY <1>1 DEF Artifacts
<1>2. CASE ~Direct(rows)
  <2> DEFINE n == (i - 1) \div RowsPerFile
             part == {<<j, rows[j]>> : j \in {j \in DOMAIN rows : (j - 1) \div RowsPerFile = n}}
  <2>1. part \in Artifacts(rows)
    BY <1>2 DEF Artifacts
  <2>2. <<i, rows[i]>> \in part
    OBVIOUS
  <2> QED BY <2>1, <2>2
<1> QED BY <1>1, <1>2

\* A load that is all pending, or replaces, is loaded as a whole.
LEMMA WholeLoad ==
    ASSUME NEW r, IsBatch(load[r]), mode = "replace" \/ pending[r] = Artifacts(load[r])
    PROVE  ToLoad(r) = load[r]
<1>1. \A i \in DOMAIN load[r] : mode = "replace" \/ \E part \in pending[r] : <<i, load[r][i]>> \in part
  BY ArtifactsCover
<1>2. {i \in DOMAIN load[r] : mode = "replace" \/ \E part \in pending[r] : <<i, load[r][i]>> \in part} = DOMAIN load[r]
  BY <1>1
<1>3. ToLoad(r) = [i \in DOMAIN load[r] |-> load[r][i]]
  BY <1>2 DEF ToLoad
<1> QED BY <1>3 DEF IsBatch

\* A step that leaves the table, the history and the loads alone.
LEMMA QuietStep ==
    ASSUME Shape, EffectInv, UNCHANGED <<mode, run, published, load>>, NEW r \in Runs, NEW step,
           pc' = [pc EXCEPT ![r] = step],
           step \in {"published", "ok"} => pc[r] = "published",
           \A q \in Runs : q # r => pending'[q] = pending[q],
           \A q \in Runs : fence' = q => fence = q \/ (q = r /\ step # "checked"),
           Warehouse = "snowflake" /\ step = "checked" => pending'[r] = {d \in Digests(r) : <<run[r], d>> \notin history}
    PROVE  EffectInv'
<1>0. pc \in [Runs -> Steps] /\ UNCHANGED <<table, history, publisher, latest, skipped>>
  BY DEF Shape, published
<1>1. PendingOK'
  <2> SUFFICES ASSUME Warehouse = "snowflake", NEW q \in Runs, pc'[q] = "checked", fence' = q
               PROVE  pending'[q] = {d \in Digests(q)' : <<run'[q], d>> \notin history'}
    BY DEF PendingOK
  <2>1. Digests(q)' = Digests(q) /\ history' = history /\ run' = run
    BY <1>0 DEF Digests
  <2>2. CASE q = r
    BY <1>0, <2>1, <2>2
  <2>3. CASE q # r
    BY <1>0, <2>1, <2>3 DEF EffectInv, PendingOK
  <2> QED BY <2>2, <2>3
<1>2. LatestOK'
  BY <1>0 DEF EffectInv, LatestOK, Holds
<1>3. AbsorbedOK'
  BY <1>0 DEF EffectInv, AbsorbedOK, Holds
<1> QED BY <1>1, <1>2, <1>3 DEF EffectInv

\* A publication leaves its load in the table, or finds it there: what it
\* leaves out is in the history under its own run id.
LEMMA PublicationAbsorbs ==
    ASSUME WritesAssumption, TableInv, EffectInv, NEW r \in Runs, pc[r] = "checked", Owns(r),
           (\E digest \in Digests(r) : <<run[r], digest>> \in history) =>
               (IF Skips(r) THEN latest ELSE Batch(r)) = load[r]
    PROVE  Holds(mode, Publication(r), load[r])
<1>1. IF Skips(r) THEN Publication(r) = table ELSE Holds(mode, Publication(r), Batch(r))
  BY PublicationHolds
<1>2. IsBatch(load[r]) /\ load[r] \in Loads \union {<< >>}
  BY LoadIsBatch DEF TableInv, WritesInv, Shape
<1>3. Holds(mode, table, latest)
  BY DEF EffectInv, LatestOK
<1>4. Warehouse = "snowflake" => pending[r] = {d \in Artifacts(load[r]) : <<run[r], d>> \notin history}
  BY DEF Owns, Fenced, EffectInv, PendingOK, Digests
<1>5. CASE Skips(r)
  <2>1. \E digest \in Digests(r) : <<run[r], digest>> \in history
    <3>1. CASE Warehouse = "redshift"
      BY <1>5, <3>1 DEF Skips, Committed, Digests
    <3>2. CASE Warehouse = "snowflake"
      <4>1. load[r] # << >> /\ pending[r] = {}
        BY <1>5, <3>2 DEF Skips
      <4>2. load[r] \in Seq({load[r][i] : i \in DOMAIN load[r]})
        BY <1>2, <4>1 DEF WritesAssumption
      <4>3. Len(load[r]) \in Nat /\ Len(load[r]) # 0 /\ DOMAIN load[r] = 1..Len(load[r])
        BY <4>1, <4>2
      <4>4. 1 \in DOMAIN load[r]
        BY <4>3
      <4>5. PICK part \in Artifacts(load[r]) : <<1, load[r][1]>> \in part
        BY <4>4, ArtifactsCover
      <4>6. part \in Digests(r) /\ <<run[r], part>> \in history
        BY <1>4, <3>2, <4>1, <4>5 DEF Digests
      <4> QED BY <4>6
    <3> QED BY <1>5, <3>1, <3>2 DEF Skips
  <2>2. latest = load[r]
    BY <1>5, <2>1
  <2> QED BY <1>1, <1>3, <1>5, <2>2
<1>6. CASE ~Skips(r)
  <2>1. Batch(r) = load[r]
    <3>1. CASE Warehouse # "snowflake"
      BY <3>1 DEF Batch
    <3>2. CASE Warehouse = "snowflake"
      <4>1. Batch(r) = ToLoad(r) /\ Digests(r) = Artifacts(load[r])
        BY <3>2 DEF Batch, Digests
      <4>2. CASE \E digest \in Digests(r) : <<run[r], digest>> \in history
        BY <1>6, <4>2
      <4>3. CASE \A digest \in Digests(r) : <<run[r], digest>> \notin history
        <5>1. pending[r] = Artifacts(load[r])
          BY <1>4, <3>2, <4>1, <4>3
        <5> QED BY <1>2, <4>1, <5>1, WholeLoad
      <4> QED BY <4>2, <4>3
    <3> QED BY <3>1, <3>2
  <2> QED BY <1>1, <1>6, <2>1
<1> QED BY <1>5, <1>6

\* A publication keeps the invariant.
LEMMA EffectPublish ==
    ASSUME WritesAssumption, TableInv, EffectInv, NEW r \in Runs, Publish(r)
    PROVE  EffectInv'
<1>0. /\ pc[r] = "checked" /\ Owns(r) /\ table' = Publication(r) /\ publisher' = r /\ history' = HistoryAfter(r)
      /\ latest' = (IF Skips(r) THEN latest ELSE Batch(r))
      /\ skipped' = [skipped EXCEPT ![r] = \E digest \in Digests(r) : <<run[r], digest>> \in history]
      /\ UNCHANGED <<mode, run, fence, load, pending, writes>>
  BY DEF Publish
<1>s. pc \in [Runs -> Steps] /\ skipped \in [Runs -> BOOLEAN]
  BY DEF TableInv, WritesInv, Shape
<1>p. PICK step \in {"published", "failing"} : pc' = [pc EXCEPT ![r] = step]
  BY DEF Publish, Goto
<1>1. PendingOK'
  <2> SUFFICES ASSUME Warehouse = "snowflake", NEW q \in Runs, pc'[q] = "checked", fence' = q PROVE FALSE
    BY DEF PendingOK
  <2>1. q = r
    BY <1>0 DEF Owns, Fenced
  <2> QED BY <1>s, <1>p, <2>1
<1>2. LatestOK'
  <2>1. IF Skips(r) THEN Publication(r) = table ELSE Holds(mode, Publication(r), Batch(r))
    BY <1>0, PublicationHolds
  <2>2. Holds(mode, table, latest)
    BY DEF EffectInv, LatestOK
  <2>3. Holds(mode, table', latest')
    BY <1>0, <2>1, <2>2
  <2> QED BY <1>0, <2>3 DEF LatestOK, Holds
<1>3. AbsorbedOK'
  <2> SUFFICES ASSUME skipped'[r] => latest' = load'[r]
               PROVE  Holds(mode', table', load'[r])
    BY <1>0 DEF AbsorbedOK, Holds
  <2>1. (\E digest \in Digests(r) : <<run[r], digest>> \in history) => latest' = load[r]
    BY <1>0, <1>s
  <2>2. (\E digest \in Digests(r) : <<run[r], digest>> \in history) =>
            (IF Skips(r) THEN latest ELSE Batch(r)) = load[r]
    BY <1>0, <2>1
  <2>3. Holds(mode, Publication(r), load[r])
    BY <1>0, <2>2, PublicationAbsorbs
  <2> QED BY <1>0, <2>3
<1> QED BY <1>1, <1>2, <1>3 DEF EffectInv

\* A new load is one the table does not have to hold yet.
LEMMA EffectBegin ==
    ASSUME WritesAssumption, TableInv, EffectInv, NEW r \in Runs, Begin(r)
    PROVE  EffectInv'
<1>0. /\ pc[r] = "claimed" /\ UNCHANGED <<mode, run, table, history, fence, publisher, latest, skipped>>
      /\ pending' = [pending EXCEPT ![r] = {}]
  BY DEF Begin, published
<1>s. /\ pc \in [Runs -> Steps] /\ load \in [Runs -> Loads \union {<< >>}]
      /\ pending = [q \in Runs |-> pending[q]]
  BY DEF TableInv, WritesInv, Shape
<1>1. PICK rows \in Loads :
        /\ load' = [load EXCEPT ![r] = rows]
        /\ CASE Keyed /\ ~Valid(rows) -> pc' = [pc EXCEPT ![r] = "failed"]
             [] NothingToDo(rows) -> pc' = [pc EXCEPT ![r] = "ok"]
             [] OTHER -> pc' = [pc EXCEPT ![r] = "begun"]
  BY DEF Begin, Goto
<1>2. PICK step \in {"failed", "ok", "begun"} : pc' = [pc EXCEPT ![r] = step] /\ (step = "ok" => NothingToDo(rows))
  BY <1>1
<1>3. \A q \in Runs : q # r => load'[q] = load[q] /\ pc'[q] = pc[q] /\ pending'[q] = pending[q]
  BY <1>0, <1>1, <1>2, <1>s
<1>4. load'[r] = rows /\ pc'[r] = step
  BY <1>1, <1>2, <1>s
<1>5. PendingOK'
  <2> SUFFICES ASSUME Warehouse = "snowflake", NEW q \in Runs, pc'[q] = "checked", fence' = q
               PROVE  pending'[q] = {d \in Digests(q)' : <<run'[q], d>> \notin history'}
    BY DEF PendingOK
  <2>1. q # r
    BY <1>2, <1>4
  <2>2. Digests(q)' = Digests(q) /\ pending'[q] = pending[q] /\ pc[q] = "checked"
    BY <1>0, <1>3, <2>1 DEF Digests
  <2> QED BY <1>0, <2>2 DEF EffectInv, PendingOK
<1>6. LatestOK'
  BY <1>0 DEF EffectInv, LatestOK, Holds
<1>7. AbsorbedOK'
  <2> SUFFICES ASSUME NEW q \in Runs, publisher' = q, pc'[q] \in {"published", "ok"}, skipped'[q] => latest' = load'[q]
               PROVE  Holds(mode', table', load'[q])
    BY DEF AbsorbedOK, Holds
  <2>1. CASE q # r
    BY <1>0, <1>3, <2>1 DEF EffectInv, AbsorbedOK
  <2>2. CASE q = r
    <3>1. rows = << >> /\ mode # "replace"
      BY <1>2, <1>4, <2>2 DEF NothingToDo
    <3>2. \A target : Holds(mode, target, << >>)
      BY <3>1, HoldsEmpty
    <3> QED BY <1>0, <1>4, <2>2, <3>1, <3>2
  <2> QED BY <2>1, <2>2
<1> QED BY <1>5, <1>6, <1>7 DEF EffectInv

\* Every step keeps it.
LEMMA EffectInvNext ==
    ASSUME WritesAssumption, TableInv, EffectInv, [Next]_vars
    PROVE  EffectInv'
<1>s. Shape /\ PlaceOK /\ pc \in [Runs -> Steps] /\ pending = [q \in Runs |-> pending[q]]
  BY DEF TableInv, WritesInv, Shape
<1> USE DEF Goto
<1>1. ASSUME NEW r \in Runs, Claim(r) \/ NextBatch(r) PROVE EffectInv'
  <2>1. /\ UNCHANGED <<mode, run, published, load, pending>> /\ pc' = [pc EXCEPT ![r] = "claimed"]
        /\ fence' = r \/ fence' = fence
    BY <1>1 DEF Claim, NextBatch
  <2>2. \A q \in Runs : fence' = q => fence = q \/ (q = r /\ "claimed" # "checked")
    BY <2>1
  <2> QED BY <1>s, <2>1, <2>2, QuietStep
<1>2. ASSUME NEW r \in Runs, Begin(r) PROVE EffectInv'
  BY <1>2, EffectBegin
<1>3. ASSUME NEW r \in Runs, UploadRedshift(r) PROVE EffectInv'
  BY <1>s, <1>3, QuietStep DEF UploadRedshift
<1>4. ASSUME NEW r \in Runs, LoadRedshift(r) PROVE EffectInv'
  <2>1. Warehouse # "snowflake"
    BY <1>s, <1>4 DEF LoadRedshift, PlaceOK
  <2> QED BY <1>s, <1>4, <2>1, QuietStep DEF LoadRedshift
<1>5. ASSUME NEW r \in Runs, CheckSnowflake(r) PROVE EffectInv'
  <2>1. /\ pending' = [pending EXCEPT ![r] = {d \in Digests(r) : <<run[r], d>> \notin history}]
        /\ pc' = [pc EXCEPT ![r] = "checked"]
        /\ UNCHANGED <<mode, run, published, load, fence>>
    BY <1>5 DEF CheckSnowflake, Committed
  <2>2. /\ pending'[r] = {d \in Digests(r) : <<run[r], d>> \notin history}
        /\ \A q \in Runs : q # r => pending'[q] = pending[q]
    BY <1>s, <2>1
  <2> QED BY <1>s, <2>1, <2>2, QuietStep
<1>6. ASSUME NEW r \in Runs, BeginPostgreSQL(r) PROVE EffectInv'
  BY <1>s, <1>6, QuietStep DEF BeginPostgreSQL
<1>7. ASSUME NEW r \in Runs, LoadBigQuery(r) \/ AppendStream(r) PROVE EffectInv'
  BY <1>s, <1>7, QuietStep DEF LoadBigQuery, AppendStream
<1>8. ASSUME NEW r \in Runs, CompareBigQuery(r) PROVE EffectInv'
  <2>1. Warehouse # "snowflake"
    BY <1>s, <1>8 DEF CompareBigQuery, PlaceOK
  <2>2. \A q \in Runs : q # r => pending'[q] = pending[q]
    BY <1>s, <1>8 DEF CompareBigQuery
  <2>3. pc' = [pc EXCEPT ![r] = "checked"] /\ UNCHANGED <<mode, run, published, load, fence>>
    BY <1>8 DEF CompareBigQuery
  <2> QED BY <1>s, <2>1, <2>2, <2>3, QuietStep
<1>9. ASSUME NEW r \in Runs, Publish(r) PROVE EffectInv'
  BY <1>9, EffectPublish
<1>10. ASSUME NEW r \in Runs, FenceLost(r) \/ Fail(r) PROVE EffectInv'
  BY <1>s, <1>10, QuietStep DEF FenceLost, Fail
<1>11. ASSUME NEW r \in Runs, Cleanup(r) PROVE EffectInv'
  <2>1. PICK step \in {"ok", "failed"} : pc' = [pc EXCEPT ![r] = step] /\ (step = "ok" => pc[r] = "published")
    BY <1>11 DEF Cleanup, AfterCleanup
  <2>2. UNCHANGED <<mode, run, published, fence, load, pending>>
    BY <1>11 DEF Cleanup
  <2> QED BY <1>s, <2>1, <2>2, QuietStep
<1>12. ASSUME NEW r \in Runs, Crash(r) PROVE EffectInv'
  BY <1>s, <1>12, QuietStep DEF Crash
<1>13. ASSUME UNCHANGED <<mode, run, table, history, fence, load, publisher, pc, pending, latest, skipped>> PROVE EffectInv'
  BY <1>13 DEF EffectInv, PendingOK, LatestOK, AbsorbedOK, Digests, Holds
<1> QED BY <1>1, <1>2, <1>3, <1>4, <1>5, <1>6, <1>7, <1>8, <1>9, <1>10, <1>11, <1>12, <1>13
        DEF Next, Stop, Expire, vars, published

\* A write that returned has taken effect: as long as no other execution has
\* published since, the table holds what the mode makes of its load, for every
\* sequence of batches, of retries under a new token, of lost answers and of
\* crashes.  Excepted is what the replay guard left out although other records
\* were applied since its run id recorded it.
THEOREM WritesTakeEffect ==
    ASSUME WritesAssumption
    PROVE  Spec => []TakesEffect
<1>1. Init => EffectInv
  <2> SUFFICES ASSUME Init PROVE EffectInv
    OBVIOUS
  <2>0. DOMAIN << >> = {}
    OBVIOUS
  <2>1. Holds(mode, {}, << >>)
    <3>1. CASE mode = "replace"
      BY <2>0, <3>1 DEF Holds, Records
    <3>2. CASE mode # "replace"
      BY <3>2, HoldsEmpty
    <3> QED BY <3>1, <3>2
  <2>2. LatestOK
    BY <2>1 DEF Init, LatestOK
  <2> QED BY <2>2 DEF Init, EffectInv, PendingOK, AbsorbedOK, Runs, WritesAssumption
<1>2. TableInv /\ EffectInv /\ [Next]_vars => EffectInv'
  BY EffectInvNext
<1>3. EffectInv => TakesEffect
  BY DEF EffectInv, AbsorbedOK, TakesEffect, Absorbed, Holds
<1> QED BY <1>1, <1>2, <1>3, TableInvHolds, PTL DEF Spec
=============================================================================
