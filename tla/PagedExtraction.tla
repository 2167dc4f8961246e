--------------------------- MODULE PagedExtraction ---------------------------
(* Extractions that read a source table page by page while it changes, and the *)
(* incremental boundary they leave for the next one: Workday RaaS, NetSuite    *)
(* SuiteQL, Odoo JSON-2 (ingestion/enterprise.py) and ServiceNow through dlt   *)
(* (ingestion/dlt_backed.py).  The servers are those of dander.dev; a record   *)
(* is its id and the timestamp of its last change.  Rows are merged by key as  *)
(* they are yielded, and the boundary moves when the extraction is complete.   *)
EXTENDS Integers, Sequences, FiniteSets, SequencesExt, FiniteSetsExt

CONSTANTS
    Engine,         \* "workday", "suiteql", "odoo" or "servicenow"
    Ids,            \* record ids, 1 .. n
    Initial,        \* the ids there are at first
    PageSize,
    MaxClock, MaxRuns, MaxRetries,
    Ties            \* a change may have the timestamp of the one before it

EngineAssumption == Engine \in {"workday", "suiteql", "odoo", "servicenow"}

VARIABLES
    table,      \* [id -> time of its last change, 0 if there is no such record]
    clock,
    pc,         \* "idle", "paging" or "yielded"
    runs,       \* extractions started
    since,      \* the committed boundary, -1 if there is none
    offset, attempt, more,
    got,        \* rows of the page that was received
    largest,    \* the largest timestamp yielded by this extraction
    target,     \* [id -> timestamp of the row the target has]
    start,      \* the table when the extraction began
    moved,      \* a record moved or left while this extraction read
    ever        \* ... while some extraction read

vars == <<table, clock, pc, runs, since, offset, attempt, more, got, largest, target, start, moved, ever>>

Source == <<table, clock>>
Reading == <<offset, attempt, more, got, largest>>

Init ==
    /\ table = [i \in Ids |-> IF i \in Initial THEN 1 ELSE 0] /\ clock = 1
    /\ pc = "idle" /\ runs = 0 /\ since = -1
    /\ offset = 0 /\ attempt = 0 /\ more = FALSE /\ got = 0 /\ largest = -1
    /\ target = [i \in Ids |-> 0] /\ start = table
    /\ moved = FALSE /\ ever = FALSE

-----------------------------------------------------------------------------
(* The server *)

Incremental == Engine \in {"workday", "odoo"}

(* A change has a later timestamp; where the clock is coarse, perhaps the same. *)
Stamp(t) ==
    /\ t \in clock .. MaxClock
    /\ Ties \/ t = clock + 1

Disturbs == moved' = (moved \/ pc # "idle") /\ ever' = (ever \/ pc # "idle")

Create ==
    \E t \in clock .. clock + 1, i \in Ids :
        /\ Stamp(t) /\ clock' = t
        /\ table[i] = 0 /\ target[i] = 0 /\ \A j \in Ids : j > i => (table[j] = 0 /\ target[j] = 0)
        /\ \A j \in Ids : j < i => (table[j] # 0 \/ target[j] # 0)
        /\ table' = [table EXCEPT ![i] = t]
        /\ UNCHANGED <<pc, runs, since, Reading, target, start, moved, ever>>

(* Pages in the order of ids keep a changed record in its place; in the order  *)
(* of changes it moves to the end.  An incremental reader has its boundary     *)
(* pushed past a change it has not seen.                                       *)
Update ==
    \E t \in clock .. clock + 1, i \in Ids :
        /\ Stamp(t) /\ clock' = t
        /\ table[i] # 0
        /\ table' = [table EXCEPT ![i] = t]
        /\ IF Engine = "suiteql" THEN UNCHANGED <<moved, ever>> ELSE Disturbs
        /\ UNCHANGED <<pc, runs, since, Reading, target, start>>

Delete ==
    \E i \in Ids :
        /\ table[i] # 0
        /\ table' = [table EXCEPT ![i] = 0]
        /\ Disturbs
        /\ UNCHANGED <<clock, pc, runs, since, Reading, target, start>>

(* The rows the query selects, in its order.  The Workday report takes what    *)
(* changed after the boundary, the Odoo domain also what changed at it.        *)
After(i) == table[i] > since

FromBoundary(i) == table[i] >= since

Domain(i) == IF Engine = "odoo" THEN FromBoundary(i) ELSE After(i)

Selected(i) == table[i] # 0 /\ (Incremental => Domain(i))

Before(i, j) ==
    IF Engine = "servicenow" THEN table[i] < table[j] \/ (table[i] = table[j] /\ i < j) ELSE i < j

Rows == SetToSortSeq({i \in Ids : Selected(i)}, Before)

-----------------------------------------------------------------------------
(* The client *)

Begin ==
    /\ pc = "idle" /\ runs < MaxRuns
    /\ pc' = "paging" /\ runs' = runs + 1
    /\ offset' = 0 /\ attempt' = 0 /\ more' = FALSE /\ got' = 0 /\ largest' = -1
    /\ start' = table /\ moved' = FALSE
    /\ UNCHANGED <<Source, since, target, ever>>

(* A request is retried after a throttled, failed or lost response, a bounded  *)
(* number of times.                                                            *)
Retry ==
    /\ pc = "paging" /\ attempt < MaxRetries
    /\ attempt' = attempt + 1
    /\ UNCHANGED <<Source, pc, runs, since, offset, more, got, largest, target, start, moved, ever>>

(* Retries exhausted, permission denied or an inconsistent page. *)
GiveUp ==
    /\ pc = "paging"
    /\ pc' = "idle"
    /\ UNCHANGED <<Source, runs, since, Reading, target, start, moved, ever>>

Least(a, b) == IF a < b THEN a ELSE b

Slice == SubSeq(Rows, offset + 1, Least(offset + PageSize, Len(Rows)))

(* SuiteQL's total must cover the page: rows that left fail the extraction. *)
Consistent == Engine = "suiteql" => Len(Rows) >= offset + Len(Slice)

(* SuiteQL says whether there is more; the others stop at a page that is not full. *)
HasMore(rows) ==
    CASE Engine = "suiteql" -> offset + Len(rows) < Len(Rows)
      [] Engine = "servicenow" -> rows # <<>>
      [] OTHER -> Len(rows) = PageSize

(* The first rows of the page are yielded; of the rows of a key the writer keeps the last. *)
Take(n) ==
    /\ target' = [i \in Ids |-> IF i \in {Slice[k] : k \in 1 .. n} THEN table[i] ELSE target[i]]
    /\ largest' = Max({largest} \cup {table[Slice[k]] : k \in 1 .. n})

Receive ==
    /\ pc = "paging" /\ Consistent
    /\ Take(Len(Slice))
    /\ more' = HasMore(Slice) /\ got' = Len(Slice)
    /\ pc' = "yielded"
    /\ UNCHANGED <<Source, runs, since, offset, attempt, start, moved, ever>>

(* A row that cannot be cast ends the extraction after the rows before it. *)
Malformed ==
    /\ pc = "paging" /\ Consistent
    /\ \E n \in 0 .. Len(Slice) - 1 : Take(n)
    /\ pc' = "idle"
    /\ UNCHANGED <<Source, runs, since, offset, attempt, more, got, start, moved, ever>>

(* The next page starts one row too far. *)
TooFar == offset + PageSize + 1

NextOffset == IF Engine = "suiteql" THEN offset + got ELSE offset + PageSize

NextPage ==
    /\ pc = "yielded" /\ more
    /\ offset' = NextOffset /\ attempt' = 0
    /\ pc' = "paging"
    /\ UNCHANGED <<Source, runs, since, more, got, largest, target, start, moved, ever>>

(* Only the largest timestamp of what was yielded is committed. *)
Complete ==
    /\ pc = "yielded" /\ ~more
    /\ pc' = "idle"
    /\ since' = IF largest = -1 \/ (~Incremental /\ largest < since) THEN since ELSE largest
    /\ UNCHANGED <<Source, runs, Reading, target, start, moved, ever>>

Next ==
    \/ Create \/ Update \/ Delete
    \/ Begin \/ Retry \/ GiveUp \/ Receive \/ Malformed \/ NextPage \/ Complete

Spec == Init /\ [][Next]_vars

-----------------------------------------------------------------------------
(* Times, ids and the page. *)
TypeOK ==
    /\ table \in [Ids -> 0 .. MaxClock] /\ target \in [Ids -> 0 .. MaxClock]
    /\ pc \in {"idle", "paging", "yielded"}
    /\ attempt \in 0 .. MaxRetries /\ got <= PageSize
    /\ since <= clock /\ \A i \in Ids : table[i] <= clock

(* What disturbed the reader: for full reads in this extraction, for           *)
(* incremental ones in any so far, whose boundary may have passed a change.    *)
Disturbed == IF Incremental THEN ever' ELSE moved'

(* When an extraction completes, the target has every record as it was when    *)
(* the extraction began, or newer: offset pages skip nothing, and the boundary *)
(* of earlier extractions has left nothing behind.  Records that move or leave *)
(* while pages are read are the exception that docs/odoo.md names.             *)
CaughtUp ==
    Complete /\ ~Disturbed =>
            \A i \in Ids : table[i] # 0 => target[i] >= start[i]
=============================================================================
