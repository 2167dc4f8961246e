---------------------------- MODULE OutputRepair ----------------------------
(* Publication of a pipeline graph's outputs to BigQuery, and the repair of   *)
(* a date window of those outputs from the raw rows already retained           *)
(* (pipeline/runtime.py, pipeline/repair.py, providers/bigquery/graph.py).     *)
(*                                                                             *)
(* An ordinary run ingests new raw rows and replaces every output; a repair    *)
(* reads no source, stages the graph's current result and replaces only the    *)
(* window.  Runs take the pipeline's lease in turn; a run whose lease ran out   *)
(* carries on until its next check.                                            *)
EXTENDS Integers, FiniteSets, Sequences

CONSTANTS
    Connector,  \* the pipeline's connector
    Endpoints,  \* its endpoints: name -> [fields, cursor]
    Graphs,     \* the saved graphs a run may plan (see Executable)
    Raw,        \* the relation the connector's endpoint lands in
    Relations,  \* every relation, Raw among them
    Keys,       \* business keys: positive numbers
    Days,       \* dates: positive numbers
    Vals,       \* what else tells two rows apart: positive numbers
    MaxRuns,    \* bound: runs started
    RawStates,  \* the sets of rows an ingestion may leave behind
    MaxIngests  \* bound: ingestions that change the raw rows

NoRowKey == 0      \* a NULL business key
Undated == 0    \* a NULL partition value

Row == [key : Keys \cup {NoRowKey}, day : Days \cup {Undated}, val : Vals]

VARIABLES
    graph,      \* the saved graph
    rel,        \* Relations -> the set of rows it holds
    asof,       \* Relations -> the ingestion its newest rows come from (history)
    ingests,    \* how often the raw rows changed
    holder,     \* the run that holds the lease, 0 for none
    runs        \* the runs started so far, each a record

vars == <<graph, rel, asof, ingests, holder, runs>>

Run == 1..Len(runs)

------------------------------------------------------------------------------
(* Planning.                                                                    *)

(* GraphRepairWindow: UTC dates, start inclusive, end exclusive, non-empty.      *)
Windows == {w \in [start : Days, end : Days \cup {1 + CHOOSE d \in Days : \A e \in Days : e <= d}] :
              w.end > w.start}

InWindow(w, row) == row.day # Undated /\ w.start <= row.day /\ row.day < w.end

(* plan_graph_execution without its repair checks: every source is bound to    *)
(* the pipeline's own connector and a known endpoint of it, every target       *)
(* replaces a relation.                                                        *)
Executable(g) ==
    /\ g.sources # {} /\ g.targets # <<>>
    /\ \A s \in g.sources :
         /\ s.connector = Connector /\ ~ s.inline
         /\ s.endpoint \in DOMAIN Endpoints
         /\ s.fields \subseteq Endpoints[s.endpoint].fields
         /\ s.cursor \in {"", Endpoints[s.endpoint].cursor}
    /\ \A i \in DOMAIN g.targets : g.targets[i].mode = "replace"

(* plan_graph_repair and the end of plan_graph_execution: each output has a     *)
(* date partition and a declared scalar key, and no two outputs, nor an output  *)
(* and a raw input, share a relation.                                          *)
Repairable(g) ==
    /\ \A i \in DOMAIN g.targets : g.targets[i].partition \in {"DATE", "TIMESTAMP"}
                                   /\ g.targets[i].keyed
    /\ \A i, j \in DOMAIN g.targets : g.targets[i].dest = g.targets[j].dest => i = j
    /\ \A i \in DOMAIN g.targets : g.targets[i].dest # Raw

(* compiled.render: what the query of output i returns over the raw rows.      *)
Query(i, rows) == IF i = 1 THEN rows ELSE {row \in rows : row.val = 1}

------------------------------------------------------------------------------
Init ==
    /\ graph \in Graphs
    /\ rel = [r \in Relations |-> {}]
    /\ asof = [r \in Relations |-> 0]
    /\ ingests = 0
    /\ holder = 0
    /\ runs = <<>>

Targets == graph.targets
Dest(r) == Targets[runs[r].out].dest
Set(r, rec) == runs' = [runs EXCEPT ![r] = rec]
End(r, pc) == Set(r, [runs[r] EXCEPT !.pc = pc, !.staged = {}, !.at = 0, !.out = 1])
Fail(r) == End(r, "failed")
Live(r) == runs[r].pc \notin {"failed", "done"}

(* A repair that was planned; the lease is free.  Planning comes before any     *)
(* client is built, so a graph it refuses starts nothing.                      *)
StartRepair ==
    /\ holder = 0 /\ Len(runs) < MaxRuns
    /\ Executable(graph) /\ Repairable(graph)
    /\ \E w \in Windows :
         runs' = Append(runs, [kind |-> "repair", window |-> w, pc |-> "verify", out |-> 1,
                               staged |-> {}, at |-> 0])
    /\ holder' = Len(runs) + 1
    /\ UNCHANGED <<graph, rel, asof, ingests>>

(* An ordinary run.                                                            *)
StartOrdinary ==
    /\ holder = 0 /\ Len(runs) < MaxRuns
    /\ Executable(graph)
    /\ runs' = Append(runs, [kind |-> "ordinary", window |-> CHOOSE w \in Windows : TRUE,
                             pc |-> "ingest", out |-> 1, staged |-> {}, at |-> 0])
    /\ holder' = Len(runs) + 1
    /\ UNCHANGED <<graph, rel, asof, ingests>>

(* The ordinary run's ingestion: its writers are fenced by the lease, so only   *)
(* the holder changes the raw rows.                                            *)
Ingest(r) ==
    /\ runs[r].pc = "ingest" /\ holder = r
    /\ \/ UNCHANGED <<rel, ingests, asof>>
       \/ /\ ingests < MaxIngests
          /\ \E rows \in RawStates :
               /\ rows # rel[Raw] /\ rel' = [rel EXCEPT ![Raw] = rows]
          /\ ingests' = ingests + 1
          /\ asof' = [asof EXCEPT ![Raw] = ingests + 1]
    /\ Set(r, [runs[r] EXCEPT !.pc = "verify"])
    /\ UNCHANGED <<graph, holder>>

(* _materialize: ownership.verify() before the staging query.                   *)
Verify(r) ==
    /\ runs[r].pc \in {"verify", "verify2"}
    /\ IF holder = r
       THEN Set(r, [runs[r] EXCEPT !.pc = IF @ = "verify" THEN "stage" ELSE "publish"])
       ELSE Fail(r)
    /\ UNCHANGED <<graph, rel, asof, ingests, holder>>

(* CREATE TABLE staging AS query, and for an ordinary run the target if absent.  *)
Stage(r) ==
    /\ runs[r].pc = "stage"
    /\ Set(r, [runs[r] EXCEPT !.pc = "verify2", !.at = asof[Raw],
                              !.staged = Query(runs[r].out, rel[Raw])])
    /\ UNCHANGED <<graph, rel, asof, ingests, holder>>

(* The assertions of _repair_dml over the staged rows s and the output t.       *)
UniqueIn(rows) == \A a, b \in rows : a.key = b.key => a = b

Selected(w, rows) == {row \in rows : InWindow(w, row)}

(* NOT (day >= start AND day < end) is NULL for an undated row: without the      *)
(* COALESCE the row is not counted as lying outside the window.                 *)
NoKeyMoves(w, from, to) ==
    \A a \in Selected(w, from), b \in to : (a.key = b.key /\ a.key # NoRowKey) => InWindow(w, b)

MutRepairAssertsOneWay(w, s, t) ==
    /\ \A rows \in {s, t} : /\ \A row \in Selected(w, rows) : row.key # NoRowKey
                            /\ UniqueIn(Selected(w, rows))
    /\ NoKeyMoves(w, s, t)

RepairAsserts(w, s, t) ==
    /\ \A rows \in {s, t} : /\ \A row \in Selected(w, rows) : row.key # NoRowKey
                            /\ UniqueIn(Selected(w, rows))
    /\ NoKeyMoves(w, s, t)
    /\ NoKeyMoves(w, t, s)

(* What the transaction leaves in the output.                                  *)
Replaced(kind, w, s, t) ==
    IF kind = "ordinary" THEN s ELSE (t \ Selected(w, t)) \cup Selected(w, s)

(* fenced_dml: the lease row is touched in the same transaction.                *)
Fenced(r) == holder = r

(* The transaction commits; the answer may be lost, and the script is then      *)
(* submitted again (retry_mutation).                                           *)
Publish(r) ==
    /\ runs[r].pc = "publish" /\ Fenced(r)
    /\ LET run == runs[r]
       IN  /\ run.kind = "repair" => RepairAsserts(run.window, run.staged, rel[Dest(r)])
           /\ rel' = [rel EXCEPT ![Dest(r)] = Replaced(run.kind, run.window, run.staged, @)]
           /\ asof' = [asof EXCEPT ![Dest(r)] = run.at]
           /\ \/ runs' = runs
              \/ /\ run.out < Len(Targets)
                 /\ Set(r, [run EXCEPT !.out = @ + 1, !.pc = "verify", !.staged = {}])
              \/ run.out = Len(Targets) /\ End(r, "done")
    /\ UNCHANGED <<graph, ingests, holder>>

(* The transaction aborts: the lease is lost or an assertion fails.             *)
Refuse(r) ==
    /\ runs[r].pc = "publish"
    /\ \/ ~ Fenced(r)
       \/ runs[r].kind = "repair" /\ ~ RepairAsserts(runs[r].window, runs[r].staged, rel[Dest(r)])
    /\ Fail(r)
    /\ UNCHANGED <<graph, rel, asof, ingests, holder>>

(* A query fails, or the process dies: the outputs published so far remain.     *)
Crash(r) ==
    /\ Live(r)
    /\ Fail(r)
    /\ UNCHANGED <<graph, rel, asof, ingests, holder>>

(* The holder ends and releases the lease, or its lease runs out.               *)
LoseLease ==
    /\ holder # 0
    /\ holder' = 0
    /\ UNCHANGED <<graph, rel, asof, ingests, runs>>

Step(r) == Ingest(r) \/ Verify(r) \/ Stage(r) \/ Publish(r) \/ Refuse(r)

Next ==
    \/ StartRepair \/ StartOrdinary \/ LoseLease
    \/ \E r \in Run : Step(r) \/ Crash(r)

Spec == Init /\ [][Next]_vars

------------------------------------------------------------------------------
Repairing(r) == runs[r].kind = "repair" /\ Publish(r)

(* Types: at most one run holds the lease, outputs hold rows.                   *)
TypeOK ==
    /\ holder \in 0..Len(runs)
    /\ \A x \in Relations : rel[x] \subseteq Row /\ asof[x] \in 0..MaxIngests
    /\ \A r \in Run : runs[r].pc \in {"ingest", "verify", "stage", "verify2", "publish", "failed", "done"}

KeysTwice(rows) == {k \in Keys : \E a, b \in rows : a # b /\ a.key = k /\ b.key = k}

(* A repair never leaves a business key twice in an output that held it once:   *)
(* the collision assertions look at undated and unselected rows too             *)
(* (docs/output-repair.md: keys that move across the boundary are rejected).     *)
NeverMakesDuplicates ==
    \A r \in Run : Repairing(r) => KeysTwice(rel'[Dest(r)]) \subseteq KeysTwice(rel[Dest(r)])

KeysOf(rows) == {row.key : row \in rows} \ {NoRowKey}

(* A key that is in the output and still in the retained rows is in the output   *)
(* after the repair: one that moved out of the window is never just deleted.    *)
NoKeyVanishes ==
    \A r \in Run : Repairing(r) =>
          KeysOf(rel[Dest(r)]) \cap KeysOf(runs[r].staged) \subseteq KeysOf(rel'[Dest(r)])

(* Rows outside the window, the undated ones included, are left as they were.    *)
OutsideUntouched ==
    \A r \in Run : Repairing(r) =>
          rel'[Dest(r)] \ Selected(runs[r].window, rel'[Dest(r)])
            = rel[Dest(r)] \ Selected(runs[r].window, rel[Dest(r)])

(* No publication replaces an output by the result of older raw rows than those  *)
(* it already shows: a run that lost its lease publishes nothing.               *)
NeverOlder == \A x \in Relations : asof'[x] >= asof[x]

(* A repair never changes the raw rows it reads, whatever the graph's outputs.   *)
RawKept == \A r \in Run : Repairing(r) => rel'[Raw] = rel[Raw]

(* Once a repair is done and nothing started after it, each output's window is    *)
(* what its own query returns over the current raw rows.                        *)
RepairedAgrees ==
    \A r \in Run : (runs[r].pc = "done" /\ runs[r].kind = "repair" /\ r = Len(runs)) =>
        \A i \in DOMAIN Targets :
            Selected(runs[r].window, rel[Targets[i].dest])
                = Selected(runs[r].window, Query(i, rel[Raw]))
=============================================================================
