---------------------------- MODULE SparkDriver -----------------------------
(***************************************************************************)
(* The driver of a Dataproc Serverless batch.  One attempt of a run reads  *)
(* a content-addressed configuration, accepts it only when the graph has   *)
(* one of three shapes and the physical plan is the plan of that graph,    *)
(* and executes it: count the sources, write them to exchanges in the      *)
(* staging bucket, project (and join) what the exchanges hold, overwrite   *)
(* the target table, read it back, and delete the exchanges.  Every Spark  *)
(* action reads the source tables again, and the tables may change.        *)
(***************************************************************************)
EXTENDS Naturals, FiniteSets

CONSTANTS
    Documents,    \* the configurations: a graph and the schema it claims
    Plans,        \* the physical plans
    Tables,       \* the contents a source table may have: sets of rows
    Executors,    \* the numbers of executors the managed runtime may start
    MaxAttempts,  \* bound on the attempts of the run
    MaxChanges,   \* bound on the changes of the source tables
    None

SparkAssumption == {MaxAttempts, MaxChanges} \subseteq Nat

VARIABLES
    doc, plan,    \* the configuration and plan of the run
    sources,      \* the rows of the table of each source node
    exchange,     \* the rows under each exchange path, or None
    target,       \* the rows of the target table
    attempt,      \* the attempt that runs, or ran last
    pc,           \* where the driver is
    counted,      \* the rows it counted, for each source
    expected,     \* the rows it expects to read back
    failure,      \* the first failure of the attempt, or None
    pending,      \* the exchanges it still has to delete
    reports,      \* the completion event of each attempt, or None
    changes

vars == <<doc, plan, sources, exchange, target, attempt, pc, counted, expected,
          failure, pending, reports, changes>>

-----------------------------------------------------------------------------
(* The contract: which graphs are executed, and with which plan.  A graph  *)
(* has nodes by type, the fields of each node with their types, edges with *)
(* their mappings (sets of pairs of a source and a target field), and the  *)
(* inputs and keys of a join.                                              *)

Fields(g, n) == DOMAIN g.types[n]

\* Mappings without repeated targets, between declared fields of one type.
PartialDirectMappings(g, from, to) ==
    LET m == g.maps[<<from, to>>]
    IN  /\ m # {}
        /\ \A p \in m : /\ p[1] \in Fields(g, from)
                        /\ p[2] \in Fields(g, to)
                        /\ g.types[from][p[1]] = g.types[to][p[2]]
        /\ \A p, q \in m : p[2] = q[2] => p = q

\* A complete edge also covers every field of the node it leads to.
DirectMappings(g, from, to) ==
    /\ PartialDirectMappings(g, from, to)
    /\ {p[2] : p \in g.maps[<<from, to>>]} = Fields(g, to)

NodeCounts(g) ==
    <<Cardinality(g.source), Cardinality(g.transform), Cardinality(g.target)>>

\* The source relations of the document bind exactly the sources.
Bound(d) == d.bound = d.graph.source

\* The target is replaced by a load job, with a strict schema and no keys.
TargetRelation(d) == d.writer = "replace"

\* one source, one transform without join, one target in a chain
LinearGraph(d) ==
    LET g == d.graph
    IN  /\ NodeCounts(g) = <<1, 1, 1>>
        /\ g.join = None
        /\ \E s \in g.source, t \in g.transform, o \in g.target :
            /\ DOMAIN g.maps = {<<s, t>>, <<t, o>>}
            /\ DirectMappings(g, s, t) /\ DirectMappings(g, t, o)
        /\ Bound(d) /\ TargetRelation(d)

\* the order of the two transforms that the edges form a chain with
Chain(g) ==
    {c \in g.transform \X g.transform :
        /\ c[1] # c[2]
        /\ \E s \in g.source, o \in g.target :
            DOMAIN g.maps = {<<s, c[1]>>, c, <<c[2], o>>}}

MultistageLinearGraph(d) ==
    LET g == d.graph
    IN  /\ NodeCounts(g) = <<1, 2, 1>>
        /\ g.join = None
        /\ Chain(g) # {}
        /\ \A e \in DOMAIN g.maps : DirectMappings(g, e[1], e[2])
        /\ Bound(d) /\ TargetRelation(d)

\* two sources joined on one key of one type; the joined fields are mapped once
KeyedJoinGraph(d) ==
    LET g == d.graph
    IN  /\ NodeCounts(g) = <<2, 1, 1>>
        /\ g.join # None
        /\ g.source = {g.join.left, g.join.right}
        /\ \E t \in g.transform, o \in g.target :
            LET l == <<g.join.left, t>>
                r == <<g.join.right, t>>
            IN  /\ DOMAIN g.maps = {l, r, <<t, o>>}
                /\ g.join.leftKey \in Fields(g, g.join.left)
                /\ g.join.rightKey \in Fields(g, g.join.right)
                /\ g.types[g.join.left][g.join.leftKey]
                        = g.types[g.join.right][g.join.rightKey]
                /\ PartialDirectMappings(g, l[1], t)
                /\ PartialDirectMappings(g, r[1], t)
                /\ \A p \in g.maps[l], q \in g.maps[r] : p[2] # q[2]
                /\ {p[2] : p \in g.maps[l] \cup g.maps[r]} = Fields(g, t)
                /\ DirectMappings(g, t, o)
        /\ Bound(d) /\ TargetRelation(d)

\* Between 2 and 2000 partitions, in every stage and exchange.
Partitions == 2..2000

LinearPlan(g, n) ==
    [stages |-> {[stage |-> "extract", operators |-> g.source, after |-> {}],
                 [stage |-> "transform", operators |-> g.transform \cup g.target,
                  after |-> {"extract"}]},
     exchanges |-> {[from |-> "extract", to |-> "transform", key |-> None]},
     partitions |-> n]

MultistageLinearPlan(g, n) ==
    LET c == CHOOSE x \in Chain(g) : TRUE
    IN  [stages |-> {[stage |-> "extract", operators |-> g.source, after |-> {}],
                     [stage |-> "transform-a", operators |-> {c[1]}, after |-> {"extract"}],
                     [stage |-> "transform-b", operators |-> {c[2]} \cup g.target,
                      after |-> {"transform-a"}]},
         exchanges |-> {[from |-> "extract", to |-> "transform-a", key |-> None],
                        [from |-> "transform-a", to |-> "transform-b", key |-> None]},
         partitions |-> n]

KeyedJoinPlan(g, n) ==
    [stages |-> {[stage |-> "extract-left", operators |-> {g.join.left}, after |-> {}],
                 [stage |-> "extract-right", operators |-> {g.join.right}, after |-> {}],
                 [stage |-> "join", operators |-> g.transform \cup g.target,
                  after |-> {"extract-left", "extract-right"}]},
     exchanges |-> {[from |-> "extract-left", to |-> "join", key |-> g.join.leftKey],
                    [from |-> "extract-right", to |-> "join", key |-> g.join.rightKey]},
     partitions |-> n]

\* parse_runtime_configuration: the schema selects the shape and its plan.
Accepted(d, p) ==
    /\ d.identity
    /\ p.partitions \in Partitions
    /\ CASE d.schema = "linear" ->
                LinearGraph(d) /\ p = LinearPlan(d.graph, p.partitions)
         [] d.schema = "multistage" ->
                MultistageLinearGraph(d) /\ p = MultistageLinearPlan(d.graph, p.partitions)
         [] OTHER ->
                KeyedJoinGraph(d) /\ p = KeyedJoinPlan(d.graph, p.partitions)

-----------------------------------------------------------------------------
(* Frames: sets of rows, where a row has an identity (the source rows it   *)
(* comes from) and a value for each field.                                 *)

The(S) == CHOOSE x \in S : TRUE

SourceOf(m, f) == The({p \in m : p[2] = f})[1]

ProjectFrameAsNamed(frame, m, fields) ==
    {[id |-> r.id,
      row |-> [f \in fields |-> r.row[IF f \in DOMAIN r.row THEN f ELSE SourceOf(m, f)]]]
        : r \in frame}

\* _project_frame
ProjectFrame(frame, m, fields) ==
    {[id |-> r.id, row |-> [f \in fields |-> r.row[SourceOf(m, f)]]] : r \in frame}

\* the inner join on the keys, and _project_join_frame
JoinFrames(g, left, right) ==
    LET t == The(g.transform)
        l == g.maps[<<g.join.left, t>>]
        r == g.maps[<<g.join.right, t>>]
    IN  {[id |-> <<x[1].id, x[2].id>>,
          row |-> [f \in Fields(g, t) |->
                      IF \E p \in l : p[2] = f
                      THEN x[1].row[SourceOf(l, f)]
                      ELSE x[2].row[SourceOf(r, f)]]]
            : x \in {y \in left \X right :
                        y[1].row[g.join.leftKey] = y[2].row[g.join.rightKey]}}

\* The exchange paths of an attempt: the run and the attempt are in the path.
Exchanges == {"extract-transform", "extract-transform-a", "transform-a-transform-b",
              "left-join", "right-join"}

Paths == (1..MaxAttempts) \X Exchanges

Path(name) == <<attempt, name>>

OwnedExchanges ==
    CASE doc.schema = "linear" -> {"extract-transform"}
      [] doc.schema = "multistage" -> {"extract-transform-a", "transform-a-transform-b"}
      [] OTHER -> {"left-join", "right-join"}

\* What the published frame evaluates to, from what the exchanges hold.
Published ==
    LET g == doc.graph
        o == The(g.target)
        held(name) == exchange[Path(name)]
        project(frame, from, to) == ProjectFrame(frame, g.maps[<<from, to>>], Fields(g, to))
    IN  CASE doc.schema = "linear" ->
                LET t == The(g.transform)
                IN  project(project(held("extract-transform"), The(g.source), t), t, o)
          [] doc.schema = "multistage" ->
                LET c == The(Chain(g))
                IN  project(project(held("transform-a-transform-b"), c[1], c[2]), c[2], o)
          [] OTHER ->
                project(JoinFrames(g, held("left-join"), held("right-join")),
                        The(g.transform), o)

-----------------------------------------------------------------------------

Init ==
    /\ doc \in Documents
    /\ plan \in Plans
    /\ sources \in [doc.graph.source -> Tables]
    /\ exchange = [x \in Paths |-> None]
    /\ target = {}
    /\ attempt = 0
    /\ pc = "idle"
    /\ counted = None
    /\ expected = None
    /\ failure = None
    /\ pending = {}
    /\ reports = [a \in 1..MaxAttempts |-> None]
    /\ changes = 0

\* A source table is written while the driver is at work.
SourceChanges ==
    /\ changes < MaxChanges
    /\ changes' = changes + 1
    /\ \E s \in DOMAIN sources, t \in Tables :
            t # sources[s] /\ sources' = [sources EXCEPT ![s] = t]
    /\ UNCHANGED <<doc, plan, exchange, target, attempt, pc, counted, expected,
                   failure, pending, reports>>

\* Control launches the next attempt after the batch of the last one is over.
Begin ==
    /\ pc = "idle"
    /\ attempt < MaxAttempts
    /\ \A a \in 1..MaxAttempts : reports[a] # "succeeded"
    /\ attempt' = attempt + 1
    /\ pc' = "configuration"
    /\ counted' = None
    /\ expected' = None
    /\ failure' = None
    /\ pending' = {}
    /\ UNCHANGED <<doc, plan, sources, exchange, target, reports, changes>>

\* An exception of any stage goes through the finally clause.
Raise(code) ==
    /\ failure' = code
    /\ pc' = "cleanup"

\* No dynamic allocation, and one executor for each partition.
PlannedExecutors(n) == n = plan.partitions

\* The configuration is read and accepted, and the executors are the planned ones.
Configure ==
    /\ pc = "configuration"
    /\ \E n \in Executors :
        IF Accepted(doc, plan) /\ PlannedExecutors(n)
        THEN /\ pc' = "source_read"
             /\ pending' = OwnedExchanges
             /\ UNCHANGED failure
        ELSE /\ Raise("configuration")
             /\ UNCHANGED pending
    /\ UNCHANGED <<doc, plan, sources, exchange, target, attempt, counted, expected,
                   reports, changes>>

\* Every source is counted by an action of its own.
CountSource ==
    /\ pc = "source_read"
    /\ LET done == IF counted = None THEN {} ELSE DOMAIN counted
       IN  \E s \in doc.graph.source \ done :
            /\ (doc.schema = "join" /\ done = {}) => s = doc.graph.join.left
            /\ counted' = [x \in done \cup {s} |->
                            IF x = s THEN Cardinality(sources[s]) ELSE counted[x]]
            /\ pc' = IF done \cup {s} = doc.graph.source THEN "exchange_write" ELSE pc
    /\ UNCHANGED <<doc, plan, sources, exchange, target, attempt, expected, failure,
                   pending, reports, changes>>

\* The exchanges in the order they are written, and the rows written to each.
Written == {x \in OwnedExchanges : exchange[Path(x)] # None}

NextExchange ==
    CASE doc.schema = "linear" -> "extract-transform"
      [] doc.schema = "multistage" ->
            IF Written = {} THEN "extract-transform-a" ELSE "transform-a-transform-b"
      [] OTHER -> IF Written = {} THEN "left-join" ELSE "right-join"

Rows(name) ==
    LET g == doc.graph
    IN  CASE name = "transform-a-transform-b" ->
                LET c == The(Chain(g))
                    s == The(g.source)
                IN  ProjectFrame(exchange[Path("extract-transform-a")],
                                 g.maps[<<s, c[1]>>], Fields(g, c[1]))
          [] name = "left-join" -> sources[g.join.left]
          [] name = "right-join" -> sources[g.join.right]
          [] OTHER -> sources[The(g.source)]

\* write.mode("errorifexists"): a path that holds something is an error.
WriteExchange ==
    /\ pc = "exchange_write"
    /\ IF exchange[Path(NextExchange)] # None
       THEN Raise("exchange_write") /\ UNCHANGED exchange
       ELSE /\ exchange' = [exchange EXCEPT ![Path(NextExchange)] = Rows(NextExchange)]
            /\ pc' = IF Written \cup {NextExchange} = OwnedExchanges
                     THEN "transform" ELSE pc
            /\ UNCHANGED failure
    /\ UNCHANGED <<doc, plan, sources, target, attempt, counted, expected, pending,
                   reports, changes>>

\* A join counts what it is about to publish; a chain expects its source rows.
Transform ==
    /\ pc = "transform"
    /\ expected' = IF doc.schema = "join" THEN Cardinality(Published)
                   ELSE counted[The(doc.graph.source)]
    /\ pc' = "bigquery_write"
    /\ UNCHANGED <<doc, plan, sources, exchange, target, attempt, counted, failure,
                   pending, reports, changes>>

WriteTarget ==
    /\ pc = "bigquery_write"
    /\ target' = Published
    /\ pc' = "bigquery_readback"
    /\ UNCHANGED <<doc, plan, sources, exchange, attempt, counted, expected, failure,
                   pending, reports, changes>>

ReadBack ==
    /\ pc = "bigquery_readback"
    /\ IF Cardinality(target) = expected
       THEN pc' = "cleanup" /\ UNCHANGED failure
       ELSE Raise("readback_mismatch")
    /\ UNCHANGED <<doc, plan, sources, exchange, target, attempt, counted, expected,
                   pending, reports, changes>>

\* A Spark action fails at some stage.
StageFails ==
    /\ pc \in {"source_read", "exchange_write", "transform", "bigquery_write",
               "bigquery_readback"}
    /\ Raise(pc)
    /\ UNCHANGED <<doc, plan, sources, exchange, target, attempt, counted, expected,
                   pending, reports, changes>>

\* _delete_exchange: an error of the delete counts unless the path is gone.
DeleteExchange ==
    /\ pc = "cleanup"
    /\ \E x \in pending :
        /\ pending' = pending \ {x}
        /\ \/ /\ exchange' = [exchange EXCEPT ![Path(x)] = None]
              /\ UNCHANGED failure
           \/ /\ UNCHANGED exchange
              /\ failure' = "cleanup"
    /\ UNCHANGED <<doc, plan, sources, target, attempt, pc, counted, expected, reports,
                   changes>>

\* The session stops, and main prints one completion event; a cleanup error
\* replaces the result.
Report ==
    /\ pc = "cleanup"
    /\ pending = {}
    /\ reports' = [reports EXCEPT ![attempt] =
                    IF failure = None THEN "succeeded" ELSE "failed"]
    /\ pc' = "idle"
    /\ UNCHANGED <<doc, plan, sources, exchange, target, attempt, counted, expected,
                   failure, pending, changes>>

\* The batch is stopped, or its driver is lost, at any point.
Killed ==
    /\ pc # "idle"
    /\ pc' = "idle"
    /\ UNCHANGED <<doc, plan, sources, exchange, target, attempt, counted, expected,
                   failure, pending, reports, changes>>

Drive ==
    \/ Configure \/ CountSource \/ WriteExchange \/ Transform \/ WriteTarget
    \/ ReadBack \/ DeleteExchange \/ Report

Next ==
    \/ SourceChanges \/ Begin \/ Drive \/ StageFails \/ Killed

Spec == Init /\ [][Next]_vars

-----------------------------------------------------------------------------

\* Every stage, count, failure and report is one of its kind.
TypeOK ==
    /\ attempt \in 0..MaxAttempts
    /\ pc \in {"idle", "configuration", "source_read", "exchange_write", "transform",
               "bigquery_write", "bigquery_readback", "cleanup"}
    /\ pending \subseteq Exchanges
    /\ DOMAIN exchange = Paths
    /\ \A a \in 1..MaxAttempts : reports[a] \in {None, "succeeded", "failed"}

\* What a field of a node means: the source nodes and fields it is mapped from,
\* found by following the mappings of the graph back to the sources.
MappedFrom(g, x) ==
    UNION {{<<e[1], p[1]>> : p \in {q \in g.maps[e] : q[2] = x[2]}}
            : e \in {d \in DOMAIN g.maps : d[2] = x[1]}}

Origins(g, n, f) ==
    LET back(S) == UNION {IF x[1] \in g.source THEN {x} ELSE MappedFrom(g, x) : x \in S}
    IN  back(back(back({<<n, f>>})))

\* A row of the target is made of one row of each source, every field holds the
\* value of the one source field the graph maps it from, and a joined row's keys
\* are equal; and every such combination is there (the three run_spark branches).
TargetMeansGraph ==
    pc = "bigquery_readback" =>
        LET g == doc.graph
            o == The(g.target)
            read(s) == CASE doc.schema = "linear" -> exchange[Path("extract-transform")]
                         [] doc.schema = "multistage" -> exchange[Path("extract-transform-a")]
                         [] OTHER -> exchange[Path(IF s = g.join.left THEN "left-join"
                                                   ELSE "right-join")]
            combos == {c \in [g.source -> UNION {read(s) : s \in g.source}] :
                        /\ \A s \in g.source : c[s] \in read(s)
                        /\ g.join # None =>
                            c[g.join.left].row[g.join.leftKey]
                                = c[g.join.right].row[g.join.rightKey]}
            value(c, f) == LET origin == The(Origins(g, o, f))
                           IN  c[origin[1]].row[origin[2]]
        IN  /\ \A f \in Fields(g, o) : Cardinality(Origins(g, o, f)) = 1
            /\ target = {[id |-> IF g.join = None THEN c[The(g.source)].id
                                 ELSE <<c[g.join.left].id, c[g.join.right].id>>,
                          row |-> [f \in Fields(g, o) |-> value(c, f)]] : c \in combos}

\* No value of a target row has another type than the target declares.
TargetWellTyped ==
    \A r \in target : \A f \in DOMAIN r.row :
        r.row[f][1] = doc.graph.types[The(doc.graph.target)][f]

\* The paths of an attempt are its own: what a killed attempt left behind never
\* stops a later one, whose exchange paths are free when it writes them.
ExchangesAreFresh ==
    pc = "exchange_write" => exchange[Path(NextExchange)] = None

\* "exchange_cleanup": "confirmed" is reported only by an attempt whose exchanges
\* are gone, and with as many rows in the target as it expected.
SuccessIsClean ==
    \A a \in 1..MaxAttempts :
        reports[a] = "succeeded" =>
            /\ \A x \in Exchanges : exchange[<<a, x>>] = None
            /\ a = attempt => Cardinality(target) = expected

\* Only the attempt that made an exchange removes it: a running attempt's input
\* cannot disappear under it.
OthersExchangesKept ==
    \A x \in Paths : x[1] # attempt => exchange'[x] = exchange[x]
=============================================================================
