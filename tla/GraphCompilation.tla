--------------------------- MODULE GraphCompilation ---------------------------
(* From a pipeline graph to one target's query: the structural validation with *)
(* its three-colour depth-first search (graph_ops.py), the field wiring checks, *)
(* and the recursive builder of common table expressions (compiler.py).         *)
(*                                                                              *)
(* Every node has the fields "a" and "b" or some of them; a mapping of an edge  *)
(* is a function from fields of its target to fields of its source.  Types,     *)
(* casts and scalar expressions are left out: they rewrite one column of one    *)
(* CTE.  A relation is the set of its rows.                                     *)
EXTENDS Integers, Sequences, FiniteSets, SequencesExt, TLC

CONSTANTS
    Graphs,     \* the graphs to compile
    Target,     \* the node id compile_target is called with
    Rows,       \* [source node -> rows of its relation]
    NULL, None

VARIABLES
    g,          \* the graph
    phase,      \* "ids", "edges", "search", "wiring", "compile", "done" or "failed"
    why,        \* the error
    color, order, path,     \* the search: path is stack_path, with positions
    ctes, alias, frames     \* the builder: frames is the stack of compile_node calls

vars == <<g, phase, why, color, order, path, ctes, alias, frames>>

Ids == Range(g.ids)

Successors(n) ==
    LET out == SelectSeq(g.edges, LAMBDA e : e.source = n)
    IN  [i \in DOMAIN out |-> out[i].target]

Incoming(n) == SelectSeq(g.edges, LAMBDA e : e.target = n)

Init ==
    /\ g \in Graphs
    /\ phase = "ids" /\ why = None
    /\ color = [n \in Ids |-> "white"] /\ order = <<>> /\ path = <<>>
    /\ ctes = <<>> /\ alias = [n \in {} |-> 0] /\ frames = <<>>

Search == <<color, order, path>>
Builder == <<ctes, alias, frames>>

FailAlong(error, cycle) ==
    /\ phase' = "failed" /\ why' = [error |-> error, path |-> cycle]
    /\ UNCHANGED <<g, Search, Builder>>

Fail(error) == FailAlong(error, <<>>)

-----------------------------------------------------------------------------
(* validate *)

CheckIds ==
    /\ phase = "ids"
    /\ IF IsInjective(g.ids)
       THEN phase' = "edges" /\ UNCHANGED <<g, why, Search, Builder>>
       ELSE Fail("duplicate id")

CheckEdges ==
    /\ phase = "edges"
    /\ IF \E i \in DOMAIN g.edges : ~({g.edges[i].source, g.edges[i].target} \subseteq Ids)
       THEN Fail("dangling edge")
       ELSE IF \E i \in DOMAIN g.edges : g.edges[i].source = g.edges[i].target
            THEN Fail("self loop")
            ELSE phase' = "search" /\ UNCHANGED <<g, why, Search, Builder>>

(* visit: white nodes turn grey on the way down and black on the way up. *)
Enter(n) ==
    /\ color' = [color EXCEPT ![n] = "grey"]
    /\ path' = Append(path, [node |-> n, next |-> 1])

VisitRoot ==
    /\ phase = "search" /\ path = <<>>
    /\ \E i \in DOMAIN g.ids :
        /\ color[g.ids[i]] = "white"
        /\ \A j \in 1 .. i - 1 : color[g.ids[j]] # "white"
        /\ Enter(g.ids[i])
    /\ UNCHANGED <<g, phase, why, order, Builder>>

Neighbor == Successors(Last(path).node)[Last(path).next]
HasNeighbor == path # <<>> /\ Last(path).next <= Len(Successors(Last(path).node))

(* The next neighbour of the node at the end of the path. *)
Advanced == [path EXCEPT ![Len(path)].next = @ + 1]

VisitNeighbor ==
    /\ phase = "search" /\ HasNeighbor
    /\ color[Neighbor] = "white"
    /\ color' = [color EXCEPT ![Neighbor] = "grey"]
    /\ path' = Append(Advanced, [node |-> Neighbor, next |-> 1])
    /\ UNCHANGED <<g, phase, why, order, Builder>>

FinishedNeighbor(c) == c = "black"

SkipNeighbor ==
    /\ phase = "search" /\ HasNeighbor
    /\ FinishedNeighbor(color[Neighbor])
    /\ path' = Advanced
    /\ UNCHANGED <<g, phase, why, color, order, Builder>>

Cycle ==
    LET nodes == [i \in DOMAIN path |-> path[i].node]
        start == CHOOSE i \in DOMAIN path : nodes[i] = Neighbor
    IN  Append(SubSeq(nodes, start, Len(nodes)), Neighbor)

FindCycle ==
    /\ phase = "search" /\ HasNeighbor
    /\ color[Neighbor] = "grey" /\ ~FinishedNeighbor(color[Neighbor])
    /\ FailAlong("cycle", Cycle)

(* The order is reversed at the end: what is finished last comes first. *)
WithFinished(n) == <<n>> \o order

Blacken(n) == [color EXCEPT ![n] = "black"]

Leave ==
    /\ phase = "search" /\ path # <<>> /\ ~HasNeighbor
    /\ color' = Blacken(Last(path).node)
    /\ order' = WithFinished(Last(path).node)
    /\ path' = Front(path)
    /\ UNCHANGED <<g, phase, why, Builder>>

Ordered ==
    /\ phase = "search" /\ path = <<>>
    /\ \A n \in Ids : color[n] = "black"
    /\ phase' = "wiring"
    /\ UNCHANGED <<g, why, Search, Builder>>

(* validate_field_wiring: what a mapping or an operation names is declared. *)
Wired ==
    /\ \A i \in DOMAIN g.edges :
        LET e == g.edges[i] IN
        /\ Range(e.map) \subseteq g.fields[e.source]
        /\ DOMAIN e.map \subseteq g.fields[e.target]
    /\ \A n \in Ids : g.ops[n] # <<>> => "a" \in g.fields[n]

CheckWiring ==
    /\ phase = "wiring"
    /\ IF ~Wired THEN Fail("unknown field")
       ELSE IF g.type[Target] # "target" THEN Fail("not a target")
            ELSE /\ phase' = "compile"
                 /\ frames' = <<Target>>
                 /\ UNCHANGED <<g, why, Search, ctes, alias>>

-----------------------------------------------------------------------------
(* The builder.  A frame is a call of compile_node that is not in the memo. *)

Node == Last(frames)
Joined(n) == g.join[n] # None

CompiledAs(n, a) == [m \in DOMAIN alias \cup {n} |-> IF m = n THEN a ELSE alias[m]]

(* _next_alias counts the CTEs. *)
NextAlias == Len(ctes)

Add(cte) == ctes' = Append(ctes, cte @@ [name |-> NextAlias])

CompileSource ==
    /\ phase = "compile" /\ frames # <<>> /\ g.type[Node] = "source"
    /\ IF Incoming(Node) # <<>> \/ Node \notin DOMAIN Rows
       THEN Fail("source")
       ELSE /\ Add([op |-> "scan", of |-> Node, from |-> {}])
            /\ alias' = CompiledAs(Node, NextAlias)
            /\ frames' = Front(frames)
            /\ UNCHANGED <<g, phase, why, Search>>

(* The inputs compile_node asks for: one edge without a join, or the two of one. *)
Inputs(n) ==
    LET edges == Incoming(n) IN
    CASE Len(edges) = 1 /\ ~Joined(n) -> <<edges[1].source>>
      [] Len(edges) = 2 /\ Joined(n) /\ {edges[1].source, edges[2].source} = {g.join[n].left, g.join[n].right} ->
            <<g.join[n].left, g.join[n].right>>
      [] OTHER -> <<>>

EdgeFrom(m, n) == CHOOSE e \in Range(g.edges) : e.source = m /\ e.target = n

Compiles(n) == g.type[n] \in {"transform", "target"}

RefuseNode ==
    /\ phase = "compile" /\ frames # <<>> /\ g.type[Node] # "source"
    /\ ~Compiles(Node) \/ Inputs(Node) = <<>>
    /\ Fail("not executable")

Missing == SelectSeq(Inputs(Node), LAMBDA m : m \notin DOMAIN alias)

(* Dependencies first, from left to right. *)
Descend ==
    /\ phase = "compile" /\ frames # <<>> /\ Compiles(Node) /\ Missing # <<>>
    /\ frames' = Append(frames, Missing[1])
    /\ UNCHANGED <<g, phase, why, Search, ctes, alias>>

(* Every field of the node is mapped by exactly one mapping of its edges. *)
Complete(n) ==
    LET in == Inputs(n) IN
    /\ \A i \in DOMAIN in : DOMAIN EdgeFrom(in[i], n).map # {}
    /\ \A f \in g.fields[n] : \E i \in DOMAIN in : f \in DOMAIN EdgeFrom(in[i], n).map
    /\ \A i, j \in DOMAIN in :
        i # j => DOMAIN EdgeFrom(in[i], n).map \cap DOMAIN EdgeFrom(in[j], n).map = {}

Projection(n) ==
    LET in == Inputs(n)
        maps == [i \in DOMAIN in |-> EdgeFrom(in[i], n).map]
    IN  [op |-> IF Joined(n) THEN g.join[n].type ELSE "select",
         fields |-> g.fields[n], maps |-> maps,
         sides |-> [i \in DOMAIN in |-> alias[in[i]]],
         from |-> {alias[in[i]] : i \in DOMAIN in}]

Project ==
    /\ phase = "compile" /\ frames # <<>> /\ Compiles(Node) /\ Inputs(Node) # <<>> /\ Missing = <<>>
    /\ Node \notin DOMAIN alias
    /\ IF ~Complete(Node) THEN Fail("mappings")
       ELSE /\ Add(Projection(Node))
            /\ alias' = CompiledAs(Node, NextAlias)
            /\ UNCHANGED <<g, phase, why, Search, frames>>

(* Each operation of a transform is one more CTE, and the node's alias moves on. *)
OperationsDone(n) == Cardinality({i \in DOMAIN ctes : "node" \in DOMAIN ctes[i] /\ ctes[i].node = n})

(* The memo keeps the alias of the projection. *)
MemoOfProjection(n) == alias

MemoOfOperation(n) == CompiledAs(n, NextAlias)

LastOf(n) ==
    LET mine == {i \in DOMAIN ctes : "node" \in DOMAIN ctes[i] /\ ctes[i].node = n}
    IN  IF mine = {} THEN alias[n] ELSE ctes[CHOOSE i \in mine : \A j \in mine : j <= i].name

AppendOperation ==
    /\ phase = "compile" /\ frames # <<>> /\ Node \in DOMAIN alias
    /\ g.type[Node] = "transform" /\ OperationsDone(Node) < Len(g.ops[Node])
    /\ Add([op |-> g.ops[Node][OperationsDone(Node) + 1], node |-> Node, from |-> {LastOf(Node)}])
    /\ alias' = MemoOfOperation(Node)
    /\ UNCHANGED <<g, phase, why, Search, frames>>

Return ==
    /\ phase = "compile" /\ frames # <<>> /\ Node \in DOMAIN alias
    /\ g.type[Node] = "transform" => OperationsDone(Node) = Len(g.ops[Node])
    /\ frames' = Front(frames)
    /\ phase' = IF Len(frames) = 1 THEN "done" ELSE phase
    /\ UNCHANGED <<g, why, Search, ctes, alias>>

Next ==
    \/ CheckIds \/ CheckEdges \/ VisitRoot \/ VisitNeighbor \/ SkipNeighbor \/ FindCycle \/ Leave
    \/ Ordered \/ CheckWiring \/ CompileSource \/ RefuseNode \/ Descend \/ Project
    \/ AppendOperation \/ Return

Spec == Init /\ [][Next]_vars

-----------------------------------------------------------------------------
(* What SQL makes of the CTEs. *)

Select(rows, fields, map) == {[f \in fields |-> r[map[f]]] : r \in rows}

Pick(fields, maps, l, r) ==
    [f \in fields |-> IF f \in DOMAIN maps[1] THEN l[maps[1][f]] ELSE r[maps[2][f]]]

Blank == [f \in {"a", "b"} |-> NULL]

(* Equality of the keys "a"; NULL equals nothing. *)
Match(l, r) == l["a"] # NULL /\ r["a"] # NULL /\ l["a"] = r["a"]

JoinRows(type, left, right, fields, maps) ==
    {Pick(fields, maps, p[1], p[2]) : p \in {q \in left \X right : Match(q[1], q[2])}}
    \cup (IF type \in {"left", "full"}
          THEN {Pick(fields, maps, l, Blank) : l \in {x \in left : \A r \in right : ~Match(x, r)}} ELSE {})
    \cup (IF type \in {"right", "full"}
          THEN {Pick(fields, maps, Blank, r) : r \in {x \in right : \A l \in left : ~Match(l, x)}} ELSE {})

Operate(op, rows) ==
    CASE op = "filter" -> {r \in rows : r["a"] # NULL /\ r["a"] = 1}
      [] op = "default" -> {[r EXCEPT !["a"] = IF @ = NULL THEN 1 ELSE @] : r \in rows}

Named(n) == CHOOSE i \in DOMAIN ctes : ctes[i].name = n

RECURSIVE Value(_)
Value(i) ==
    LET c == ctes[i] IN
    CASE c.op = "scan" -> Rows[c.of]
      [] c.op = "select" -> Select(Value(Named(c.sides[1])), c.fields, c.maps[1])
      [] c.op \in {"inner", "left", "right", "full"} ->
            JoinRows(c.op, Value(Named(c.sides[1])), Value(Named(c.sides[2])), c.fields, c.maps)
      [] OTHER -> Operate(c.op, Value(Named(CHOOSE n \in c.from : TRUE)))

(* What the graph means, node by node. *)
RECURSIVE Meaning(_)
Meaning(n) ==
    LET in == Incoming(n)
        left == EdgeFrom(g.join[n].left, n)
        right == EdgeFrom(g.join[n].right, n)
        moved == IF Joined(n)
                 THEN JoinRows(g.join[n].type, Meaning(left.source), Meaning(right.source), g.fields[n],
                               <<left.map, right.map>>)
                 ELSE Select(Meaning(in[1].source), g.fields[n], in[1].map)
    IN  IF g.type[n] = "source" THEN Rows[n]
        ELSE FoldLeft(LAMBDA rows, op : Operate(op, rows), moved, IF g.type[n] = "transform" THEN g.ops[n] ELSE <<>>)

-----------------------------------------------------------------------------
(* The phases, and the colours of the nodes on the search's path and in its order. *)
TypeOK ==
    /\ phase \in {"ids", "edges", "search", "wiring", "compile", "done", "failed"}
    /\ (phase = "failed") <=> (why # None)
    /\ \A i \in DOMAIN path : color[path[i].node] = "grey"
    /\ \A i \in DOMAIN order : color[order[i]] = "black"

RECURSIVE Reach(_, _)
Reach(n, k) ==
    IF k = 0 THEN {n}
    ELSE {n} \cup UNION {Reach(m, k - 1) : m \in Range(Successors(n))}

OnCycle(n) == n \in UNION {Reach(m, Cardinality(Ids)) : m \in Range(Successors(n))}

(* The search refuses a graph exactly when it has a cycle, and what it reports  *)
(* is one: every step of the path is an edge and its ends are the same node.    *)
CyclesReported ==
    /\ phase \in {"wiring", "compile", "done"} => \A n \in Ids : ~OnCycle(n)
    /\ (phase = "failed" /\ why.error = "cycle") =>
            /\ Len(why.path) > 2 /\ why.path[1] = Last(why.path)
            /\ \A i \in 1 .. Len(why.path) - 1 : why.path[i + 1] \in Range(Successors(why.path[i]))

(* The order has every node once, and the source of an edge before its target. *)
OrderIsTopological ==
    phase = "wiring" =>
        /\ IsInjective(order) /\ Range(order) = Ids
        /\ \A i, j \in DOMAIN order : order[j] \in Range(Successors(order[i])) => i < j

(* While the query is built, a CTE has a name of its own and reads only from   *)
(* CTEs before it: SQL resolves names in that order.                            *)
NamesResolve ==
    \A i \in DOMAIN ctes :
        /\ \A j \in DOMAIN ctes : ctes[i].name = ctes[j].name => i = j
        /\ \A n \in ctes[i].from : \E j \in 1 .. i - 1 : ctes[j].name = n

(* The finished query computes what the graph says, also for a node that feeds *)
(* several others and for operations in their order.                            *)
QueryMeansGraph == phase = "done" => Value(Named(alias[Target])) = Meaning(Target)
=============================================================================
