-------------------------- MODULE PhysicalPlanning --------------------------
(* Compilation of a saved graph into the physical plan a backend executes      *)
(* (control/physical_planner.py, control/execution_plan_compiler.py), the       *)
(* plan's contract (physical_plan.py) and an execution of the plan.             *)
(*                                                                             *)
(* A graph has nodes with a type, edges and possibly a join.  A plan has stages, *)
(* the exchanges between them and a bound on the tasks that run at once.  The    *)
(* container is handed the serialized plan and reads it back.                    *)
EXTENDS Integers, FiniteSets, FiniteSetsExt

CONSTANTS
    Requests,       \* what Control is asked to compile (see Compile)
    Foreign,        \* plans that were not compiled here but name their own revision
    RowKeys,        \* the join keys of a source's rows
    MaxDistributed, \* _MAX_DISTRIBUTED_PARTITIONS
    MaxPartitions   \* _MAX_PARTITIONS of a plan

BoundsAssumption == MaxDistributed \in Nat /\ MaxPartitions \in Nat /\ 2 <= MaxDistributed

VARIABLES
    phase,      \* "new" "refused" "compiled" "running" "done" "rejected"
    req,        \* the request
    plan,       \* the compiled plan, NoPlan before
    running,    \* tasks: pairs of a stage and a partition
    finished,
    placed,     \* exchange -> row -> partition, for the exchanges that took place
    out         \* what the last stage wrote

vars == <<phase, req, plan, running, finished, placed, out>>

NoPlan == [mode |-> "none", stages |-> {}, exchanges |-> {}, parallelism |-> 0]

------------------------------------------------------------------------------
(* StaticPhysicalPlanner                                                         *)
OfType(g, t) == {n \in DOMAIN g.type : g.type[n] = t}

Stage(id, ops, parts, deps) == [id |-> id, ops |-> ops, parts |-> parts, deps |-> deps]

Exchange(from, to, how, parts, keys) ==
    [from |-> from, to |-> to, how |-> how, parts |-> parts, keys |-> keys, transport |-> "object_store"]

FusedPlan(g) ==
    [mode |-> "fused", stages |-> {Stage("pipeline", DOMAIN g.type, 1, {})}, exchanges |-> {},
     parallelism |-> 1]

Only(S) == CHOOSE x \in S : TRUE

(* _distributed_plan: one source, one transform, one target, in a chain.            *)
ChainPlan(g, n) ==
    LET s == Only(OfType(g, "source"))
        t == Only(OfType(g, "transform"))
        e == Only(OfType(g, "target"))
    IN  IF g.edges # {<<s, t>>, <<t, e>>} \/ g.join # {} THEN NoPlan
        ELSE [mode |-> "distributed",
              stages |-> {Stage("extract", {s}, n, {}), Stage("transform", {t, e}, n, {"extract"})},
              exchanges |-> {Exchange("extract", "transform", "round_robin", n, {})},
              parallelism |-> n]

(* _multistage_linear_plan: the transforms in whichever order the edges give.         *)
LinearPlan(g, n) ==
    LET s == Only(OfType(g, "source"))
        e == Only(OfType(g, "target"))
        orders == {p \in OfType(g, "transform") \X OfType(g, "transform") :
                     /\ p[1] # p[2]
                     /\ g.edges = {<<s, p[1]>>, <<p[1], p[2]>>, <<p[2], e>>}}
    IN  IF orders = {} \/ g.join # {} THEN NoPlan
        ELSE LET p == Only(orders)
             IN  [mode |-> "distributed",
                  stages |-> {Stage("extract", {s}, n, {}), Stage("transform-a", {p[1]}, n, {"extract"}),
                              Stage("transform-b", {p[2], e}, n, {"transform-a"})},
                  exchanges |-> {Exchange("extract", "transform-a", "round_robin", n, {}),
                                 Exchange("transform-a", "transform-b", "round_robin", n, {})},
                  parallelism |-> n]

(* The keys exist on both sides with one declared type.                              *)
SameKeyType(j) == j.leftType = j.rightType

(* _keyed_join_plan: two sources, an inner join on one key and nothing else.           *)
JoinPlan(g, n) ==
    LET t == Only(OfType(g, "transform"))
        e == Only(OfType(g, "target"))
        ok == \E j \in g.join :
                /\ j.kind = "inner" /\ j.keys = 1 /\ ~ j.operations
                /\ OfType(g, "source") = {j.left, j.right}
                /\ g.edges = {<<j.left, t>>, <<j.right, t>>, <<t, e>>}
                /\ SameKeyType(j)
    IN  IF ~ ok THEN NoPlan
        ELSE LET j == Only(g.join)
             IN  [mode |-> "distributed",
                  stages |-> {Stage("extract-left", {j.left}, n, {}), Stage("extract-right", {j.right}, n, {}),
                              Stage("join", {t, e}, n, {"extract-left", "extract-right"})},
                  exchanges |-> {Exchange("extract-left", "join", "hash", n, {j.leftType}),
                                 Exchange("extract-right", "join", "hash", n, {j.rightType})},
                  parallelism |-> n]

DistributedPlan(g, n) ==
    LET count == [t \in {"source", "transform", "target"} |-> Cardinality(OfType(g, t))]
    IN  CASE count = [source |-> 2, transform |-> 1, target |-> 1] -> JoinPlan(g, n)
          [] count = [source |-> 1, transform |-> 2, target |-> 1] -> LinearPlan(g, n)
          [] count = [source |-> 1, transform |-> 1, target |-> 1] -> ChainPlan(g, n)
          [] OTHER -> NoPlan

(* plan: partitions 0 stands for none given.                                         *)
PlanOf(g, mode, partitions) ==
    IF \/ DOMAIN g.type = {} \/ \E n \in DOMAIN g.type : g.type[n] \notin {"source", "transform", "target"}
       \/ partitions # 0 /\ ~ (2 <= partitions /\ partitions <= MaxDistributed)
    THEN NoPlan
    ELSE CASE mode = "fused" -> IF partitions # 0 THEN NoPlan ELSE FusedPlan(g)
           [] mode = "distributed" -> DistributedPlan(g, IF partitions = 0 THEN 2 ELSE partitions)

(* bind_physical_plan: the template's schedule must allow the planned parallelism.      *)
Binds(p, template) == ~ template.bound /\ template.parallelism >= p.parallelism

------------------------------------------------------------------------------
(* The contract: PhysicalStage, PhysicalExchange and PhysicalPlan.__post_init__.        *)
StageOK(s) == s.ops # {} /\ s.parts \in 1..MaxPartitions /\ s.id \notin s.deps

ExchangeOK(x) ==
    /\ x.from # x.to /\ x.parts \in 1..MaxPartitions
    /\ x.how = "single" => x.parts = 1 /\ x.keys = {}
    /\ x.how = "hash" => x.keys # {}
    /\ x.how = "round_robin" => x.keys = {}

Ids(p) == {s.id : s \in p.stages}
StageOf(p, id) == CHOOSE s \in p.stages : s.id = id
Total(p) == MapThenSumSet(LAMBDA s : s.parts, p.stages)

(* _require_acyclic: no stage is reached from itself.                                 *)
RECURSIVE Above(_, _)
Above(p, ids) ==
    LET more == ids \cup UNION {StageOf(p, i).deps : i \in ids}
    IN  IF more = ids THEN ids ELSE Above(p, more)

Acyclic(p) == \A s \in p.stages : s.id \notin Above(p, s.deps)

Valid(p) ==
    /\ p.stages # {}
    /\ \A s \in p.stages : StageOK(s) /\ s.deps \subseteq Ids(p)
    /\ \A x \in p.exchanges : ExchangeOK(x)
    /\ \A s, t \in p.stages : s # t => s.id # t.id /\ s.ops \cap t.ops = {}
    /\ Total(p) <= MaxPartitions /\ p.parallelism \in 1..Total(p)
    /\ {<<x.from, x.to>> : x \in p.exchanges} = UNION {{<<d, s.id>> : d \in s.deps} : s \in p.stages}
    /\ \A x, y \in p.exchanges : x.from = y.from /\ x.to = y.to => x = y
    /\ \A x \in p.exchanges : x.parts = StageOf(p, x.to).parts
    /\ Acyclic(p)
    /\ p.mode = "fused" =>
         /\ p.parallelism = 1 /\ \A s \in p.stages : s.parts = 1
         /\ \A x \in p.exchanges : x.transport = "memory" /\ x.how = "single"

------------------------------------------------------------------------------
(* ManagedSparkSizeClass and compile_managed_spark_size_classes.                        *)
SizeOK(z) ==
    /\ 2 <= z.count /\ z.count <= MaxDistributed
    /\ z.cpu \in {4000, 8000, 16000}
    /\ LET perCore == z.memory \div (z.cpu \div 1000) IN 1024 <= perCore /\ perCore <= 7424

Sized(template, z) == [template EXCEPT !.parallelism = z.count]

(* compile, or one plan per size class; {} when it is refused.                          *)
Compiled(r) ==
    IF r.sizes = {}
    THEN LET p == PlanOf(r.graph, r.mode, r.partitions)
         IN  IF p = NoPlan \/ ~ Binds(p, r.template) THEN {} ELSE {p}
    ELSE LET plans == {PlanOf(r.graph, r.mode, z.count) : z \in r.sizes}
         IN  IF \/ r.mode # "distributed" \/ r.partitions # 0
                \/ \E z \in r.sizes : ~ SizeOK(z)
                \/ \E y, z \in r.sizes : y # z /\ (y.name = z.name \/ y.ceiling = z.ceiling)
                \/ \E z \in r.sizes : LET p == PlanOf(r.graph, r.mode, z.count)
                                      IN  p = NoPlan \/ ~ Binds(p, Sized(r.template, z))
             THEN {} ELSE plans

------------------------------------------------------------------------------
Init ==
    /\ phase = "new" /\ req \in Requests /\ plan = NoPlan
    /\ running = {} /\ finished = {} /\ placed = [x \in {} |-> {}] /\ out = {}

Compile ==
    /\ phase = "new"
    /\ \/ /\ Compiled(req) = {}
          /\ phase' = "refused" /\ plan' = plan
       \/ /\ phase' = "compiled" /\ plan' \in Compiled(req)
    /\ UNCHANGED <<req, running, finished, placed, out>>

(* The plan as it may reach the container: unchanged, or with other contents under       *)
(* the compiled plan's revision.                                                     *)
Altered(p) ==
    {[p EXCEPT !.parallelism = @ + 1], [p EXCEPT !.exchanges = {}, !.stages = {[s EXCEPT !.deps = {}] : s \in @}]}

Envelopes == {[revision |-> plan, plan |-> p] : p \in {plan} \cup Altered(plan)}
             \cup {[revision |-> p, plan |-> p] : p \in Foreign}

(* deserialize_physical_plan                                                          *)
Accepts(e) == Valid(e.plan) /\ e.revision = e.plan

Deliver ==
    /\ phase = "compiled"
    /\ \E e \in Envelopes :
         IF Accepts(e) THEN phase' = "running" /\ plan' = e.plan
         ELSE phase' = "rejected" /\ plan' = plan
    /\ UNCHANGED <<req, running, finished, placed, out>>

------------------------------------------------------------------------------
(* An execution of the plan by a backend that follows the contract.                       *)
Tasks(s) == {s.id} \X (1..s.parts)

AllTasks == UNION {Tasks(s) : s \in plan.stages}

Ended(id) == Tasks(StageOf(plan, id)) \subseteq finished

InTo(id) == {x \in plan.exchanges : x.to = id}

StartTask ==
    /\ phase = "running" /\ Cardinality(running) < plan.parallelism
    /\ \E s \in plan.stages :
         /\ \A x \in InTo(s.id) : x \in DOMAIN placed
         /\ \E t \in Tasks(s) \ (running \cup finished) : running' = running \cup {t}
    /\ UNCHANGED <<phase, req, plan, finished, placed, out>>

Sources == OfType(req.graph, "source")
RowsOf(n) == {[src |-> n, key |-> k] : k \in RowKeys}

(* The rows a stage holds: those of its sources, and those its exchanges brought.        *)
Held(id) == UNION ({RowsOf(n) : n \in Sources \cap StageOf(plan, id).ops}
                   \cup {DOMAIN placed[x] : x \in InTo(id) \cap DOMAIN placed})

(* Hash routing sees the key and the type it is declared with.                           *)
Hash(key, x) == 1 + ((key + (IF "STRING" \in x.keys THEN 1 ELSE 0)) % x.parts)

Routes(x) ==
    IF x.how = "hash" THEN {[row \in Held(x.from) |-> Hash(row.key, x)]}
    ELSE [Held(x.from) -> 1..x.parts]

Shuffle ==
    /\ phase = "running"
    /\ \E x \in plan.exchanges \ DOMAIN placed :
         /\ Ended(x.from)
         /\ \E route \in Routes(x) :
              placed' = [y \in DOMAIN placed \cup {x} |-> IF y = x THEN route ELSE placed[y]]
    /\ UNCHANGED <<phase, req, plan, running, finished, out>>

(* The rows of partition i of the stage.                                                *)
Partition(id, i) ==
    IF InTo(id) = {} THEN Held(id)
    ELSE UNION {{row \in DOMAIN placed[x] : placed[x][row] = i} : x \in InTo(id)}

(* What the stage that holds the target writes: joined pairs, or the rows.                *)
Written(rows) ==
    IF req.graph.join = {} THEN {{row} : row \in rows}
    ELSE {{a, b} : a \in rows, b \in rows} \ ({{a} : a \in rows} \cup
           {pair \in SUBSET rows : \E a, b \in pair : a.key # b.key})

FinishTask ==
    /\ phase = "running"
    /\ \E t \in running :
         /\ running' = running \ {t} /\ finished' = finished \cup {t}
         /\ out' = IF OfType(req.graph, "target") \subseteq StageOf(plan, t[1]).ops
                   THEN out \cup Written(Partition(t[1], t[2])) ELSE out
    /\ UNCHANGED <<phase, req, plan, placed>>

Finish ==
    /\ phase = "running" /\ finished = AllTasks
    /\ phase' = "done"
    /\ UNCHANGED <<req, plan, running, finished, placed, out>>

Next == Compile \/ Deliver \/ StartTask \/ Shuffle \/ FinishTask \/ Finish

Spec == Init /\ [][Next]_vars

------------------------------------------------------------------------------
(* Types: tasks run within the plan's parallelism and only once.                           *)
TypeOK ==
    /\ phase \in {"new", "refused", "compiled", "running", "done", "rejected"}
    /\ running \cap finished = {} /\ running \cup finished \subseteq AllTasks
    /\ Cardinality(running) <= plan.parallelism

(* Every plan the planner makes is accepted by the contract a container checks, at the      *)
(* largest partition count too.                                                           *)
PlannedIsValid == phase = "compiled" => Valid(plan)

(* A container runs the plan that was compiled or one that names its own revision, never    *)
(* other contents under a compiled plan's revision.                                       *)
RunsWhatWasCompiled == phase \in {"running", "done"} => plan \in Compiled(req) \cup Foreign

(* A finished execution of a compiled plan wrote what the graph says: every row of a chain,   *)
(* every pair of rows with equal keys of a join.                                          *)
WritesTheGraph ==
    (phase = "done" /\ plan \in Compiled(req)) => out = Written(UNION {RowsOf(n) : n \in Sources})

(* The nodes of an edge are executed in order: a later stage starts when the earlier ended.    *)
EdgesInOrder ==
    (phase \in {"running", "done"} /\ plan \in Compiled(req)) =>
        \A e \in req.graph.edges : \A s, t \in plan.stages :
            (e[1] \in s.ops /\ e[2] \in t.ops /\ s # t /\ (running \cup finished) \cap Tasks(t) # {})
                => Tasks(s) \subseteq finished

(* Size classes of a graph that can be distributed are refused only for their own faults.       *)
SizesBind ==
    (phase = "refused" /\ req.sizes # {}) =>
        \/ PlanOf(req.graph, req.mode, 0) = NoPlan \/ req.partitions # 0 \/ req.mode # "distributed"
        \/ req.template.bound
        \/ \E z \in req.sizes : ~ SizeOK(z)
        \/ \E y, z \in req.sizes : y # z /\ (y.name = z.name \/ y.ceiling = z.ceiling)
=============================================================================
