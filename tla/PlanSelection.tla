--------------------------- MODULE PlanSelection ---------------------------
(* How the control service turns an API start request into a run of one     *)
(* immutable execution plan: application.start_run, the                     *)
(* PlanRunSubmissionResolver, the plan registry, the input-size estimator   *)
(* and the idempotency lookup that comes before it.                         *)
(*                                                                          *)
(* The estimate of a route's input is read from table metadata and moves    *)
(* under the requests; the graph is edited between them; a client that gets *)
(* no answer sends the same request again.                                  *)
EXTENDS Naturals

CONSTANTS
    Plans,          \* revisions of the registered execution plans
    EnvOf,          \* [Plans -> environments]
    Order,          \* [Plans -> Nat]: the order of environment, plan id and revision
    Repairs,        \* plans that are single-task Cloud Run jobs
    Revisions,      \* revisions the graph goes through, 1..n
    BuiltFor,       \* [Plans -> Revisions]: the graph revision a plan was compiled from
    Configurations, \* what the command line gives the resolver
    Bytes,          \* input sizes the metadata may report
    Clients, Keys,
    None, AnyEnvironment, Unavailable

Environments == {EnvOf[p] : p \in Plans}

(* Plans are in one order, sizes and costs are numbers, and the two size      *)
(* classes of a request are those of the candidates.                          *)
SelectionAssumption ==
    /\ Order \in [Plans -> Nat] /\ \A p, q \in Plans : Order[p] = Order[q] => p = q
    /\ Bytes \subseteq Nat /\ Unavailable \notin Bytes /\ None \notin Bytes
    /\ None \notin {"small", "large", AnyEnvironment} /\ Environments \cap {None, AnyEnvironment} = {} /\ None \notin Clients
    /\ 1 \in Revisions
    /\ \A c \in Configurations :
         /\ \A p \in DOMAIN c.places : c.places[p].cost \in Nat
         /\ \A p \in DOMAIN c.sizes : c.sizes[p].max \in Nat /\ c.sizes[p].class \in {"small", "large"}

VARIABLES
    config,     \* the resolver's fields
    graph,      \* current graph revision
    metadata,   \* [Environments -> Bytes \cup {Unavailable}]
    runs,       \* durable runs
    lock,       \* holder of _run_start_lock, or None
    client      \* [Clients -> the request in flight and its answer]

vars == <<config, graph, metadata, runs, lock, client>>

-----------------------------------------------------------------------------
(* What the resolver accepts as its configuration.  Candidates are functions *)
(* from some plans, so that candidates with the same revision are merged.    *)

Route(e) == {p \in Plans : EnvOf[p] = e}

(* Where a route has several plans, each has a size candidate. *)
SizeRoutes(c) ==
    \A e \in Environments :
        LET sized == Route(e) \cap DOMAIN c.sizes IN
        /\ (\E p, q \in Route(e) : p # q) => sized = Route(e)
        /\ \A p, q \in sized : p # q => c.sizes[p].class # c.sizes[q].class

Acceptable(c) ==
    /\ DOMAIN c.places \subseteq Plans
    /\ c.environment = AnyEnvironment =>
            DOMAIN c.places # {} /\ c.preferred # None /\ c.maxCost # None
    /\ DOMAIN c.sizes \subseteq Plans
    /\ SizeRoutes(c)
    /\ c.default # None => DOMAIN c.sizes # {}
    /\ c.estimators \subseteq {EnvOf[p] : p \in DOMAIN c.sizes}

-----------------------------------------------------------------------------
(* The resolver. *)

Refused == [why |-> "refused"]     \* nothing fits: ControlOperationUnavailableError
Conflict == [why |-> "conflict"]   \* the key or the graph belongs to something else

CurrentFor(rev) == {p \in Plans : BuiltFor[p] = rev}

(* What one route estimates: the size the request names, else its estimator's. *)
Estimate(r, e) ==
    CASE r.bytes # None -> r.bytes
      [] r.bytes = None /\ r.class = None /\ e \in config.estimators -> metadata[e]
      [] OTHER -> Unavailable

Source(r, e) ==
    IF r.bytes # None THEN "api_request"
    ELSE IF Estimate(r, e) # Unavailable THEN "metadata" ELSE None

SizeMode(r, e) ==
    IF r.class # None THEN "manual_override"
    ELSE IF Source(r, e) # None THEN "automatic_input"
    ELSE IF config.default # None THEN "configured_default" ELSE None

(* The smallest class of those that hold the input; size_class names break ties. *)
SmallestFitting(choices) ==
    {p \in choices : \A q \in choices :
        \/ config.sizes[p].max < config.sizes[q].max
        \/ config.sizes[p].max = config.sizes[q].max /\ Order[p] <= Order[q]}

RouteSelection(r, e) ==
    LET current == {p \in CurrentFor(r.revision) : EnvOf[p] = e}
        choices == current \cap DOMAIN config.sizes
        bytes == Estimate(r, e)
        wanted == IF r.class # None THEN r.class ELSE config.default
        fitting == {p \in choices : config.sizes[p].max >= bytes}
        named == {p \in choices : config.sizes[p].class = wanted}
    IN  CASE choices = {} -> IF r.class = None /\ r.bytes = None THEN current ELSE {}
          [] choices # {} /\ bytes # Unavailable -> SmallestFitting(fitting)
          [] OTHER -> named

(* _select_size_candidates looks at every route when the environment is auto. *)
Candidates(r) ==
    LET e == IF r.environment # None THEN r.environment ELSE config.environment
        routes == IF e = AnyEnvironment THEN Environments ELSE {e} \cap Environments
    IN  UNION {RouteSelection(r, x) : x \in routes}

Cost(p) == config.places[p].cost
Far(p) == IF config.places[p].locality = config.preferred THEN 0 ELSE 1

Affordable(candidates) ==
    {p \in candidates \cap DOMAIN config.places : Cost(p) <= config.maxCost}

(* Preferred locality first, then cost, then the names. *)
Cheapest(eligible) ==
    {p \in eligible : \A q \in eligible :
        \/ Far(p) < Far(q)
        \/ Far(p) = Far(q) /\ Cost(p) < Cost(q)
        \/ Far(p) = Far(q) /\ Cost(p) = Cost(q) /\ Order[p] <= Order[q]}

PlacementMode(r) ==
    IF r.environment # None THEN "manual_override"
    ELSE IF config.environment = AnyEnvironment THEN "automatic" ELSE "configured_default"

(* The plan of resolve(), or none: the cheapest, or the only candidate of the  *)
(* environment.                                                               *)
Selected(r) ==
    LET candidates == Candidates(r)
        e == IF r.environment # None THEN r.environment ELSE config.environment
    IN  IF PlacementMode(r) = "automatic" THEN Cheapest(Affordable(candidates))
        ELSE {p \in candidates : EnvOf[p] = e /\ \A q \in candidates : EnvOf[q] = e => q = p}

(* The submission of a request: the plan, why, and the evidence for its size; *)
(* `by' is the request it answers, kept for the properties.                   *)
SizeDecision(r, p) ==
    IF SizeMode(r, EnvOf[p]) = None \/ p \notin DOMAIN config.sizes
    THEN [mode |-> None, bytes |-> None, source |-> None]
    ELSE [mode |-> SizeMode(r, EnvOf[p]),
          bytes |-> IF Source(r, EnvOf[p]) = None THEN None ELSE Estimate(r, EnvOf[p]),
          source |-> Source(r, EnvOf[p])]

Submission(r, p) ==
    [plan |-> p, env |-> EnvOf[p], revision |-> r.revision, key |-> r.key,
     repair |-> r.repair, by |-> r, placement |-> PlacementMode(r), size |-> SizeDecision(r, p)]

(* RunSubmission.fingerprint leaves out the decisions: the plan says it all. *)
Fingerprint(x) == <<x.env, x.revision, x.plan, x.repair>>

-----------------------------------------------------------------------------
(* The lookup that comes before any estimate. *)

(* The environments of the plans that still match the graph. *)
LookupPreferred(r) ==
    IF r.environment # None THEN {r.environment}
    ELSE IF config.environment # AnyEnvironment THEN {config.environment}
    ELSE {EnvOf[p] : p \in {q \in DOMAIN config.places : Far(q) = 0}}

LookupEnvironments(r) ==
    IF r.environment # None THEN {r.environment}
    ELSE IF config.environment # AnyEnvironment THEN {config.environment}
    ELSE Environments

Found(r) == {x \in runs : x.key = r.key /\ x.env \in LookupEnvironments(r)}

SameRequest(r, x) ==
    /\ x.revision = r.revision
    /\ x.repair = r.repair
    /\ x.placement = PlacementMode(r)
    /\ \/ x.size.mode \in {None, "configured_default"}
       \/ x.size.mode = "automatic_input" /\ x.size.source # "api_request"

-----------------------------------------------------------------------------
Idle == [pc |-> "idle", request |-> None, answer |-> None]

Request ==
    [key : Keys, revision : Revisions, environment : Environments \cup {None},
     class : {"small", "large", None}, bytes : Bytes \cup {None}, repair : BOOLEAN]

Init ==
    /\ config \in {c \in Configurations : Acceptable(c)}
    /\ graph = 1
    /\ metadata \in {f \in [Environments -> Bytes \cup {Unavailable}] :
                        \A e \in Environments \ config.estimators : f[e] = Unavailable}
    /\ runs = {}
    /\ lock = None
    /\ client = [c \in Clients |-> Idle]

RepairEnvironments(rev) == {EnvOf[p] : p \in CurrentFor(rev) \cap Repairs}

(* A repair runs where the preview says it can, and the caller chooses. *)
PreviewAllows(r) ==
    r.repair => IF r.environment = None
                THEN \E e \in RepairEnvironments(r.revision) : RepairEnvironments(r.revision) = {e}
                ELSE r.environment \in RepairEnvironments(r.revision)

Previewed(r) ==
    IF r.repair /\ r.environment = None
    THEN [r EXCEPT !.environment = CHOOSE e \in RepairEnvironments(r.revision) : TRUE]
    ELSE r

Answer(c, a) == client' = [client EXCEPT ![c].pc = "answered", ![c].answer = a]

(* A request for the graph revision the caller saw.  It is checked before the *)
(* lock is taken; an edit after that does not stop the start.                 *)
Send(c) ==
    /\ client[c].pc = "idle"
    /\ \E r \in Request :
        /\ r.revision = graph
        /\ r.class = None \/ r.bytes = None
        /\ CurrentFor(graph) # {}
        /\ PreviewAllows(r)
        /\ client' = [client EXCEPT ![c] = [pc |-> "checked", request |-> Previewed(r), answer |-> None]]
    /\ UNCHANGED <<config, graph, metadata, runs, lock>>

EnterLocked(c) ==
    LET r == client[c].request IN
    /\ client[c].pc = "checked"
    /\ lock = None
    /\ lock' = c
    /\ client' = [client EXCEPT ![c].pc =
            IF r.class = None /\ r.bytes = None THEN "lookup" ELSE "resolve"]
    /\ UNCHANGED <<config, graph, metadata, runs>>

Lookup(c) ==
    LET r == client[c].request IN
    /\ client[c].pc = "lookup"
    /\ \/ /\ Found(r) = {}
          /\ client' = [client EXCEPT ![c].pc = "resolve"]
          /\ UNCHANGED lock
       \/ /\ Found(r) # {}
          /\ \/ \E x \in Found(r) : Found(r) = {x} /\ SameRequest(r, x) /\ Answer(c, x)
             \/ /\ \A x \in Found(r) : ~(Found(r) = {x} /\ SameRequest(r, x))
                /\ Answer(c, Conflict)
          /\ lock' = None
    /\ UNCHANGED <<config, graph, metadata, runs>>

(* resolve(): reads the estimates and fixes the plan; a repair is refused on *)
(* a plan that cannot transport it.                                          *)
Transports(r) == {p \in Selected(r) : r.repair => p \in Repairs}

Resolve(c) ==
    LET r == client[c].request IN
    /\ client[c].pc = "resolve"
    /\ \/ /\ Transports(r) = {}
          /\ Answer(c, Refused) /\ lock' = None
       \/ \E p \in Transports(r) :
            /\ client' = [client EXCEPT ![c].pc = "start", ![c].answer = Submission(r, p)]
            /\ UNCHANGED lock
    /\ UNCHANGED <<config, graph, metadata, runs>>

(* lifecycle.start claims the key in the store and dispatches.  The answer is *)
(* lost when the dispatch fails after the claim, or before it.                *)
Claimed(x) == {y \in runs : y.key = x.key /\ y.env = x.env}

Start(c) ==
    LET x == client[c].answer IN
    /\ client[c].pc = "start"
    /\ lock' = None
    /\ \/ /\ Claimed(x) = {}
          /\ runs' = runs \cup {x}
          /\ Answer(c, x)
       \/ /\ Claimed(x) # {}
          /\ LET y == CHOOSE y \in Claimed(x) : TRUE IN
             Answer(c, IF Fingerprint(y) = Fingerprint(x) THEN y ELSE Conflict)
          /\ UNCHANGED runs
    /\ UNCHANGED <<config, graph, metadata>>

StartLost(c) ==
    LET x == client[c].answer IN
    /\ client[c].pc = "start"
    /\ lock' = None
    /\ runs' \in {runs, IF Claimed(x) = {} THEN runs \cup {x} ELSE runs}
    /\ client' = [client EXCEPT ![c].pc = "lost", ![c].answer = None]
    /\ UNCHANGED <<config, graph, metadata>>

(* The caller sends the request again: unchanged, after no answer or after one *)
(* that it did not receive.  An edited graph refuses it (expected_revision).   *)
Retry(c) ==
    /\ client[c].pc = "lost"
    /\ client' = [client EXCEPT ![c].pc = IF client[c].request.revision = graph THEN "checked" ELSE "idle"]
    /\ UNCHANGED <<config, graph, metadata, runs, lock>>

LoseAnswer(c) ==
    /\ client[c].pc = "answered"
    /\ client[c].answer \in runs
    /\ client' = [client EXCEPT ![c].pc = "lost", ![c].answer = None]
    /\ UNCHANGED <<config, graph, metadata, runs, lock>>

Edit ==
    /\ graph + 1 \in Revisions
    /\ graph' = graph + 1
    /\ UNCHANGED <<config, metadata, runs, lock, client>>

(* The tables grow, and their metadata is sometimes out of reach. *)
MetadataMoves ==
    /\ \E e \in config.estimators, b \in Bytes \cup {Unavailable} :
        metadata' = [metadata EXCEPT ![e] = b]
    /\ UNCHANGED <<config, graph, runs, lock, client>>

Next ==
    \/ Edit \/ MetadataMoves
    \/ \E c \in Clients :
        \/ Send(c) \/ EnterLocked(c) \/ Lookup(c) \/ Resolve(c)
        \/ Start(c) \/ StartLost(c) \/ Retry(c) \/ LoseAnswer(c)

Spec == Init /\ [][Next]_vars

-----------------------------------------------------------------------------
TypeOK ==
    /\ config \in Configurations /\ graph \in Revisions
    /\ metadata \in [Environments -> Bytes \cup {Unavailable}]
    /\ lock \in Clients \cup {None}
    /\ \A c \in Clients :
        /\ client[c].pc \in {"idle", "checked", "lookup", "resolve", "start", "answered", "lost"}
        /\ client[c].pc # "idle" => client[c].request \in Request
        /\ client[c].pc \in {"lookup", "resolve", "start"} => lock = c
    /\ \A x \in runs : x.plan \in Plans /\ x.env = EnvOf[x.plan]

(* A request starts one run, however often it is sent and by however many    *)
(* callers, though the estimate that chose its plan and its environment has   *)
(* changed in between (start_run looks the key up in every environment under  *)
(* _run_start_lock before it estimates anything).                             *)
OneRunPerRequest == \A x, y \in runs : x.by = y.by => x = y

(* A repeated request is answered with the run that it started: never with a  *)
(* conflict or a refusal, unless another request used the same key.           *)
AnsweredWithItsRun ==
    \A c \in Clients, x \in runs :
        (/\ client[c].pc # "answered" /\ client'[c].pc = "answered"
         /\ client[c].request = x.by
         /\ \A y \in runs : y.key = x.key => y = x)
        => client'[c].answer = x

(* What a request asked for. *)
Honours(r, x) ==
    /\ x.revision = r.revision /\ x.repair = r.repair
    /\ r.environment # None => x.env = r.environment
    /\ (r.class # None /\ x.plan \in DOMAIN config.sizes) => config.sizes[x.plan].class = r.class
    /\ (r.bytes # None /\ x.plan \in DOMAIN config.sizes) => config.sizes[x.plan].max >= r.bytes

(* A request is answered with a run of the graph revision, the environment,    *)
(* the class and the repair it asked for, though its key was used before by    *)
(* another request: find_api_start and the fingerprint tell them apart.        *)
OverrideIsHonoured ==
    \A c \in Clients :
        (client[c].pc = "answered" /\ client[c].answer \in runs) => Honours(client[c].request, client[c].answer)

(* What the decision records accept. *)
Decided(x) ==
    /\ x.size.bytes # None => x.size.bytes <= config.sizes[x.plan].max
    /\ x.placement = "automatic" => x.plan \in DOMAIN config.places /\ Cost(x.plan) <= config.maxCost
    /\ BuiltFor[x.plan] = x.revision
    /\ x.repair => x.plan \in Repairs

(* Whatever configuration the resolver accepts, the evidence it stores with a *)
(* run is one the decision records accept (their __post_init__ raises         *)
(* otherwise): an estimate fits the class, an automatic placement its budget. *)
DecisionsAccepted == \A x \in runs : Decided(x)

(* In an accepted configuration every plan that matches the graph can be run: *)
(* some request selects it (no plan is shadowed by another of its route).     *)
NoPlanShadowed ==
    \A p \in Plans :
        (BuiltFor[p] = graph /\ ~(\E q \in Plans : BuiltFor[q] = graph /\ q # p /\ EnvOf[q] = EnvOf[p]))
        \/ BuiltFor[p] # graph
        \/ \E k \in {"small", "large"} :
              Selected([key |-> CHOOSE x \in Keys : TRUE, revision |-> graph, environment |-> EnvOf[p],
                        class |-> k, bytes |-> None, repair |-> FALSE]) = {p}

-----------------------------------------------------------------------------
(* The invariant, which ControlWorkProofs shows to be inductive for every     *)
(* set of plans, configurations, clients, keys and revisions.                 *)

(* The request names its size, so that no estimate is read for it. *)
Sized(r) == r.class # None \/ r.bytes # None

ValidRequest(r) == r \in Request /\ (r.class = None \/ r.bytes = None)

(* A submission answers its request: the lookup finds it and takes it for the  *)
(* same request, or, for a request that names its size, resolve() selects its  *)
(* plan again.                                                                *)
GoodRun(x) ==
    /\ x \notin {Conflict, Refused}
    /\ ValidRequest(x.by) /\ Honours(x.by, x) /\ Decided(x)
    /\ x.plan \in Plans /\ x.env = EnvOf[x.plan] /\ x.key = x.by.key
    /\ x.env \in LookupEnvironments(x.by) /\ x.placement = PlacementMode(x.by)
    /\ IF Sized(x.by) THEN x.plan \in Transports(x.by) ELSE SameRequest(x.by, x)

SelectTypes ==
    /\ config \in Configurations /\ Acceptable(config) /\ graph \in Revisions
    /\ metadata \in [Environments -> Bytes \cup {Unavailable}]
    /\ lock \in Clients \cup {None}
    /\ DOMAIN client = Clients
    /\ \A c \in Clients :
        /\ client[c] = [pc |-> client[c].pc, request |-> client[c].request, answer |-> client[c].answer]
        /\ client[c].pc \in {"idle", "checked", "lookup", "resolve", "start", "answered", "lost"}
        /\ client[c].pc # "idle" => ValidRequest(client[c].request)
        /\ client[c].pc \in {"lookup", "resolve", "start"} => lock = c

RunsOK ==
    /\ \A x \in runs : GoodRun(x)
    /\ \A x, y \in runs : x.key = y.key /\ x.env = y.env => x = y
    /\ OneRunPerRequest

ClientOK(c) ==
    LET r == client[c].request
        a == client[c].answer
    IN  /\ client[c].pc = "lookup" => ~Sized(r)
        /\ client[c].pc \in {"resolve", "start"} => Sized(r) \/ Found(r) = {}
        /\ client[c].pc = "start" => GoodRun(a) /\ a.by = r
        /\ client[c].pc = "answered" => a \in {Conflict, Refused} \/ Honours(r, a)

SelectInv == SelectTypes /\ RunsOK /\ \A c \in Clients : ClientOK(c)
=============================================================================
