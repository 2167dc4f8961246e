--------------------------- MODULE ControlStartup ---------------------------
(***************************************************************************)
(* How a Control process comes up and goes down.  `dander control serve`   *)
(* reads its options, builds the execution backends, opens the run store,  *)
(* composes the run lifecycle, installs the schedule source and starts the *)
(* worker threads (startup_factory.py, run_composition.py); a failure at   *)
(* any point gives back what the earlier points opened.  Closing stops the *)
(* workers one after the other within a grace period, and only then closes *)
(* what they use; a close that times out or fails may be called again.     *)
(*                                                                         *)
(* Resources: the backends' transports, the shared PostgreSQL pool, the    *)
(* schedule queue (an SQS client that exists once the queue was polled, or *)
(* the adapter over the pool) and the scheduler's dedicated connection,    *)
(* `lease`.  S3RunStore and PostgreSQLRunStore own nothing.                *)
(***************************************************************************)
EXTENDS Naturals, FiniteSets

CONSTANTS
  None,
  Backends,     \* the backends that the configured plans select
  Options,      \* the command lines considered
  MaxRefusals   \* bound: how many closes of a resource raise

StartupAssumption ==
  /\ Backends \cap {"pool", "queue", "lease"} = {}
  /\ MaxRefusals \in Nat

VARIABLES
  opts,      \* the command line
  pc,        \* how far startup came
  open,      \* resources held
  closed,    \* resources whose close has returned, or was begun for good
  refused,   \* resources whose close raised the last time it was called
  refusals,  \* how many closes have raised
  worker,    \* the threads: not started, idle, busy or ended
  lock,      \* who holds the lifecycle's mutation lock
  stop,      \* the workers whose stop event is set
  life,      \* the lifecycle: not built, open, closing or cleaned up
  source,    \* the submission source: not installed, installed or closed
  closer,    \* where the running close is
  failed     \* whether this close met a failure it reports later

resources == <<open, closed, refused, refusals>>
threads == <<worker, lock, stop>>
vars == <<opts, pc, resources, threads, life, source, closer, failed>>

Workers == {"reconciler", "consumer", "producer", "request"}

(* The profile that the run-store selection names. *)
Arm == IF opts.runStore # None THEN opts.runStore
       ELSE IF opts.bucket THEN "aws" ELSE None

Schedule == IF opts.schedule # None THEN opts.schedule
            ELSE IF opts.queueUrl THEN "sqs" ELSE None

(* What `serve` accepts of its command line. *)
Accepted(o) ==
  /\ ~(o.runStore # None /\ o.bucket)
  /\ ~(o.schedule # None /\ o.queueUrl)
  /\ ~(o.runStore # None /\ o.queueUrl)
  /\ ~(o.bucket /\ o.schedule # None)
  /\ ~(o.ephemeral /\ o.graphStore)
  /\ o.plans = (o.runStore # None \/ o.bucket)
  /\ o.triggers = (o.schedule # None \/ o.queueUrl)
  /\ o.triggers => o.plans
  /\ o.runStore = "postgresql" => ~o.ephemeral /\ ~o.graphStore

(* The graph store that `serve` builds itself; PostgreSQL brings its own. *)
GraphStore ==
  CASE Arm = "postgresql" -> None
    [] Arm # "postgresql" /\ opts.graphStore -> "bound"
    [] OTHER -> IF opts.ephemeral THEN "memory" ELSE "rooted"

Storage == IF Arm = "postgresql" THEN {"pool"} ELSE {}

(* What a busy thread works with. *)
Uses(w) ==
  CASE w = "producer" -> {"pool", "lease", "queue"} \cap (open \cup closed)
    [] w = "consumer" -> {"queue"} \cup Storage
                           \cup (IF lock = "consumer" THEN Backends ELSE {})
    [] OTHER -> Storage \cup Backends

Init ==
  /\ opts \in Options
  /\ pc = "serve"
  /\ open = {} /\ closed = {} /\ refused = {} /\ refusals = 0
  /\ worker = [w \in Workers |-> "none"] /\ lock = None /\ stop = {}
  /\ life = "none" /\ source = "none" /\ closer = None /\ failed = FALSE

(* Close every resource of S in turn; one that raises stays open, and the   *)
(* others are closed all the same.                                          *)
CloseAll(S) ==
  \E R \in SUBSET (S \cap open) :
    /\ refusals + Cardinality(R) =< MaxRefusals
    /\ refusals' = refusals + Cardinality(R)
    /\ refused' = (refused \ S) \cup R
    /\ open' = open \ (S \ R)
    /\ closed' = closed \cup ((S \cap open) \ R)

(***************************************************************************)
(* Startup.                                                                *)
(***************************************************************************)
Opened(r, next) ==
  /\ open' = open \cup r /\ pc' = next
  /\ UNCHANGED <<closed, refused, refusals>>

Serve ==
  /\ pc = "serve"
  /\ pc' = IF ~Accepted(opts) \/ Arm = None THEN "refused" ELSE "backends"
  /\ UNCHANGED <<opts, resources, threads, life, source, closer, failed>>

(* Plans, triggers and provider bindings are read before anything is open. *)
LoadFails ==
  /\ pc = "backends" /\ open = {}
  /\ pc' = "failed"
  /\ UNCHANGED <<opts, resources, threads, life, source, closer, failed>>

BuildBackend ==
  /\ pc = "backends"
  /\ \E b \in Backends \ open :
       Opened({b}, IF Backends \ open = {b} THEN "storage" ELSE "backends")
  /\ UNCHANGED <<opts, threads, life, source, closer, failed>>

BackendFails ==
  /\ pc = "backends" /\ open # {}
  /\ CloseAll(open) /\ pc' = "failed"
  /\ UNCHANGED <<opts, threads, life, source, closer, failed>>

(* The run-store and schedule bindings must agree with each other and with  *)
(* the accounts of the registered backends; PostgreSQL selects the graph    *)
(* store, S3 needs one.                                                     *)
BindingsAgree ==
  /\ Schedule = "postgresql" => Arm = "postgresql"
  /\ Arm = "postgresql" <=> GraphStore = None

OpenStorage ==
  /\ pc = "storage" /\ BindingsAgree
  /\ Opened(Storage, "compose")
  /\ UNCHANGED <<opts, threads, life, source, closer, failed>>

(* The bindings, the size estimators, or the opening and migrating of the   *)
(* database failed: the pool, when there is one, is closed by the code that *)
(* opened it.                                                               *)
StorageFails ==
  /\ pc = "storage"
  /\ CloseAll(Backends) /\ pc' = "failed"
  /\ UNCHANGED <<opts, threads, life, source, closer, failed>>

(* The AWS profile starts the reconciler here when nothing is scheduled. *)
Compose ==
  /\ pc = "compose"
  /\ life' = "open"
  /\ pc' = IF Schedule = None THEN "start" ELSE "source"
  /\ UNCHANGED <<opts, resources, threads, source, closer, failed>>

(* compose_run_control closes the backends it was given, and the caller the *)
(* pool.                                                                    *)
ComposeFails ==
  /\ pc = "compose"
  /\ CloseAll(Backends \cup Storage)
  /\ pc' = "failed"
  /\ UNCHANGED <<opts, threads, life, source, closer, failed>>

(* Build the consumer, for PostgreSQL also the producer, and install both   *)
(* before any worker runs.                                                  *)
InstallSource ==
  /\ pc = "source"
  /\ source' = "installed"
  /\ Opened(IF Schedule = "postgresql" THEN {"queue"} ELSE {}, "start")
  /\ UNCHANGED <<opts, threads, life, closer, failed>>

(* A failed startup closes the lifecycle, and the pool only when that       *)
(* returned.                                                                *)
SourceFails ==
  /\ pc = "source"
  /\ pc' = "abort" /\ closer' = "sources" /\ failed' = FALSE
  /\ life' = "closing" /\ stop' = stop \cup {"reconciler"}
  /\ UNCHANGED <<opts, resources, worker, lock, source>>

Sources ==
  IF source = "none" THEN {}
  ELSE IF Schedule = "postgresql" THEN {"consumer", "producer"} ELSE {"consumer"}

Start ==
  /\ pc = "start"
  /\ worker' = [w \in Workers |->
                 IF w \in Sources \cup {"reconciler"} THEN "idle" ELSE worker[w]]
  /\ pc' = "up"
  /\ UNCHANGED <<opts, resources, lock, stop, life, source, closer, failed>>

(***************************************************************************)
(* The workers.                                                            *)
(***************************************************************************)
(* A loop begins a round only while its stop event is unset. *)
Begins(w) == w \notin stop

Acquired(w) ==
  IF w = "producer" /\ "lease" \notin open THEN {"lease"}
  ELSE IF w = "consumer" /\ Schedule = "sqs" THEN {"queue"} \ closed ELSE {}

BeginRound(w) ==
  /\ worker[w] = "idle" /\ Begins(w)
  /\ worker' = [worker EXCEPT ![w] = "busy"]
  /\ \E r \in {Acquired(w)} \cup (IF w = "producer" THEN {{}} ELSE {}) :
       open' = open \cup r
  /\ UNCHANGED <<opts, pc, closed, refused, refusals, lock, stop, life, source,
                 closer, failed>>

(* An API request mutates runs under the mutation lock while the lifecycle  *)
(* is open; the consumer starts runs the same way, the reconciler takes the *)
(* lock for each run.                                                       *)
TakeLock(w) ==
  /\ lock = None /\ pc \in {"up", "abort"}
  /\ \/ w = "request" /\ worker[w] = "none" /\ life = "open"
     \/ w = "consumer" /\ worker[w] = "busy" /\ life = "open"
     \/ w = "reconciler" /\ worker[w] = "busy" /\ w \notin stop
  /\ lock' = w
  /\ worker' = [worker EXCEPT ![w] = "busy"]
  /\ UNCHANGED <<opts, pc, resources, stop, life, source, closer, failed>>

FreeLock(w) ==
  /\ lock = w
  /\ lock' = None
  /\ worker' = [worker EXCEPT ![w] = IF w = "request" THEN "none" ELSE @]
  /\ UNCHANGED <<opts, pc, resources, stop, life, source, closer, failed>>

EndRound(w) ==
  /\ w # "request" /\ worker[w] = "busy" /\ lock # w
  /\ worker' = [worker EXCEPT ![w] = "idle"]
  /\ UNCHANGED <<opts, pc, resources, lock, stop, life, source, closer, failed>>

Exit(w) ==
  /\ worker[w] = "idle" /\ w \in stop
  /\ worker' = [worker EXCEPT ![w] = "ended"]
  /\ UNCHANGED <<opts, pc, resources, lock, stop, life, source, closer, failed>>

(***************************************************************************)
(* Closing.                                                                *)
(***************************************************************************)
Alive(w) == worker[w] \in {"idle", "busy"}

(* Mutant: join is taken to mean that the thread has ended. *)
JoinedOrNot(w) == TRUE

(* Joining w returns when its thread has ended, or after the grace period. *)
Joined(w) == ~Alive(w)

(* Close has raised: a failed startup gives up, a running process may try   *)
(* again.                                                                   *)
Raise ==
  /\ closer' = None /\ failed' = FALSE
  /\ pc' = IF pc = "abort" THEN "failed" ELSE pc

Close ==
  /\ pc = "up" /\ closer = None
  /\ closer' = IF life = "done" THEN "pool" ELSE "sources"
  /\ life' = IF life = "done" THEN life ELSE "closing"
  /\ stop' = stop \cup {"reconciler"}
  /\ UNCHANGED <<opts, pc, resources, worker, lock, source, failed>>

(* The source first asks both loops to stop, and closes the producer before *)
(* the consumer.                                                            *)
StopSources ==
  /\ closer = "sources"
  /\ stop' = stop \cup Sources
  /\ closer' = IF source # "installed" THEN "reconciler"
               ELSE IF "producer" \in Sources THEN "producer" ELSE "consumer"
  /\ UNCHANGED <<opts, pc, resources, worker, lock, life, source, failed>>

(* The grace period ran out, or the lock of the leader was not held any     *)
(* more: the source reports the failure and stays installed.                *)
SourceTimeout ==
  /\ \/ closer \in {"producer", "consumer"} /\ Alive(closer)
     \/ closer = "producer" /\ "lease" \in open /\ Joined("producer")
  /\ open' = IF Joined(closer) THEN open \ {"lease"} ELSE open
  /\ closed' = IF Joined(closer) THEN closed \cup {"lease"} ELSE closed
  /\ failed' = TRUE /\ closer' = "reconciler"
  /\ UNCHANGED <<opts, pc, refused, refusals, threads, life, source>>

CloseProducer ==
  /\ closer = "producer" /\ Joined("producer")
  /\ open' = open \ {"lease"} /\ closed' = closed \cup {"lease"}
  /\ closer' = "consumer"
  /\ UNCHANGED <<opts, pc, refused, refusals, threads, life, source, failed>>

(* The queue counts as closed even when its transport raises. *)
CloseConsumer ==
  /\ closer = "consumer" /\ Joined("consumer")
  /\ closer' = "reconciler"
  /\ closed' = closed \cup {"queue"} /\ open' = open \ {"queue"}
  /\ \/ /\ source' = "closed"
        /\ UNCHANGED <<refused, refusals, failed>>
     \/ /\ Schedule = "sqs" /\ "queue" \in open /\ refusals < MaxRefusals
        /\ refusals' = refusals + 1 /\ refused' = refused \cup {"queue"}
        /\ failed' = TRUE
        /\ UNCHANGED source
  /\ UNCHANGED <<opts, pc, threads, life>>

JoinReconciler ==
  /\ closer = "reconciler"
  /\ IF Joined("reconciler") /\ ~failed
       THEN closer' = "lock" /\ UNCHANGED <<pc, failed>>
       ELSE Raise
  /\ UNCHANGED <<opts, resources, threads, life, source>>

(* The backends are closed under the mutation lock, so no accepted mutation *)
(* is still running.                                                        *)
LockFree == lock = None

CloseLifecycle ==
  /\ closer = "lock" /\ LockFree
  /\ CloseAll(Backends)
  /\ IF Backends \cap open' = {}
       THEN life' = "done" /\ closer' = "pool" /\ UNCHANGED <<pc, failed>>
       ELSE Raise /\ UNCHANGED life
  /\ UNCHANGED <<opts, threads, source>>

LockTimeout ==
  /\ closer = "lock" /\ lock # None
  /\ Raise
  /\ UNCHANGED <<opts, resources, threads, life, source>>

ClosePool ==
  /\ closer = "pool"
  /\ CloseAll(Storage)
  /\ IF pc = "abort" THEN pc' = "failed"
     ELSE pc' = IF Storage \cap open' = {} THEN "down" ELSE pc
  /\ closer' = None
  /\ UNCHANGED <<opts, threads, life, source, failed>>

(* The process ends. *)
Done ==
  /\ pc \in {"refused", "failed", "down"}
  /\ \A w \in Workers : worker[w] # "busy"
  /\ UNCHANGED vars

Closing ==
  \/ StopSources \/ SourceTimeout \/ CloseProducer \/ CloseConsumer
  \/ JoinReconciler \/ CloseLifecycle \/ LockTimeout \/ ClosePool

Next ==
  \/ Serve \/ LoadFails \/ BuildBackend \/ BackendFails \/ OpenStorage
  \/ StorageFails \/ Compose \/ ComposeFails \/ InstallSource \/ SourceFails
  \/ Start \/ Close \/ Closing \/ Done
  \/ \E w \in Workers :
       BeginRound(w) \/ TakeLock(w) \/ FreeLock(w) \/ EndRound(w) \/ Exit(w)

Spec == Init /\ [][Next]_vars

(***************************************************************************)
(* Properties.                                                             *)
(***************************************************************************)
TypeOK ==
  /\ opts \in Options
  /\ open \subseteq Backends \cup {"pool", "queue", "lease"}
  /\ closed \subseteq Backends \cup {"pool", "queue", "lease"}
  /\ open \cap closed = {}
  /\ worker \in [Workers -> {"none", "idle", "busy", "ended"}]
  /\ lock \in Workers \cup {None}

(* No thread works with a pool, queue, connection or backend that a close   *)
(* has released: every worker has ended before what it uses is closed, also *)
(* when an earlier close timed out or failed half way (run_lifecycle.close, *)
(* postgresql_scheduler.close, schedule_consumer.close, ControlStartup).    *)
NothingUsedAfterClose ==
  \A w \in Workers : worker[w] = "busy" => Uses(w) \cap closed = {}

(* A startup that failed holds nothing, except what would not close and,    *)
(* when the lifecycle could not be closed, what its workers still use.      *)
FailedStartupHoldsNothing ==
  pc = "failed" => open \subseteq refused \cup (IF life = "closing" THEN Storage ELSE {})

(* What `serve` accepts makes the assertions of the code hold: the AWS arm  *)
(* has a bucket and a graph store, a scheduled startup has a schedule       *)
(* binding and a PostgreSQL schedule has the PostgreSQL resources.          *)
AssertionsHold ==
  /\ pc \notin {"serve", "refused"} =>
       /\ Arm \in {"aws", "s3"} => GraphStore # None
       /\ opts.triggers <=> Schedule # None
       /\ Arm = "aws" => Schedule # "postgresql" \/ pc \in {"backends", "storage", "failed"}
  /\ pc = "source" => Schedule # None /\ (Schedule = "postgresql" => "pool" \in open)

(* The workers run only in a process whose startup is complete, and the     *)
(* pool outlives the lifecycle: it is closed only after every worker ended  *)
(* and the backends are released.                                           *)
PoolOutlivesLifecycle ==
  ("pool" \in open /\ "pool" \notin open') /\ pc = "up" =>
       /\ \A w \in Workers : ~Alive(w)
       /\ Backends \cap open = {} /\ "lease" \notin open
=============================================================================
