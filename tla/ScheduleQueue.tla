---------------------------- MODULE ScheduleQueue ----------------------------
(***************************************************************************)
(* Schedules of an always-on Control: PostgreSQLScheduler elects a leader  *)
(* with a session lock and advances the durable cursors, the schedule      *)
(* queue leases wakeups to consumers, and ControlScheduleConsumer starts a *)
(* run for each wakeup and then deletes it.                                *)
(*                                                                         *)
(* Control processes are replaced by ones with another trigger registry,   *)
(* each reads a clock of its own, which may be slow, fast or set back,     *)
(* database sessions die, leases run out under a slow consumer, and calls  *)
(* fail or lose their answers at every point.                              *)
(***************************************************************************)
EXTENDS Naturals, FiniteSets, FiniteSetTheorems, TLAPS

CONSTANTS
    Controls,       \* Control processes, each with one producer and one consumer
    NoProcess,
    Triggers,
    Specs,          \* trigger specs: [minutes, enabled, plan]
    Queue,          \* "postgresql" or "sqs"
    MaxDeliveries,  \* max_deliveries, or the redrive policy of the SQS queue
    BatchSize,      \* batch_size
    MaxScan,        \* max_scan_minutes
    MaxDue,         \* max_occurrences
    MaxSkew,        \* how far a process's own clock may be off, in minutes
    MaxMinute,      \* bound: the clock stops
    MaxFaults       \* bound: lost sessions, failed calls and crashes

ScheduleAssumption ==
    /\ NoProcess \notin Controls
    /\ Queue \in {"postgresql", "sqs"}
    /\ MaxDeliveries \in Nat \ {0} /\ BatchSize \in Nat \ {0}
    /\ MaxScan \in Nat \ {0} /\ MaxDue \in Nat \ {0}
    /\ MaxSkew \in Nat /\ MaxMinute \in Nat /\ MaxFaults \in Nat
    /\ \A s \in Specs : s.minutes \subseteq 1 .. MaxMinute /\ s.enabled \in BOOLEAN

Minutes == 0 .. MaxMinute
Plans == {s.plan : s \in Specs}

\* A wakeup: trigger id, plan revision and scheduled occurrence.
Occurrences == Triggers \X Plans \X (Minutes \ {0})

VARIABLES
    now,            \* the UTC minute; no process knows it
    config,         \* config[p]: the trigger registry of p
    leader,         \* the process whose session holds the advisory lock
    session,        \* session[p]: "none", "open", or "lost" and not noticed yet
    first,          \* first[p]: _initial_cursor plus one, 0 is None
    tick,           \* tick[p]: horizon of the tick in progress plus one, or 0
    cursor,         \* cursor[t]: row of dander_schedule_cursors, or NoCursor
    row,            \* row[o]: row of dander_schedule_queue, or NoRow
    held,           \* held[p][o]: what p holds of o
    acking,         \* acking[p]: occurrences whose run p started and will delete
    runs,           \* the durable runs: [key, of]
    adopted,        \* history: cursor[t] when its present spec took over
    faults

scheduleVars == <<now, config, leader, session, first, tick, cursor, row, held,
                  acking, runs, adopted, faults>>

NoRow == [count |-> 0, live |-> FALSE, dead |-> FALSE, stored |-> FALSE]
NewRow == [count |-> 0, live |-> FALSE, dead |-> FALSE, stored |-> TRUE]

Rows == [count : 0 .. MaxDeliveries, live : BOOLEAN, dead : BOOLEAN, stored : BOOLEAN]

Cursor(spec, at) == [stored |-> TRUE, spec |-> spec, at |-> at]
NoCursor == [stored |-> FALSE, spec |-> CHOOSE s \in Specs : TRUE, at |-> 0]

\* "current": the receipt in the row is the one p holds; "stale": it is not.
Receipt == {"none", "current", "stale"}

Registries == [Triggers -> Specs]

Nothing == [o \in Occurrences |-> "none"]

TypeOK ==
    /\ now \in Minutes
    /\ config \in [Controls -> Registries]
    /\ leader \in Controls \union {NoProcess}
    /\ session \in [Controls -> {"none", "open", "lost"}]
    /\ first \in [Controls -> Nat] /\ tick \in [Controls -> Nat]
    /\ cursor \in [Triggers -> [stored : BOOLEAN, spec : Specs, at : Minutes]]
    /\ row \in [Occurrences -> Rows]
    /\ held \in [Controls -> [Occurrences -> Receipt]]
    /\ acking \in [Controls -> SUBSET Occurrences]
    /\ runs \subseteq [key : Occurrences \X Minutes, of : Occurrences]
    /\ adopted \in [Triggers -> Minutes]
    /\ faults \in 0 .. MaxFaults

Init ==
    /\ now = 1
    /\ config \in [Controls -> Registries]
    /\ leader = NoProcess
    /\ session = [p \in Controls |-> "none"]
    /\ first = [p \in Controls |-> 0] /\ tick = [p \in Controls |-> 0]
    /\ cursor = [t \in Triggers |-> NoCursor]
    /\ row = [o \in Occurrences |-> NoRow]
    /\ held = [p \in Controls |-> Nothing]
    /\ acking = [p \in Controls |-> {}]
    /\ runs = {}
    /\ adopted = [t \in Triggers |-> 0]
    /\ faults = 0

-----------------------------------------------------------------------------
(***************************************************************************)
(* The producer.                                                           *)
(***************************************************************************)

producerVars == <<leader, session, first, tick>>
consumerVars == <<held, acking, runs>>

\* PostgreSQLSchedulerLeader.try_acquire: a live session is kept; a dead one is
\* given up, and the lock is taken on a new session if nobody holds it.
Acquires(p) == IF session[p] = "open" THEN leader = p ELSE leader = NoProcess

\* What self._clock() may say: the clocks of two processes need not agree, and
\* one that is corrected may say less than it did.
Readings == {m \in Minutes \ {0} : m <= now + MaxSkew /\ now <= m + MaxSkew}

\* tick_once up to enqueue_due: leadership, then the horizon.
Elect(p) ==
    /\ Queue = "postgresql"
    /\ tick[p] = 0
    /\ \/ /\ Acquires(p)
          /\ leader' = p
          /\ session' = [session EXCEPT ![p] = "open"]
          /\ \E m \in Readings :
               /\ tick' = [tick EXCEPT ![p] = m + 1]
               /\ first' = [first EXCEPT ![p] = IF @ = 0 THEN m ELSE @]
       \/ /\ ~Acquires(p) /\ session[p] = "lost"
          /\ session' = [session EXCEPT ![p] = "none"]
          /\ UNCHANGED <<leader, tick, first>>
    /\ UNCHANGED <<now, config, cursor, row, adopted, faults>> /\ UNCHANGED consumerVars

\* A catch-up page is limited by the minutes it scans and, if the trigger is
\* enabled, by the occurrences they may yield.
ScanHorizon(spec, at, horizon) ==
    LET page == IF spec.enabled /\ MaxDue < MaxScan THEN MaxDue ELSE MaxScan
    IN  IF at + page < horizon THEN at + page ELSE horizon

\* iter_schedule_occurrences: matching minutes after the cursor.
Due(spec, at, through) ==
    IF spec.enabled THEN {m \in spec.minutes : at < m /\ m <= through} ELSE {}

\* Mutant of Cutover: a page that is cut short still moves to the horizon.
CutoverToHorizon(stored, spec, horizon) == Cursor(spec, horizon)

\* The cursor that the transaction writes over a stored one: a changed spec is
\* cut over at the horizon, even one before the stored cursor.
Cutover(stored, spec, horizon) ==
    IF stored.spec # spec THEN Cursor(spec, horizon)
    ELSE Cursor(spec, ScanHorizon(spec, stored.at, horizon))

\* The row that a trigger starts from, and the minutes that it yields.
Stored(t, spec, initial) ==
    IF ~cursor[t].stored THEN Cursor(spec, initial) ELSE cursor[t]

Yields(t, spec, initial, horizon) ==
    LET stored == Stored(t, spec, initial)
    IN  IF stored.spec # spec THEN {}
        ELSE Due(spec, stored.at, ScanHorizon(spec, stored.at, horizon))

\* A cursor ahead of the horizon is an error, and so is an initial one.
Refused(p, horizon) ==
    \/ first[p] - 1 > horizon
    \/ \E t \in Triggers : /\ cursor[t].stored
                           /\ cursor[t].spec = config[p][t] /\ cursor[t].at > horizon

\* _enqueue_prepared: all triggers in one transaction on the leader's session.
\* INSERT ... ON CONFLICT DO NOTHING leaves an existing message alone.
Enqueue(p) ==
    LET horizon == tick[p] - 1
        initial == first[p] - 1
        due(t) == Yields(t, config[p][t], initial, horizon)
    IN  /\ tick[p] # 0
        /\ tick' = [tick EXCEPT ![p] = 0]
        /\ IF session[p] = "open" /\ ~Refused(p, horizon)
           THEN /\ cursor' = [t \in Triggers |->
                     Cutover(Stored(t, config[p][t], initial), config[p][t], horizon)]
                /\ adopted' = [t \in Triggers |->
                     IF ~cursor[t].stored THEN initial
                     ELSE IF cursor[t].spec # config[p][t] THEN horizon ELSE adopted[t]]
                /\ row' = [o \in Occurrences |->
                     IF o[2] = config[p][o[1]].plan /\ o[3] \in due(o[1]) /\ ~row[o].stored
                     THEN NewRow ELSE row[o]]
           ELSE UNCHANGED <<cursor, adopted, row>>
        /\ UNCHANGED <<now, config, leader, session, first, faults>>
        /\ UNCHANGED consumerVars

\* EventBridge Scheduler sends a wakeup to SQS when it is due, and may send it
\* twice (external).
Deliver(t, s) ==
    LET o == <<t, s.plan, now>>
    IN  /\ Queue = "sqs" /\ s.enabled /\ now \in s.minutes
        /\ ~row[o].stored
        /\ row' = [row EXCEPT ![o] = NewRow]
        /\ UNCHANGED <<now, config, cursor, adopted, faults>>
        /\ UNCHANGED producerVars /\ UNCHANGED consumerVars

-----------------------------------------------------------------------------
(***************************************************************************)
(* The queue and the consumer.                                             *)
(***************************************************************************)

\* receive first sets aside what has used up its deliveries.
Exhausted(r) == r.stored /\ ~r.dead /\ r.count >= MaxDeliveries /\ ~r.live

Visible(r) == r.stored /\ ~r.dead /\ r.count < MaxDeliveries /\ ~r.live

Idle(p) == held[p] = Nothing /\ acking[p] = {}

\* A batch: as many visible messages as there are, up to the limit.
Batches ==
    LET visible == {o \in Occurrences : Visible(row[o])}
    IN  {b \in SUBSET visible :
           Cardinality(b) = IF Cardinality(visible) < BatchSize
                            THEN Cardinality(visible) ELSE BatchSize}

\* Every message of the batch gets a fresh receipt, which makes the receipts
\* that others hold of it stale.
Receive(p) ==
    /\ Idle(p)
    /\ \E b \in Batches :
         /\ row' = [o \in Occurrences |->
              IF o \in b THEN [row[o] EXCEPT !.count = @ + 1, !.live = TRUE]
              ELSE IF Exhausted(row[o]) THEN [row[o] EXCEPT !.dead = TRUE, !.live = FALSE]
              ELSE row[o]]
         /\ held' = [q \in Controls |-> [o \in Occurrences |->
              IF o \in b THEN (IF q = p THEN "current"
                               ELSE IF held[q][o] = "none" THEN "none" ELSE "stale")
              ELSE held[q][o]]]
    /\ row' # row
    /\ UNCHANGED <<now, config, cursor, adopted, acking, runs, faults>>
    /\ UNCHANGED producerVars

\* Mutant of IdempotencyKey: a key per request.
IdempotencyKeyOfRequest(o, requested) == <<o, requested>>

\* schedule_occurrence_idempotency_key: stable across deliveries.
IdempotencyKey(o, requested) == <<o, 0>>

\* ScheduledRunSubmissionResolver.resolve accepts exactly the configured,
\* enabled plan.
Resolves(p, o) == config[p][o[1]].enabled /\ config[p][o[1]].plan = o[2]

\* lifecycle.start claims the key: a known key is the run that exists already.
\* The durable claim and the rest of start are modelled in ControlRuns.
Claimed(o) ==
    LET key == IdempotencyKey(o, now)
    IN  IF \E r \in runs : r.key = key THEN runs ELSE runs \union {[key |-> key, of |-> o]}

Drop(p, o) == held' = [held EXCEPT ![p][o] = "none"]

\* A message that does not resolve is left to be delivered again.
Reject(p, o) ==
    /\ held[p][o] # "none" /\ acking[p] = {} /\ ~Resolves(p, o)
    /\ Drop(p, o)
    /\ UNCHANGED <<now, config, cursor, adopted, row, acking, runs, faults>>
    /\ UNCHANGED producerVars

StartRun(p, o) ==
    /\ held[p][o] # "none" /\ acking[p] = {} /\ Resolves(p, o)
    /\ runs' = Claimed(o)
    /\ acking' = [acking EXCEPT ![p] = {o}]
    /\ UNCHANGED <<now, config, cursor, adopted, row, held, faults>>
    /\ UNCHANGED producerVars

\* DELETE ... WHERE receipt_handle = %s AND lease_until > clock_timestamp()
ReceiptAccepted(p, o) ==
    /\ row[o].stored /\ ~row[o].dead /\ row[o].live
    /\ held[p][o] = "current"

\* SQS accepts an old receipt, and may or may not delete the message then.
Delete(p, o) ==
    /\ o \in acking[p]
    /\ acking' = [acking EXCEPT ![p] = {}]
    /\ Drop(p, o)
    /\ row' \in {[row EXCEPT ![o] = IF ReceiptAccepted(p, o) THEN NoRow ELSE @]}
                \union (IF Queue = "sqs" THEN {[row EXCEPT ![o] = NoRow]} ELSE {})
    /\ UNCHANGED <<now, config, cursor, adopted, runs, faults>>
    /\ UNCHANGED producerVars

-----------------------------------------------------------------------------
(***************************************************************************)
(* Time and failures.                                                      *)
(***************************************************************************)

Advance ==
    /\ now < MaxMinute
    /\ now' = now + 1
    /\ UNCHANGED <<config, cursor, adopted, row, faults>>
    /\ UNCHANGED producerVars /\ UNCHANGED consumerVars

\* A visibility timeout runs out.
Expire(o) ==
    /\ row[o].live
    /\ row' = [row EXCEPT ![o].live = FALSE]
    /\ UNCHANGED <<now, config, cursor, adopted, faults>>
    /\ UNCHANGED producerVars /\ UNCHANGED consumerVars

Fault == faults < MaxFaults /\ faults' = faults + 1

\* The server drops the session; the process finds out when it uses it.
SessionLost(p) ==
    /\ Fault /\ session[p] = "open"
    /\ session' = [session EXCEPT ![p] = "lost"]
    /\ leader' = NoProcess
    /\ UNCHANGED <<now, config, first, tick, cursor, adopted, row>> /\ UNCHANGED consumerVars

\* resolve or start raises; start may have claimed the run before it did.
StartFails(p, o) ==
    /\ Fault /\ held[p][o] # "none" /\ acking[p] = {}
    /\ runs' \in {runs} \union (IF Resolves(p, o) THEN {Claimed(o)} ELSE {})
    /\ Drop(p, o)
    /\ UNCHANGED <<now, config, cursor, adopted, row, acking>> /\ UNCHANGED producerVars

\* delete fails, before or after it took effect.
DeleteFails(p, o) ==
    /\ Fault /\ o \in acking[p]
    /\ acking' = [acking EXCEPT ![p] = {}]
    /\ Drop(p, o)
    /\ row' \in {row, [row EXCEPT ![o] = IF ReceiptAccepted(p, o) THEN NoRow ELSE @]}
    /\ UNCHANGED <<now, config, cursor, adopted, runs>> /\ UNCHANGED producerVars

\* The answer of receive is lost: the messages are leased and nobody has them.
ReceiveFails(p) ==
    /\ Fault /\ Idle(p)
    /\ \E b \in Batches \ {{}} :
         /\ row' = [o \in Occurrences |->
              IF o \in b THEN [row[o] EXCEPT !.count = @ + 1, !.live = TRUE] ELSE row[o]]
         /\ held' = [q \in Controls |-> [o \in Occurrences |->
              IF o \in b /\ held[q][o] # "none" THEN "stale" ELSE held[q][o]]]
    /\ UNCHANGED <<now, config, cursor, adopted, acking, runs>> /\ UNCHANGED producerVars

\* The process is killed and replaced, perhaps by one with another registry.
Replace(p) ==
    /\ Fault
    /\ config' \in {[config EXCEPT ![p] = c] : c \in Registries}
    /\ leader' = IF leader = p THEN NoProcess ELSE leader
    /\ session' = [session EXCEPT ![p] = "none"]
    /\ first' = [first EXCEPT ![p] = 0] /\ tick' = [tick EXCEPT ![p] = 0]
    /\ held' = [held EXCEPT ![p] = Nothing] /\ acking' = [acking EXCEPT ![p] = {}]
    /\ UNCHANGED <<now, cursor, adopted, row, runs>>

Produce(p) == Elect(p) \/ Enqueue(p)

Consume(p) ==
    Receive(p) \/ \E o \in Occurrences : Reject(p, o) \/ StartRun(p, o) \/ Delete(p, o)

Fails(p) ==
    \/ SessionLost(p) \/ ReceiveFails(p) \/ Replace(p)
    \/ \E o \in Occurrences : StartFails(p, o) \/ DeleteFails(p, o)

Next ==
    \/ Advance \/ \E o \in Occurrences : Expire(o)
    \/ \E t \in Triggers, s \in Specs : Deliver(t, s)
    \/ \E p \in Controls : Produce(p) \/ Consume(p) \/ Fails(p)

Spec == Init /\ [][Next]_scheduleVars

-----------------------------------------------------------------------------
(***************************************************************************)
(* Properties.                                                             *)
(***************************************************************************)

HasRun(o) == \E r \in runs : r.of = o

\* Every occurrence that the present spec of a trigger has yielded since it took
\* over is in the queue, set aside as a dead letter, or has its run: neither a
\* cut-short page, a change of leader nor a consumer's delete loses one.
NothingLost ==
    \A t \in Triggers : cursor[t].stored =>
        \A m \in Due(cursor[t].spec, adopted[t], cursor[t].at) :
            LET o == <<t, cursor[t].spec.plan, m>>
            IN  row[o].stored \/ HasRun(o)

\* The phase of an occurrence as ScheduledRuns sees it.
Phase(o) ==
    IF HasRun(o) THEN "started"
    ELSE IF ~row[o].stored THEN "none"
    ELSE IF row[o].dead THEN "abandoned" ELSE "pending"

Promise == INSTANCE ScheduledRuns WITH
    Occurrences <- Occurrences,
    phase <- [o \in Occurrences |-> Phase(o)],
    starts <- [o \in Occurrences |-> Cardinality({r \in runs : r.of = o})]

\* Schedules keep the promise of ScheduledRuns: redelivery, retries, two leaders
\* in turn and late handlers start one run per occurrence and drop none.
KeepsPromise == [Promise!Next]_(Promise!occurrenceVars)

\* A cursor stays, and goes back only with its definition: leaders in turn whose
\* clocks disagree do not scan the minutes of one definition twice
\* (postgresql_schedule_queue.py: "The PostgreSQL schedule cursor is ahead of
\* time.").  A changed definition is cut over at the horizon of a leader whose
\* clock may be behind the stored cursor.
CursorHeld ==
    \A t \in Triggers : cursor[t].stored =>
        /\ cursor'[t].stored
        /\ cursor'[t].spec = cursor[t].spec => cursor'[t].at >= cursor[t].at

\* No wakeup exists before its minute by more than a clock may be fast, and so
\* no run is started earlier: a page ends at the horizon of a leader, however
\* long the tick took and whoever led in between.
NeverEarly ==
    \A o \in Occurrences : row[o].stored \/ HasRun(o) => o[3] <= now + MaxSkew

-----------------------------------------------------------------------------
(***************************************************************************)
(* Proofs: the producer.  The invariant says who may move the cursors (the *)
(* process whose session is open is the leader) and how far: the horizon   *)
(* of a tick is at most what a fast clock says.                            *)
(***************************************************************************)

\* A process knows its first cursor once it has had a tick.
TicksOK ==
    \A p \in Controls :
        /\ session[p] = "open" <=> leader = p
        /\ tick[p] # 0 => first[p] # 0 /\ tick[p] - 1 <= now + MaxSkew

\* The cursors that are stored.
CursorsOK ==
    \A t \in Triggers : cursor[t].stored => cursor[t].spec \in Specs /\ cursor[t].at \in Nat

ProducerInv ==
    /\ now \in Nat \ {0} /\ config \in [Controls -> Registries]
    /\ session \in [Controls -> {"none", "open", "lost"}]
    /\ first \in [Controls -> Nat] /\ tick \in [Controls -> Nat]
    /\ TicksOK /\ CursorsOK

\* A page of a catch-up ends between the cursor and the horizon.
LEMMA PageIsInRange ==
    ASSUME ScheduleAssumption, NEW spec \in Specs, NEW at \in Nat, NEW horizon \in Nat, at <= horizon
    PROVE  /\ ScanHorizon(spec, at, horizon) \in Nat
           /\ at <= ScanHorizon(spec, at, horizon) /\ ScanHorizon(spec, at, horizon) <= horizon
BY DEF ScheduleAssumption, ScanHorizon

\* What the transaction of a leader writes to a cursor.
LEMMA CursorWritten ==
    ASSUME ScheduleAssumption, ProducerInv, NEW p \in Controls, Enqueue(p), session[p] = "open", ~Refused(p, tick[p] - 1),
           NEW t \in Triggers
    PROVE  LET horizon == tick[p] - 1 IN
           /\ cursor'[t].stored /\ cursor'[t].spec = config[p][t] /\ config[p][t] \in Specs
           /\ horizon \in Nat /\ first[p] - 1 \in Nat /\ first[p] - 1 <= horizon /\ horizon <= now + MaxSkew
           /\ cursor'[t].at \in Nat /\ cursor'[t].at <= horizon
           /\ cursor[t].stored /\ cursor[t].spec = config[p][t] => cursor[t].at <= cursor'[t].at
           /\ cursor'[t].at = IF ~cursor[t].stored THEN ScanHorizon(config[p][t], first[p] - 1, horizon)
                              ELSE IF cursor[t].spec # config[p][t] THEN horizon
                              ELSE ScanHorizon(config[p][t], cursor[t].at, horizon)
<1> DEFINE horizon == tick[p] - 1
           initial == first[p] - 1
           spec == config[p][t]
<1>1. /\ horizon \in Nat /\ initial \in Nat /\ initial <= horizon /\ horizon <= now + MaxSkew /\ spec \in Specs
  <2>1. tick[p] \in Nat /\ first[p] \in Nat /\ now \in Nat /\ config[p] \in Registries
    BY DEF ProducerInv
  <2>2. tick[p] # 0 /\ first[p] # 0 /\ tick[p] - 1 <= now + MaxSkew
    BY DEF ProducerInv, TicksOK, Enqueue
  <2>3. spec \in Specs
    BY <2>1 DEF Registries
  <2>4. initial <= horizon
    BY <2>1, <2>2 DEF Refused
  <2> QED BY <2>1, <2>2, <2>3, <2>4
<1>2. cursor[t].stored /\ cursor[t].spec = spec => cursor[t].at \in Nat /\ cursor[t].at <= horizon
  BY <1>1 DEF ProducerInv, CursorsOK, Refused
<1>3. cursor'[t] = Cutover(Stored(t, spec, initial), spec, horizon)
  BY DEF Enqueue
<1>4. CASE ~cursor[t].stored
  <2>1. cursor'[t] = Cursor(spec, ScanHorizon(spec, initial, horizon))
    BY <1>3, <1>4 DEF Stored, Cutover, Cursor
  <2> QED BY <1>1, <1>4, <2>1, PageIsInRange DEF Cursor
<1>5. CASE cursor[t].stored /\ cursor[t].spec # spec
  <2>1. cursor'[t] = Cursor(spec, horizon)
    BY <1>3, <1>5 DEF Stored, Cutover
  <2> QED BY <1>1, <1>5, <2>1 DEF Cursor
<1>6. CASE cursor[t].stored /\ cursor[t].spec = spec
  <2>1. cursor'[t] = Cursor(spec, ScanHorizon(spec, cursor[t].at, horizon))
    BY <1>3, <1>6 DEF Stored, Cutover
  <2> QED BY <1>1, <1>2, <1>6, <2>1, PageIsInRange DEF Cursor
<1> QED BY <1>4, <1>5, <1>6

\* The initial state.
LEMMA ProducerInit ==
    ASSUME ScheduleAssumption, Init
    PROVE  ProducerInv
BY DEF ScheduleAssumption, Init, ProducerInv, TicksOK, CursorsOK, NoCursor

\* A leader is elected, or a process notices that its session is gone.
LEMMA ElectInv ==
    ASSUME ScheduleAssumption, ProducerInv, NEW p \in Controls, Elect(p)
    PROVE  ProducerInv' /\ CursorHeld
<1>1. UNCHANGED <<now, config, cursor>> /\ tick[p] = 0
  BY DEF Elect
<1>2. ASSUME NEW m \in Readings,
             Acquires(p) /\ leader' = p /\ session' = [session EXCEPT ![p] = "open"],
             tick' = [tick EXCEPT ![p] = m + 1],
             first' = [first EXCEPT ![p] = IF @ = 0 THEN m ELSE @]
      PROVE  ProducerInv' /\ CursorHeld
  <2>0. m \in Nat \ {0} /\ m <= now + MaxSkew
    BY DEF Readings, Minutes, ScheduleAssumption, ProducerInv
  <2>1. \A q \in Controls \ {p} : session[q] # "open" /\ leader # q
    BY <1>2 DEF Acquires, ProducerInv, TicksOK, ScheduleAssumption
  <2>2. /\ session' \in [Controls -> {"none", "open", "lost"}]
        /\ first' \in [Controls -> Nat] /\ tick' \in [Controls -> Nat]
    BY <1>2, <2>0 DEF ProducerInv
  <2>3. TicksOK'
    BY <1>1, <1>2, <2>0, <2>1 DEF ProducerInv, TicksOK
  <2>4. CursorsOK'
    BY <1>1 DEF ProducerInv, CursorsOK
  <2> QED BY <1>1, <2>2, <2>3, <2>4 DEF ProducerInv, CursorHeld, CursorsOK
<1>3. CASE ~Acquires(p) /\ session[p] = "lost" /\ session' = [session EXCEPT ![p] = "none"] /\ UNCHANGED <<leader, tick, first>>
  BY <1>1, <1>3 DEF ProducerInv, TicksOK, CursorsOK, CursorHeld
<1> QED BY <1>2, <1>3 DEF Elect

\* The transaction of a leader, or the tick of a process that no longer is one.
LEMMA EnqueueInv ==
    ASSUME ScheduleAssumption, ProducerInv, NEW p \in Controls, Enqueue(p)
    PROVE  ProducerInv' /\ CursorHeld
<1>1. UNCHANGED <<now, config, leader, session, first>> /\ tick' = [tick EXCEPT ![p] = 0] /\ tick[p] # 0
  BY DEF Enqueue
<1>2. CASE session[p] = "open" /\ ~Refused(p, tick[p] - 1)
  <2>1. \A t \in Triggers : /\ cursor'[t].stored /\ cursor'[t].spec \in Specs /\ cursor'[t].at \in Nat
                            /\ cursor[t].stored /\ cursor'[t].spec = cursor[t].spec => cursor'[t].at >= cursor[t].at
    <3> TAKE t \in Triggers
    <3>1. /\ cursor'[t].stored /\ cursor'[t].spec = config[p][t] /\ config[p][t] \in Specs /\ cursor'[t].at \in Nat
          /\ cursor[t].stored /\ cursor[t].spec = config[p][t] => cursor[t].at <= cursor'[t].at
      BY <1>2, CursorWritten
    <3>2. cursor[t].stored => cursor[t].at \in Nat
      BY DEF ProducerInv, CursorsOK
    <3> QED BY <3>1, <3>2
  <2>2. TicksOK' /\ CursorsOK' /\ tick' \in [Controls -> Nat]
    BY <1>1, <2>1 DEF ProducerInv, TicksOK, CursorsOK
  <2> QED BY <1>1, <2>1, <2>2 DEF ProducerInv, CursorHeld
<1>3. CASE ~(session[p] = "open" /\ ~Refused(p, tick[p] - 1))
  <2>1. cursor' = cursor
    BY <1>3 DEF Enqueue
  <2> QED BY <1>1, <2>1 DEF ProducerInv, TicksOK, CursorsOK, CursorHeld
<1> QED BY <1>2, <1>3

\* Time, lost sessions and replaced processes; and the steps that leave the
\* producer alone.
LEMMA ProducerStep ==
    ASSUME ScheduleAssumption, ProducerInv, [Next]_scheduleVars
    PROVE  ProducerInv' /\ CursorHeld
<1>1. CASE UNCHANGED <<now, config, cursor, leader, session, first, tick>>
  BY <1>1 DEF ProducerInv, TicksOK, CursorsOK, CursorHeld
<1>2. CASE Advance
  <2>1. now' = now + 1 /\ UNCHANGED <<config, cursor, leader, session, first, tick>>
    BY <1>2 DEF Advance, producerVars
  <2> QED BY <2>1 DEF ProducerInv, TicksOK, CursorsOK, CursorHeld, ScheduleAssumption
<1>3. ASSUME NEW p \in Controls, SessionLost(p) PROVE ProducerInv' /\ CursorHeld
  <2>1. /\ session[p] = "open" /\ session' = [session EXCEPT ![p] = "lost"] /\ leader' = NoProcess
        /\ UNCHANGED <<now, config, first, tick, cursor>>
    BY <1>3 DEF SessionLost
  <2>2. TicksOK'
    BY <2>1 DEF ProducerInv, TicksOK, ScheduleAssumption
  <2>3. CursorsOK' /\ CursorHeld
    BY <2>1 DEF ProducerInv, CursorsOK, CursorHeld
  <2> QED BY <2>1, <2>2, <2>3 DEF ProducerInv
<1>4. ASSUME NEW p \in Controls, Replace(p) PROVE ProducerInv' /\ CursorHeld
  <2>1. /\ config' \in [Controls -> Registries] /\ leader' = (IF leader = p THEN NoProcess ELSE leader)
        /\ session' = [session EXCEPT ![p] = "none"]
        /\ first' = [first EXCEPT ![p] = 0] /\ tick' = [tick EXCEPT ![p] = 0]
        /\ UNCHANGED <<now, cursor>>
    BY <1>4 DEF Replace, ProducerInv
  <2>2. TicksOK'
    BY <2>1 DEF ProducerInv, TicksOK, ScheduleAssumption
  <2>3. CursorsOK' /\ CursorHeld
    BY <2>1 DEF ProducerInv, CursorsOK, CursorHeld
  <2> QED BY <2>1, <2>2, <2>3 DEF ProducerInv
<1>5. ASSUME NEW p \in Controls, Produce(p) PROVE ProducerInv' /\ CursorHeld
  BY <1>5, ElectInv, EnqueueInv DEF Produce
<1>6. ASSUME NEW p \in Controls, Consume(p) PROVE UNCHANGED <<now, config, cursor, leader, session, first, tick>>
  BY <1>6 DEF Consume, Receive, Reject, StartRun, Delete, producerVars
<1>7. ASSUME NEW p \in Controls, ReceiveFails(p) \/ \E o \in Occurrences : StartFails(p, o) \/ DeleteFails(p, o)
      PROVE  UNCHANGED <<now, config, cursor, leader, session, first, tick>>
  BY <1>7 DEF ReceiveFails, StartFails, DeleteFails, producerVars
<1>8. ASSUME NEW o \in Occurrences, Expire(o) PROVE UNCHANGED <<now, config, cursor, leader, session, first, tick>>
  BY <1>8 DEF Expire, producerVars
<1>9. ASSUME NEW t \in Triggers, NEW s \in Specs, Deliver(t, s)
      PROVE  UNCHANGED <<now, config, cursor, leader, session, first, tick>>
  BY <1>9 DEF Deliver, producerVars
<1> QED BY <1>1, <1>2, <1>3, <1>4, <1>5, <1>6, <1>7, <1>8, <1>9 DEF Next, Fails, scheduleVars

\* A stored cursor goes back only with its definition, whichever processes lead
\* with whatever clocks, are replaced or lose their session in the middle of a
\* tick.
THEOREM CursorsFollowTheirSpec ==
    ASSUME ScheduleAssumption
    PROVE  Spec => [][CursorHeld]_scheduleVars
<1>1. Init => ProducerInv
  BY ProducerInit
<1>2. ProducerInv /\ [Next]_scheduleVars => ProducerInv' /\ CursorHeld
  BY ProducerStep
<1> QED BY <1>1, <1>2, PTL DEF Spec

-----------------------------------------------------------------------------
(***************************************************************************)
(* Proofs: the queue and the consumers.  A message that somebody holds is  *)
(* in the queue or has its run; a message is deleted only by somebody who  *)
(* has started its run; and there is one run per key.                      *)
(***************************************************************************)

RunOf(o) == [key |-> <<o, 0>>, of |-> o]

\* An occurrence that was produced and not dropped.
Kept(o) == row[o].stored \/ HasRun(o)

QueueInv ==
    /\ row \in [Occurrences -> Rows] /\ held \in [Controls -> [Occurrences -> Receipt]]
    /\ acking \in [Controls -> SUBSET Occurrences]
    /\ runs \subseteq {RunOf(o) : o \in Occurrences}
    /\ \A p \in Controls, o \in Occurrences : held[p][o] # "none" => Kept(o)
    /\ \A p \in Controls : \A o \in acking[p] : HasRun(o)

\* A step keeps what was produced, and every run.
Keeps == \A o \in Occurrences : (HasRun(o) => HasRun(o)') /\ (Kept(o) => Kept(o)')

\* The run of an occurrence is the one with its key.
LEMMA OneRun ==
    ASSUME QueueInv, NEW o \in Occurrences
    PROVE  /\ HasRun(o) <=> RunOf(o) \in runs
           /\ {r \in runs : r.of = o} = IF HasRun(o) THEN {RunOf(o)} ELSE {}
           /\ Claimed(o) = runs \union {RunOf(o)}
<1>1. \A r \in runs : \E b \in Occurrences : r = RunOf(b) /\ r.of = b /\ r.key = <<b, 0>>
  BY DEF QueueInv, RunOf
<1>2. RunOf(o).of = o /\ RunOf(o).key = <<o, 0>>
  BY DEF RunOf
<1>3. \A r \in runs : (r.of = o => r = RunOf(o)) /\ (r.key = <<o, 0>> => r = RunOf(o))
  BY <1>1
<1>4. HasRun(o) <=> RunOf(o) \in runs
  BY <1>2, <1>3 DEF HasRun
<1>5. {r \in runs : r.of = o} = IF HasRun(o) THEN {RunOf(o)} ELSE {}
  BY <1>2, <1>3, <1>4
<1>6. Claimed(o) = runs \union {RunOf(o)}
  BY <1>2, <1>3 DEF Claimed, IdempotencyKey, RunOf
<1> QED BY <1>4, <1>5, <1>6

\* Claiming the run of o starts it if it was not started, and nothing else.
LEMMA ClaimsOne ==
    ASSUME QueueInv, NEW o \in Occurrences, runs' = Claimed(o)
    PROVE  /\ runs' \subseteq {RunOf(b) : b \in Occurrences} /\ HasRun(o)'
           /\ \A b \in Occurrences \ {o} : HasRun(b)' = HasRun(b) /\ {r \in runs' : r.of = b} = {r \in runs : r.of = b}
           /\ {r \in runs' : r.of = o} = {RunOf(o)}
           /\ HasRun(o) => runs' = runs
<1>1. runs' = runs \union {RunOf(o)} /\ RunOf(o).of = o
  BY OneRun DEF RunOf
<1>2. {r \in runs : r.of = o} \subseteq {RunOf(o)}
  BY OneRun
<1> QED BY <1>1, <1>2, OneRun DEF HasRun, QueueInv

\* What a step leaves of the invariant.
LEMMA QueueStep ==
    ASSUME QueueInv, Keeps, row' \in [Occurrences -> Rows], held' \in [Controls -> [Occurrences -> Receipt]],
           acking' \in [Controls -> SUBSET Occurrences], runs' \subseteq {RunOf(o) : o \in Occurrences},
           \A p \in Controls, o \in Occurrences : held'[p][o] # "none" => held[p][o] # "none" \/ Kept(o)',
           \A p \in Controls : \A o \in acking'[p] : o \in acking[p] \/ HasRun(o)'
    PROVE  QueueInv'
BY DEF QueueInv, Keeps, Kept

\* Nobody starts a run: the phases may stay, and so may the promise.
LEMMA PhasesStay ==
    ASSUME runs' = runs, \A o \in Occurrences : Phase(o)' = Phase(o)
    PROVE  KeepsPromise
BY DEF KeepsPromise, Promise!occurrenceVars

\* Some occurrences are produced.
LEMMA PhasesProduced ==
    ASSUME runs' = runs,
           \A o \in Occurrences : Phase(o)' = Phase(o) \/ (Phase(o) = "none" /\ Phase(o)' = "pending")
    PROVE  KeepsPromise
<1>1. Promise!Produce
  BY DEF Promise!Produce, Promise!Move
<1> QED BY <1>1 DEF KeepsPromise, Promise!Next

\* Some occurrences are set aside.
LEMMA PhasesAbandoned ==
    ASSUME runs' = runs,
           \A o \in Occurrences : Phase(o)' = Phase(o) \/ (Phase(o) = "pending" /\ Phase(o)' = "abandoned")
    PROVE  KeepsPromise
<1>1. Promise!Abandon
  BY DEF Promise!Abandon, Promise!Move
<1> QED BY <1>1 DEF KeepsPromise, Promise!Next

\* The run of an occurrence that somebody holds is claimed.
LEMMA PhasesStarted ==
    ASSUME QueueInv, NEW p \in Controls, NEW o \in Occurrences, held[p][o] # "none", runs' = Claimed(o), row' = row
    PROVE  KeepsPromise
<1>1. CASE HasRun(o)
  <2>1. runs' = runs
    BY <1>1, ClaimsOne
  <2> QED BY <2>1, PhasesStay DEF Phase, HasRun
<1>2. CASE ~HasRun(o)
  <2>1. row[o].stored
    BY <1>2 DEF QueueInv, Kept
  <2>2. Phase(o) \in {"pending", "abandoned"} /\ Phase(o)' = "started"
    BY <1>2, <2>1, ClaimsOne DEF Phase
  <2>3. \A b \in Occurrences \ {o} : Phase(b)' = Phase(b)
    BY ClaimsOne DEF Phase
  <2>4. Cardinality({r \in runs' : r.of = o}) = 1
    BY ClaimsOne, FS_Singleton
  <2>5. \A b \in Occurrences \ {o} : Cardinality({r \in runs' : r.of = b}) = Cardinality({r \in runs : r.of = b})
    BY ClaimsOne
  <2>6. [b \in Occurrences |-> Phase(b)]' = [[b \in Occurrences |-> Phase(b)] EXCEPT ![o] = "started"]
    BY <2>2, <2>3
  <2>7. [b \in Occurrences |-> Cardinality({r \in runs : r.of = b})]'
            = [[b \in Occurrences |-> Cardinality({r \in runs : r.of = b})] EXCEPT ![o] = 1]
    BY <2>4, <2>5
  <2>8. Promise!StartRun(o)
    BY <2>2, <2>6, <2>7 DEF Promise!StartRun
  <2> QED BY <2>8 DEF KeepsPromise, Promise!Next
<1> QED BY <1>1, <1>2

\* The producers leave the consumers alone, and add rows.
LEMMA RowsAdded ==
    ASSUME QueueInv, UNCHANGED consumerVars, row' \in [Occurrences -> Rows],
           \A o \in Occurrences : row'[o] = row[o] \/ (~row[o].stored /\ row'[o] = NewRow)
    PROVE  QueueInv' /\ Keeps /\ KeepsPromise
<1>1. UNCHANGED <<held, acking, runs>> /\ \A o \in Occurrences : HasRun(o)' = HasRun(o)
  BY DEF consumerVars, HasRun
<1>2. \A o \in Occurrences : row[o].stored => row'[o] = row[o]
  OBVIOUS
<1>3. Keeps
  BY <1>1, <1>2 DEF Keeps, Kept
<1>4. QueueInv'
  BY <1>1, <1>3, QueueStep DEF QueueInv
<1>5. \A o \in Occurrences : Phase(o)' = Phase(o) \/ (Phase(o) = "none" /\ Phase(o)' = "pending")
  BY <1>1 DEF Phase, NewRow
<1> QED BY <1>1, <1>3, <1>4, <1>5, PhasesProduced

\* A leader's transaction, and a wakeup from EventBridge.
LEMMA ProduceRows ==
    ASSUME ScheduleAssumption, QueueInv,
           (\E p \in Controls : Enqueue(p)) \/ (\E t \in Triggers, s \in Specs : Deliver(t, s))
    PROVE  QueueInv' /\ Keeps /\ KeepsPromise
<1>1. NewRow \in Rows
  BY DEF NewRow, Rows, ScheduleAssumption
<1>2. CASE \E p \in Controls : Enqueue(p)
  <2>1. /\ UNCHANGED consumerVars /\ row' \in [Occurrences -> Rows]
        /\ \A o \in Occurrences : row'[o] = row[o] \/ (~row[o].stored /\ row'[o] = NewRow)
    BY <1>1, <1>2 DEF Enqueue, QueueInv
  <2> QED BY <2>1, RowsAdded
<1>3. CASE \E t \in Triggers, s \in Specs : Deliver(t, s)
  <2>1. /\ UNCHANGED consumerVars /\ row' \in [Occurrences -> Rows]
        /\ \A o \in Occurrences : row'[o] = row[o] \/ (~row[o].stored /\ row'[o] = NewRow)
    BY <1>1, <1>3 DEF Deliver, QueueInv
  <2> QED BY <2>1, RowsAdded
<1> QED BY <1>2, <1>3

\* Messages are leased, or set aside when their deliveries are used up.
LEMMA ReceiveInv ==
    ASSUME ScheduleAssumption, QueueInv, NEW p \in Controls, Receive(p) \/ ReceiveFails(p)
    PROVE  QueueInv' /\ Keeps /\ KeepsPromise
<1>1. UNCHANGED <<acking, runs>> /\ \A o \in Occurrences : HasRun(o)' = HasRun(o)
  BY DEF Receive, ReceiveFails, HasRun
<1>2. PICK b \in Batches :
        /\ \A o \in Occurrences :
              row'[o] = IF o \in b THEN [row[o] EXCEPT !.count = @ + 1, !.live = TRUE]
                        ELSE IF Receive(p) /\ Exhausted(row[o]) THEN [row[o] EXCEPT !.dead = TRUE, !.live = FALSE]
                        ELSE row[o]
        /\ held' \in [Controls -> [Occurrences -> Receipt]]
        /\ \A q \in Controls, o \in Occurrences :
              held'[q][o] # "none" => held[q][o] # "none" \/ o \in b
        /\ DOMAIN row' = Occurrences /\ row' = [o \in Occurrences |-> row'[o]]
  <2>1. CASE Receive(p)
    <3>1. PICK b \in Batches :
         /\ row' = [o \in Occurrences |->
              IF o \in b THEN [row[o] EXCEPT !.count = @ + 1, !.live = TRUE]
              ELSE IF Exhausted(row[o]) THEN [row[o] EXCEPT !.dead = TRUE, !.live = FALSE]
              ELSE row[o]]
         /\ held' = [q \in Controls |-> [o \in Occurrences |->
              IF o \in b THEN (IF q = p THEN "current"
                               ELSE IF held[q][o] = "none" THEN "none" ELSE "stale")
              ELSE held[q][o]]]
      BY <2>1 DEF Receive
    <3>2. held' \in [Controls -> [Occurrences -> Receipt]]
      BY <3>1 DEF QueueInv, Receipt
    <3>3. \A q \in Controls, o \in Occurrences : held'[q][o] # "none" => held[q][o] # "none" \/ o \in b
      BY <3>1
    <3> WITNESS b \in Batches
    <3> QED BY <2>1, <3>1, <3>2, <3>3
  <2>2. CASE ReceiveFails(p) /\ ~Receive(p)
    <3>1. PICK b \in Batches :
         /\ row' = [o \in Occurrences |->
              IF o \in b THEN [row[o] EXCEPT !.count = @ + 1, !.live = TRUE] ELSE row[o]]
         /\ held' = [q \in Controls |-> [o \in Occurrences |->
              IF o \in b /\ held[q][o] # "none" THEN "stale" ELSE held[q][o]]]
      BY <2>2 DEF ReceiveFails
    <3>2. held' \in [Controls -> [Occurrences -> Receipt]]
      BY <3>1 DEF QueueInv, Receipt
    <3>3. \A q \in Controls, o \in Occurrences : held'[q][o] # "none" => held[q][o] # "none" \/ o \in b
      BY <3>1
    <3> WITNESS b \in Batches
    <3> QED BY <2>2, <3>1, <3>2, <3>3
  <2> QED BY <2>1, <2>2
<1>3. \A o \in Occurrences : row[o] \in Rows
  BY DEF QueueInv
<1>4. \A o \in b : Visible(row[o]) /\ o \in Occurrences
  BY DEF Batches
<1>5. ASSUME NEW o \in Occurrences
      PROVE  /\ row'[o] \in Rows /\ row'[o].stored = row[o].stored
             /\ row'[o].dead = row[o].dead \/ (row[o].stored /\ ~row[o].dead /\ row'[o].dead)
  <2>1. CASE o \in b
    <3>1. row[o].count + 1 \in 0 .. MaxDeliveries
      BY <1>3, <1>4, <2>1 DEF Visible, Rows, ScheduleAssumption
    <3>2. row'[o] = [row[o] EXCEPT !.count = row[o].count + 1, !.live = TRUE]
      BY <1>2, <2>1
    <3>3. /\ row'[o].stored = row[o].stored /\ row'[o].dead = row[o].dead
          /\ row'[o].count = row[o].count + 1 /\ row'[o].live = TRUE
      BY <1>3, <3>2 DEF Rows
    <3>4. row'[o] \in Rows
      BY <1>3, <3>1, <3>2 DEF Rows
    <3> QED BY <3>3, <3>4
  <2>2. CASE o \notin b /\ Receive(p) /\ Exhausted(row[o])
    <3>1. row'[o] = [row[o] EXCEPT !.dead = TRUE, !.live = FALSE]
      BY <1>2, <2>2
    <3> QED BY <1>3, <2>2, <3>1 DEF Exhausted, Rows
  <2>3. CASE o \notin b /\ ~(Receive(p) /\ Exhausted(row[o]))
    BY <1>2, <1>3, <2>3
  <2> QED BY <2>1, <2>2, <2>3
<1>6. row' \in [Occurrences -> Rows]
  BY <1>2, <1>5
<1>7. Keeps
  BY <1>1, <1>5 DEF Keeps, Kept
<1>8. \A q \in Controls, o \in Occurrences : held'[q][o] # "none" => held[q][o] # "none" \/ Kept(o)'
  BY <1>2, <1>4, <1>5 DEF Kept, Visible
<1>9. QueueInv'
  BY <1>1, <1>2, <1>6, <1>7, <1>8, QueueStep DEF QueueInv
<1>10. \A o \in Occurrences : Phase(o)' = Phase(o) \/ (Phase(o) = "pending" /\ Phase(o)' = "abandoned")
  BY <1>1, <1>3, <1>5 DEF Phase, Rows
<1> QED BY <1>1, <1>7, <1>9, <1>10, PhasesAbandoned

\* A message is put down.
LEMMA Dropped ==
    ASSUME QueueInv, NEW p \in Controls, NEW o \in Occurrences, Drop(p, o)
    PROVE  /\ held' \in [Controls -> [Occurrences -> Receipt]]
           /\ \A q \in Controls, b \in Occurrences : held'[q][b] # "none" => held[q][b] # "none"
BY DEF QueueInv, Drop, Receipt

\* A run is started, or fails to, or its message does not resolve.
LEMMA StartInv ==
    ASSUME QueueInv, NEW p \in Controls, NEW o \in Occurrences, Reject(p, o) \/ StartRun(p, o) \/ StartFails(p, o)
    PROVE  QueueInv' /\ Keeps /\ KeepsPromise
<1>1. row' = row /\ held[p][o] # "none" /\ runs' \in {runs, Claimed(o)}
  BY DEF Reject, StartRun, StartFails
<1>2. /\ held' \in [Controls -> [Occurrences -> Receipt]]
      /\ \A q \in Controls, b \in Occurrences : held'[q][b] # "none" => held[q][b] # "none"
  BY Dropped DEF Reject, StartRun, StartFails, QueueInv
<1>3. /\ runs' \subseteq {RunOf(b) : b \in Occurrences}
      /\ \A b \in Occurrences : HasRun(b) => HasRun(b)'
  BY <1>1, ClaimsOne DEF QueueInv, HasRun
<1>4. Keeps
  BY <1>1, <1>3 DEF Keeps, Kept
<1>5. /\ acking' \in [Controls -> SUBSET Occurrences]
      /\ \A q \in Controls : \A b \in acking'[q] : b \in acking[q] \/ HasRun(b)'
  <2>1. CASE acking' = acking
    BY <2>1 DEF QueueInv
  <2>2. CASE StartRun(p, o)
    <3>1. HasRun(o)' /\ acking' = [acking EXCEPT ![p] = {o}]
      BY <2>2, ClaimsOne DEF StartRun
    <3> QED BY <3>1 DEF QueueInv
  <2> QED BY <2>1, <2>2 DEF Reject, StartFails
<1>6. QueueInv'
  BY <1>1, <1>2, <1>3, <1>4, <1>5, QueueStep DEF QueueInv
<1>7. CASE runs' = runs
  BY <1>1, <1>4, <1>6, <1>7, PhasesStay DEF Phase, HasRun
<1>8. CASE runs' = Claimed(o)
  BY <1>1, <1>4, <1>6, <1>8, PhasesStarted
<1> QED BY <1>1, <1>7, <1>8

\* A message is deleted by a consumer that has started its run.
LEMMA DeleteInv ==
    ASSUME ScheduleAssumption, QueueInv, NEW p \in Controls, NEW o \in Occurrences, Delete(p, o) \/ DeleteFails(p, o)
    PROVE  QueueInv' /\ Keeps /\ KeepsPromise
<1>1. /\ o \in acking[p] /\ acking' = [acking EXCEPT ![p] = {}] /\ Drop(p, o) /\ runs' = runs
      /\ row' \in {row, [row EXCEPT ![o] = row[o]], [row EXCEPT ![o] = NoRow]}
  BY DEF Delete, DeleteFails
<1>2. HasRun(o) /\ \A b \in Occurrences : HasRun(b)' = HasRun(b)
  BY <1>1 DEF QueueInv, HasRun
<1>3. NoRow \in Rows
  BY DEF NoRow, Rows, ScheduleAssumption
<1>4. row' \in [Occurrences -> Rows] /\ \A b \in Occurrences \ {o} : row'[b] = row[b]
  BY <1>1, <1>3 DEF QueueInv
<1>5. Keeps
  BY <1>2, <1>4 DEF Keeps, Kept
<1>6. /\ acking' \in [Controls -> SUBSET Occurrences]
      /\ \A q \in Controls : \A b \in acking'[q] : b \in acking[q]
  BY <1>1 DEF QueueInv
<1>7. QueueInv'
  BY <1>1, <1>4, <1>5, <1>6, Dropped, QueueStep DEF QueueInv
<1>8. \A b \in Occurrences : Phase(b)' = Phase(b)
  BY <1>2, <1>4 DEF Phase
<1> QED BY <1>1, <1>5, <1>7, <1>8, PhasesStay

\* Every step keeps the invariant and the promise.
LEMMA QueueInvStep ==
    ASSUME ScheduleAssumption, QueueInv, [Next]_scheduleVars
    PROVE  QueueInv' /\ Keeps /\ KeepsPromise
<1>1. CASE UNCHANGED <<row, held, acking, runs>>
  <2>1. Keeps
    BY <1>1 DEF Keeps, Kept, HasRun
  <2>2. QueueInv'
    BY <1>1, <2>1, QueueStep DEF QueueInv
  <2> QED BY <1>1, <2>1, <2>2, PhasesStay DEF Phase, HasRun
<1>2. ASSUME NEW o \in Occurrences, Expire(o) PROVE QueueInv' /\ Keeps /\ KeepsPromise
  <2>1. UNCHANGED <<held, acking, runs>> /\ row' = [row EXCEPT ![o].live = FALSE]
    BY <1>2 DEF Expire, consumerVars
  <2>2. /\ row' \in [Occurrences -> Rows]
        /\ \A b \in Occurrences : row'[b].stored = row[b].stored /\ row'[b].dead = row[b].dead
    BY <2>1 DEF QueueInv, Rows
  <2>3. Keeps
    BY <2>1, <2>2 DEF Keeps, Kept, HasRun
  <2>4. QueueInv'
    BY <2>1, <2>2, <2>3, QueueStep DEF QueueInv
  <2>5. \A b \in Occurrences : Phase(b)' = Phase(b)
    BY <2>1, <2>2 DEF Phase, HasRun
  <2> QED BY <2>1, <2>3, <2>4, <2>5, PhasesStay
<1>3. ASSUME NEW p \in Controls, Replace(p) PROVE QueueInv' /\ Keeps /\ KeepsPromise
  <2>1. /\ UNCHANGED <<row, runs>> /\ held' = [held EXCEPT ![p] = Nothing] /\ acking' = [acking EXCEPT ![p] = {}]
    BY <1>3 DEF Replace
  <2>2. Nothing \in [Occurrences -> Receipt] /\ \A b \in Occurrences : Nothing[b] = "none"
    BY DEF Nothing, Receipt
  <2>3. Keeps
    BY <2>1 DEF Keeps, Kept, HasRun
  <2>4. QueueInv'
    BY <2>1, <2>2, <2>3, QueueStep DEF QueueInv
  <2> QED BY <2>1, <2>3, <2>4, PhasesStay DEF Phase, HasRun
<1>4. ASSUME NEW p \in Controls, Elect(p) \/ SessionLost(p) PROVE UNCHANGED <<row, held, acking, runs>>
  BY <1>4 DEF Elect, SessionLost, consumerVars
<1>5. Advance => UNCHANGED <<row, held, acking, runs>>
  BY DEF Advance, consumerVars
<1>6. ASSUME NEW p \in Controls, Consume(p) PROVE QueueInv' /\ Keeps /\ KeepsPromise
  BY <1>6, ReceiveInv, StartInv, DeleteInv DEF Consume
<1>7. ASSUME NEW p \in Controls, Fails(p) PROVE QueueInv' /\ Keeps /\ KeepsPromise
  BY <1>1, <1>3, <1>4, <1>7, ReceiveInv, StartInv, DeleteInv DEF Fails
<1>8. ASSUME NEW p \in Controls, Produce(p) PROVE QueueInv' /\ Keeps /\ KeepsPromise
  BY <1>1, <1>4, <1>8, ProduceRows DEF Produce
<1> QED BY <1>1, <1>2, <1>5, <1>6, <1>7, <1>8, ProduceRows DEF Next, scheduleVars

\* The initial state.
LEMMA QueueInit ==
    ASSUME ScheduleAssumption, Init
    PROVE  QueueInv /\ Promise!Init
<1>1. NoRow \in Rows /\ Nothing \in [Occurrences -> Receipt] /\ ~NoRow.stored
  BY DEF NoRow, Rows, Nothing, Receipt, ScheduleAssumption
<1>2. \A o \in Occurrences : ~HasRun(o) /\ row[o] = NoRow /\ Nothing[o] = "none"
  BY DEF Init, HasRun, Nothing
<1>3. QueueInv
  BY <1>1, <1>2 DEF Init, QueueInv
<1>4. \A o \in Occurrences : Phase(o) = "none" /\ {r \in runs : r.of = o} = {}
  BY <1>1, <1>2 DEF Phase, HasRun
<1>5. Promise!Init
  BY <1>4, FS_EmptySet DEF Promise!Init
<1> QED BY <1>3, <1>5

\* Schedules implement ScheduledRuns: redelivery, retries, leaders in turn,
\* replaced processes and late handlers start one run per occurrence and drop
\* none, with either queue.
THEOREM SchedulesKeepTheirPromise ==
    ASSUME ScheduleAssumption
    PROVE  Spec => Promise!Spec
<1>1. Init => QueueInv /\ Promise!Init
  BY QueueInit
<1>2. QueueInv /\ [Next]_scheduleVars => QueueInv' /\ [Promise!Next]_(Promise!occurrenceVars)
  BY QueueInvStep DEF KeepsPromise
<1> QED BY <1>1, <1>2, PTL DEF Spec, Promise!Spec

\* An enqueued page leaves nothing behind.
LEMMA EnqueueLosesNothing ==
    ASSUME ScheduleAssumption, ProducerInv, QueueInv, QueueInv', Keeps, NothingLost,
           adopted \in [Triggers -> Nat], NEW p \in Controls, Enqueue(p)
    PROVE  NothingLost' /\ adopted' \in [Triggers -> Nat]
<1>1. CASE ~(session[p] = "open" /\ ~Refused(p, tick[p] - 1))
  <2>1. UNCHANGED <<cursor, adopted, row, runs>>
    BY <1>1 DEF Enqueue, consumerVars
  <2> QED BY <2>1 DEF NothingLost, Due, HasRun
<1>2. CASE session[p] = "open" /\ ~Refused(p, tick[p] - 1)
  <2> DEFINE horizon == tick[p] - 1
             initial == first[p] - 1
  <2>1. ASSUME NEW t \in Triggers
        PROVE  /\ adopted'[t] = IF ~cursor[t].stored THEN initial
                                ELSE IF cursor[t].spec # config[p][t] THEN horizon ELSE adopted[t]
               /\ adopted'[t] \in Nat
    BY <1>2, CursorWritten DEF Enqueue
  <2>2. adopted' \in [Triggers -> Nat]
    BY <1>2, <2>1 DEF Enqueue
  <2>3. ASSUME NEW t \in Triggers, NEW m \in Due(cursor'[t].spec, adopted'[t], cursor'[t].at),
               NEW o, o = <<t, cursor'[t].spec.plan, m>>
        PROVE  Kept(o)'
    <3>1. PICK spec \in Specs : spec = config[p][t] /\ cursor'[t].spec = spec
      BY <1>2, CursorWritten
    <3>2. /\ spec.enabled /\ m \in spec.minutes /\ adopted'[t] < m /\ m <= cursor'[t].at
          /\ m \in 1 .. MaxMinute /\ m \in Nat
      BY <2>3, <3>1 DEF Due, ScheduleAssumption
    <3>3. o \in Occurrences /\ o[1] = t /\ o[2] = spec.plan /\ o[3] = m
      BY <2>3, <3>1, <3>2 DEF Occurrences, Plans, Minutes, ScheduleAssumption
    <3>4. row'[o] = IF m \in Yields(t, spec, initial, horizon) /\ ~row[o].stored THEN NewRow ELSE row[o]
      BY <1>2, <3>1, <3>3 DEF Enqueue
    <3>5. m \in Yields(t, spec, initial, horizon) => Kept(o)'
      BY <3>4 DEF Kept, NewRow
    <3>6. CASE ~cursor[t].stored
      <4>1. cursor'[t].at = ScanHorizon(spec, initial, horizon) /\ adopted'[t] = initial
        BY <1>2, <2>1, <3>1, <3>6, CursorWritten
      <4>2. m \in Yields(t, spec, initial, horizon)
        BY <3>2, <3>6, <4>1 DEF Yields, Stored, Cursor, Due
      <4> QED BY <3>5, <4>2
    <3>7. CASE cursor[t].stored /\ cursor[t].spec # spec
      <4>1. cursor'[t].at = horizon /\ adopted'[t] = horizon /\ horizon \in Nat
        BY <1>2, <2>1, <3>1, <3>7, CursorWritten
      <4> QED BY <3>2, <4>1
    <3>8. CASE cursor[t].stored /\ cursor[t].spec = spec
      <4>1. /\ cursor'[t].at = ScanHorizon(spec, cursor[t].at, horizon) /\ adopted'[t] = adopted[t]
            /\ cursor[t].at \in Nat
        BY <1>2, <2>1, <3>1, <3>8, CursorWritten DEF ProducerInv, CursorsOK
      <4>2. CASE m <= cursor[t].at
        <5>1. m \in Due(cursor[t].spec, adopted[t], cursor[t].at)
          BY <3>2, <3>8, <4>1, <4>2 DEF Due
        <5>2. Kept(o)
          BY <2>3, <3>1, <3>8, <5>1 DEF NothingLost, Kept
        <5> QED BY <3>3, <5>2 DEF Keeps
      <4>3. CASE cursor[t].at < m
        <5>1. m \in Yields(t, spec, initial, horizon)
          BY <3>2, <3>8, <4>1, <4>3 DEF Yields, Stored, Due
        <5> QED BY <3>5, <5>1
      <4> QED BY <3>2, <4>1, <4>2, <4>3
    <3> QED BY <3>6, <3>7, <3>8
  <2>4. NothingLost'
    BY <2>3 DEF NothingLost, Kept
  <2> QED BY <2>2, <2>4
<1> QED BY <1>1, <1>2

\* The other steps keep what was produced.
LEMMA StepLosesNothing ==
    ASSUME ScheduleAssumption, ProducerInv, QueueInv, NothingLost, adopted \in [Triggers -> Nat], [Next]_scheduleVars
    PROVE  NothingLost' /\ adopted' \in [Triggers -> Nat]
<1>1. QueueInv' /\ Keeps
  BY QueueInvStep
<1>2. CASE \E p \in Controls : Enqueue(p)
  BY <1>1, <1>2, EnqueueLosesNothing
<1>3. CASE UNCHANGED <<cursor, adopted>>
  <2>1. ASSUME NEW t \in Triggers, cursor[t].stored, NEW m \in Due(cursor[t].spec, adopted[t], cursor[t].at),
               NEW o, o = <<t, cursor[t].spec.plan, m>>
        PROVE  Kept(o)'
    <3>1. cursor[t].spec \in Specs /\ m \in cursor[t].spec.minutes
      BY <2>1 DEF ProducerInv, CursorsOK, Due
    <3>2. o \in Occurrences
      BY <2>1, <3>1 DEF Occurrences, Plans, Minutes, ScheduleAssumption
    <3>3. Kept(o)
      BY <2>1 DEF NothingLost, Kept
    <3> QED BY <1>1, <3>2, <3>3 DEF Keeps
  <2> QED BY <1>3, <2>1 DEF NothingLost, Kept
<1>4. \/ \E p \in Controls : Enqueue(p)
      \/ UNCHANGED <<cursor, adopted>>
  BY DEF Next, scheduleVars, Advance, Expire, Deliver, Produce, Elect, Consume, Receive, Reject, StartRun, Delete,
     Fails, SessionLost, ReceiveFails, Replace, StartFails, DeleteFails
<1> QED BY <1>2, <1>3, <1>4

\* A page ends at the horizon.
LEMMA EnqueueIsNotEarly ==
    ASSUME ScheduleAssumption, ProducerInv, QueueInv, NeverEarly, NEW p \in Controls, Enqueue(p)
    PROVE  NeverEarly'
<1>1. UNCHANGED <<now, runs>>
  BY DEF Enqueue, consumerVars
<1>2. CASE ~(session[p] = "open" /\ ~Refused(p, tick[p] - 1))
  <2>1. row' = row
    BY <1>2 DEF Enqueue
  <2> QED BY <1>1, <2>1 DEF NeverEarly, HasRun
<1>3. CASE session[p] = "open" /\ ~Refused(p, tick[p] - 1)
  <2> DEFINE horizon == tick[p] - 1
             initial == first[p] - 1
  <2>1. ASSUME NEW o \in Occurrences, o[3] \in Yields(o[1], config[p][o[1]], initial, horizon)
        PROVE  o[3] <= now + MaxSkew
    <3>1. PICK t \in Triggers, m \in Nat : o[1] = t /\ o[3] = m
      BY DEF Occurrences, Minutes, ScheduleAssumption
    <3>2. PICK spec \in Specs : spec = config[p][t] /\ cursor'[t].at \in Nat /\ cursor'[t].at <= horizon
                                /\ horizon \in Nat /\ horizon <= now + MaxSkew
      BY <1>3, CursorWritten
    <3>3. m <= cursor'[t].at
      <4>1. CASE ~cursor[t].stored
        <5>1. cursor'[t].at = ScanHorizon(spec, initial, horizon)
          BY <1>3, <3>2, <4>1, CursorWritten
        <5> QED BY <2>1, <3>1, <3>2, <4>1, <5>1 DEF Yields, Stored, Cursor, Due
      <4>2. CASE cursor[t].stored /\ cursor[t].spec = spec
        <5>1. cursor'[t].at = ScanHorizon(spec, cursor[t].at, horizon)
          BY <1>3, <3>2, <4>2, CursorWritten
        <5> QED BY <2>1, <3>1, <3>2, <4>2, <5>1 DEF Yields, Stored, Due
      <4>3. CASE cursor[t].stored /\ cursor[t].spec # spec
        BY <2>1, <3>1, <3>2, <4>3 DEF Yields, Stored
      <4> QED BY <4>1, <4>2, <4>3
    <3>4. now \in Nat /\ MaxSkew \in Nat
      BY DEF ProducerInv, ScheduleAssumption
    <3> QED BY <3>1, <3>2, <3>3, <3>4
  <2>2. \A o \in Occurrences : row'[o].stored => row[o].stored \/ o[3] \in Yields(o[1], config[p][o[1]], initial, horizon)
    BY <1>3 DEF Enqueue
  <2> QED BY <1>1, <2>1, <2>2 DEF NeverEarly, HasRun
<1> QED BY <1>2, <1>3

\* The steps that produce nothing: what is queued or started was so before.
LEMMA NothingNew ==
    ASSUME ScheduleAssumption, QueueInv, [Next]_scheduleVars,
           ~\E p \in Controls : Enqueue(p), ~\E t \in Triggers, s \in Specs : Deliver(t, s)
    PROVE  \A o \in Occurrences : Kept(o)' => Kept(o)
<1>1. CASE \E p \in Controls : Receive(p) \/ ReceiveFails(p)
  <2>1. runs' = runs
    BY <1>1 DEF Receive, ReceiveFails
  <2>2. \A o \in Occurrences : row[o] \in Rows
    BY DEF QueueInv
  <2>3. ASSUME NEW o \in Occurrences PROVE row'[o].stored = row[o].stored
    <3>1. \/ row'[o] = row[o]
          \/ row'[o] = [row[o] EXCEPT !.count = row[o].count + 1, !.live = TRUE]
          \/ row'[o] = [row[o] EXCEPT !.dead = TRUE, !.live = FALSE]
      <4>1. CASE \E p \in Controls : Receive(p)
        <5>1. PICK b \in Batches :
           row' = [c \in Occurrences |->
              IF c \in b THEN [row[c] EXCEPT !.count = @ + 1, !.live = TRUE]
              ELSE IF Exhausted(row[c]) THEN [row[c] EXCEPT !.dead = TRUE, !.live = FALSE]
              ELSE row[c]]
          BY <4>1 DEF Receive
        <5> QED BY <5>1
      <4>2. CASE \E p \in Controls : ReceiveFails(p)
        <5>1. PICK b \in Batches :
           row' = [c \in Occurrences |->
              IF c \in b THEN [row[c] EXCEPT !.count = @ + 1, !.live = TRUE] ELSE row[c]]
          BY <4>2 DEF ReceiveFails
        <5> QED BY <5>1
      <4> QED BY <1>1, <4>1, <4>2
    <3> QED BY <2>2, <3>1 DEF Rows
  <2> QED BY <2>1, <2>3 DEF Kept, HasRun
<1>2. CASE \E p \in Controls, o \in Occurrences : Reject(p, o) \/ StartRun(p, o) \/ StartFails(p, o)
  <2>1. PICK p \in Controls, o \in Occurrences : Reject(p, o) \/ StartRun(p, o) \/ StartFails(p, o)
    BY <1>2
  <2>2. row' = row /\ held[p][o] # "none" /\ runs' \in {runs, Claimed(o)}
    BY <2>1 DEF Reject, StartRun, StartFails
  <2>3. Kept(o)
    BY <2>2 DEF QueueInv
  <2>4. \A b \in Occurrences \ {o} : HasRun(b)' = HasRun(b)
    BY <2>2, ClaimsOne DEF HasRun
  <2> QED BY <2>2, <2>3, <2>4 DEF Kept
<1>3. CASE \E p \in Controls, o \in Occurrences : Delete(p, o) \/ DeleteFails(p, o)
  <2>1. PICK p \in Controls, o \in Occurrences : Delete(p, o) \/ DeleteFails(p, o)
    BY <1>3
  <2>2. runs' = runs /\ row' \in {row, [row EXCEPT ![o] = row[o]], [row EXCEPT ![o] = NoRow]}
    BY <2>1 DEF Delete, DeleteFails
  <2>3. \A b \in Occurrences : row'[b].stored => row[b].stored
    BY <2>2 DEF QueueInv, NoRow
  <2> QED BY <2>2, <2>3 DEF Kept, HasRun
<1>4. CASE \E o \in Occurrences : Expire(o)
  <2>1. PICK o \in Occurrences : row' = [row EXCEPT ![o].live = FALSE] /\ runs' = runs
    BY <1>4 DEF Expire, consumerVars
  <2>2. \A b \in Occurrences : row'[b].stored = row[b].stored
    BY <2>1 DEF QueueInv, Rows
  <2> QED BY <2>1, <2>2 DEF Kept, HasRun
<1>5. CASE UNCHANGED <<row, runs>>
  BY <1>5 DEF Kept, HasRun
<1>6. Advance \/ (\E p \in Controls : Elect(p) \/ SessionLost(p) \/ Replace(p)) => UNCHANGED <<row, runs>>
  BY DEF Advance, Elect, SessionLost, Replace, consumerVars
<1> QED BY <1>1, <1>2, <1>3, <1>4, <1>5, <1>6 DEF Next, Produce, Consume, Fails, scheduleVars

\* Every step leaves the wakeups that are ahead of the clocks unproduced.
LEMMA StepIsNotEarly ==
    ASSUME ScheduleAssumption, ProducerInv, QueueInv, NeverEarly, [Next]_scheduleVars
    PROVE  NeverEarly'
<1>1. CASE \E p \in Controls : Enqueue(p)
  BY <1>1, EnqueueIsNotEarly
<1>2. CASE \E t \in Triggers, s \in Specs : Deliver(t, s)
  <2>1. PICK t \in Triggers, s \in Specs : Deliver(t, s)
    BY <1>2
  <2>2. /\ UNCHANGED <<now, runs>>
        /\ \A o \in Occurrences : row'[o].stored => row[o].stored \/ o = <<t, s.plan, now>>
    BY <2>1 DEF Deliver, consumerVars, QueueInv
  <2>3. now \in Nat /\ MaxSkew \in Nat
    BY DEF ProducerInv, ScheduleAssumption
  <2> QED BY <2>2, <2>3 DEF NeverEarly, HasRun
<1>3. CASE ~(\E p \in Controls : Enqueue(p)) /\ ~(\E t \in Triggers, s \in Specs : Deliver(t, s))
  <2>1. \A o \in Occurrences : Kept(o)' => Kept(o)
    BY <1>3, NothingNew
  <2>2. now' \in {now, now + 1} /\ now \in Nat /\ MaxSkew \in Nat
    BY DEF Next, scheduleVars, Advance, Expire, Deliver, Produce, Elect, Enqueue, Consume, Receive, Reject, StartRun,
       Delete, Fails, SessionLost, ReceiveFails, Replace, StartFails, DeleteFails, ProducerInv, ScheduleAssumption
  <2>3. \A o \in Occurrences : o[3] \in Nat
    BY DEF Occurrences, Minutes, ScheduleAssumption
  <2> QED BY <2>1, <2>2, <2>3 DEF NeverEarly, Kept
<1> QED BY <1>1, <1>2, <1>3

\* What the producers, the queue and the promise keep together.
ScheduleInv == ProducerInv /\ QueueInv /\ NothingLost /\ NeverEarly /\ adopted \in [Triggers -> Nat]

\* Before the first tick nothing is queued, and nothing is owed.
LEMMA ScheduleInitial ==
    ASSUME ScheduleAssumption, Init
    PROVE  ScheduleInv /\ Promise!Init
BY ProducerInit, QueueInit DEF Init, NothingLost, NeverEarly, HasRun, NoRow, NoCursor, ScheduleInv

\* Every step of a producer, a consumer or the environment keeps what was
\* promised, takes a cursor back only with its definition, and loses nothing.
LEMMA ScheduleStep ==
    ASSUME ScheduleAssumption, ScheduleInv, [Next]_scheduleVars
    PROVE  ScheduleInv' /\ KeepsPromise /\ CursorHeld
BY ProducerStep, QueueInvStep, StepLosesNothing, StepIsNotEarly DEF ScheduleInv

\* Every occurrence that the present spec of a trigger has yielded since it took
\* over is in the queue, set aside, or has its run.
THEOREM NoOccurrenceIsLost ==
    ASSUME ScheduleAssumption
    PROVE  Spec => []NothingLost
<1>1. ScheduleInv => NothingLost
  BY DEF ScheduleInv
<1> QED BY <1>1, ScheduleInitial, ScheduleStep, PTL DEF Spec

\* No wakeup is produced and no run is started before its minute by more than
\* the clocks may be fast, through every change of leader.
THEOREM NobodyIsEarly ==
    ASSUME ScheduleAssumption
    PROVE  Spec => []NeverEarly
<1>1. ScheduleInv => NeverEarly
  BY DEF ScheduleInv
<1> QED BY <1>1, ScheduleInitial, ScheduleStep, PTL DEF Spec
=============================================================================
