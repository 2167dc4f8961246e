---------------------------- MODULE PipelineLease ----------------------------
(***************************************************************************)
(* The exclusive lease of one pipeline: the row that LeaseStore keeps in   *)
(* BigQuery, SQLite or PostgreSQL, and the LeaseHandle and sticky "lost"   *)
(* flag that every run keeps in its own memory.                            *)
(*                                                                         *)
(* Time is abstracted to one bit: lease.live says that lease_expires_at is *)
(* in the future.  ExpireLease lets it lapse at any moment, so a renewal   *)
(* may be arbitrarily late, and a renewal that succeeds leaves the row as  *)
(* it is.  lease_seconds and the heartbeat interval therefore do not       *)
(* appear.                                                                 *)
(***************************************************************************)
EXTENDS Integers

CONSTANTS
    Runs,           \* run ids of one pipeline
    NoRun,          \* SQL NULL in a run_id column
    StateStore,     \* "bigquery", "postgresql" or "sqlite"
    MaxToken        \* bound: no acquisition past this fencing token

\* Every store of the pipeline shares the run ids and the state provider.
ASSUME ParametersAssumption ==
    /\ NoRun \notin Runs
    /\ StateStore \in {"bigquery", "postgresql", "sqlite"}

ASSUME LeaseAssumption == MaxToken \in Nat

VARIABLES
    lease,          \* the row: run_id, fencing_token, lease_expires_at > now
    handle,         \* handle[r]: LeaseHandle.fencing_token held by r, 0 if none
    lost            \* lost[r]: LeaseHeartbeat._lost of r

leaseVars == <<lease, handle, lost>>

LeaseTypeOK ==
    /\ lease \in [run : Runs \union {NoRun}, token : 0 .. MaxToken, live : BOOLEAN]
    /\ handle \in [Runs -> 0 .. MaxToken]
    /\ lost \in [Runs -> BOOLEAN]

\* A row that was never acquired: the MERGE/INSERT of acquire creates it with
\* a NULL run, token 0 and an expiry in the past.
LeaseInit ==
    /\ lease = [run |-> NoRun, token |-> 0, live |-> FALSE]
    /\ handle = [r \in Runs |-> 0]
    /\ lost = [r \in Runs |-> FALSE]

-----------------------------------------------------------------------------
\* SQLite and PostgreSQL claim the row and learn the token in one transaction;
\* BigQuery runs an UPDATE and then a SELECT.
AtomicAcquire == StateStore # "bigquery"

\* The row of the conditional UPDATE of acquire.
ClaimRow(r) ==
    /\ ~lease.live
    /\ lease.token < MaxToken
    /\ lease' = [run |-> r, token |-> lease.token + 1, live |-> TRUE]

\* SqliteLeaseStore.acquire and PostgreSQLLeaseStore.acquire.
AcquireRow(r) ==
    /\ AtomicAcquire
    /\ ClaimRow(r)
    /\ handle' = [handle EXCEPT ![r] = lease.token + 1]
    /\ lost' = [lost EXCEPT ![r] = FALSE]

\* BigQueryLeaseStore.acquire, first half: the UPDATE took the row.
UpdateRow(r) ==
    /\ ~AtomicAcquire
    /\ ClaimRow(r)
    /\ UNCHANGED <<handle, lost>>

\* The WHERE of the SELECT that follows: keyed by run id, not by token.
SelectsRow(r) == lease.run = r /\ lease.live

\* BigQueryLeaseStore.acquire, second half: the SELECT reads the token.
SelectRow(r) ==
    /\ ~AtomicAcquire
    /\ SelectsRow(r)
    /\ handle' = [handle EXCEPT ![r] = lease.token]
    /\ lost' = [lost EXCEPT ![r] = FALSE]
    /\ UNCHANGED lease

\* The WHERE of heartbeat, and of the fenced_dml lease touch.
Owns(r) ==
    /\ lease.run = r
    /\ lease.token = handle[r]
    /\ lease.live

\* LeaseHeartbeat.verify succeeds: the row is renewed and stays live.
Renews(r) ==
    /\ handle[r] # 0
    /\ ~lost[r]
    /\ Owns(r)

\* A heartbeat that matched no row, or that raised: ownership is lost for good.
LoseOwnership(r) ==
    /\ handle[r] # 0
    /\ lost' = [lost EXCEPT ![r] = TRUE]
    /\ UNCHANGED <<lease, handle>>

\* __exit__ releases: run and token must match, whether or not the lease has
\* expired.  The handle goes with the process.
ReleaseRow(r) ==
    /\ handle[r] # 0
    /\ lease' = IF lease.run = r /\ lease.token = handle[r]
                THEN [lease EXCEPT !.run = NoRun, !.live = FALSE]
                ELSE lease
    /\ handle' = [handle EXCEPT ![r] = 0]
    /\ lost' = [lost EXCEPT ![r] = FALSE]

\* lease_expires_at passes.
ExpireLease ==
    /\ lease.live
    /\ lease' = [lease EXCEPT !.live = FALSE]
    /\ UNCHANGED <<handle, lost>>

\* The process ends without releasing: it died, or release raised.
ForgetHandle(r) ==
    /\ handle' = [handle EXCEPT ![r] = 0]
    /\ lost' = [lost EXCEPT ![r] = FALSE]
    /\ UNCHANGED lease

-----------------------------------------------------------------------------
\* What the runs of one pipeline may do to the lease, in any order.
LeaseNext ==
    \/ \E r \in Runs : \/ AcquireRow(r) \/ UpdateRow(r) \/ SelectRow(r)
                       \/ LoseOwnership(r) \/ ReleaseRow(r) \/ ForgetHandle(r)
    \/ ExpireLease

LeaseSpec == LeaseInit /\ [][LeaseNext]_leaseVars

\* No handle is ahead of the row.
HandlesNotAhead == \A r \in Runs : handle[r] <= lease.token

\* While the row names a run, a handle with its token belongs to that run.
CurrentHandleIsNamed ==
    \A r \in Runs : handle[r] # 0 /\ handle[r] = lease.token => lease.run \in {r, NoRun}

\* Two runs never hold the same fencing token, even when the BigQuery SELECT
\* of one acquisition runs after another run's UPDATE (lease.py: the SELECT is
\* keyed by run id only).
UniqueTokens ==
    \A a, b \in Runs : a # b /\ handle[a] # 0 => handle[a] # handle[b]

\* The inductive invariant of the lease.
LeaseInv ==
    /\ LeaseTypeOK
    /\ HandlesNotAhead
    /\ CurrentHandleIsNamed
    /\ UniqueTokens
=============================================================================
