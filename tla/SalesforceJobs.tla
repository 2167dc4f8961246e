---------------------------- MODULE SalesforceJobs ----------------------------
(* One incremental extraction after the other through Salesforce Bulk API 2.0  *)
(* query jobs (SalesforceBulk2Source): create a job, poll it, stream its       *)
(* result pages by locator, delete it.  The server runs a job on a snapshot    *)
(* and may answer slowly, wrongly or not at all; a deleted record is an update *)
(* (queryAll), so records only change.  A record is [id -> timestamp].         *)
EXTENDS Integers, Sequences, FiniteSets, SequencesExt, FiniteSetsExt, TLC

CONSTANTS
    Ids,
    PageSize, MaxClock, MaxRuns, MaxRetries, MaxPolls,
    MaxJobs,    \* jobs the server creates
    Faults,     \* subset of {"lost", "truncated", "loop", "failed"}
    None

VARIABLES
    table, clock,
    jobs,       \* [state, rows]: the server's jobs, rows as a sequence of <<id, timestamp>>
    pc,         \* "idle", "create", "poll", "page", "stream", "check" or "delete"
    job,        \* the index of the job the client knows
    attempt, polls,
    locator, seen,      \* position of the page, positions already given out
    rows, count,        \* rows of the page that are still to come, rows yielded of it
    largest, ok,        \* the extraction went through
    since, target, start, runs,
    yielded,    \* everything this extraction yielded
    unanswered  \* the DELETE was given up

vars == <<table, clock, jobs, pc, job, attempt, polls, locator, seen, rows, count, largest, ok,
          since, target, start, runs, yielded, unanswered>>

Server == <<table, clock, jobs>>
Paging == <<locator, seen, rows, count>>
Outcome == <<since, target, start, runs>>

Init ==
    /\ table = [i \in Ids |-> 1] /\ clock = 1 /\ jobs = <<>>
    /\ pc = "idle" /\ job = None /\ attempt = 0 /\ polls = 0
    /\ locator = 0 /\ seen = {} /\ rows = <<>> /\ count = 0 /\ largest = -1 /\ ok = FALSE
    /\ since = -1 /\ target = [i \in Ids |-> 0] /\ start = table /\ runs = 0
    /\ yielded = <<>> /\ unanswered = FALSE

(* Timestamps are coarse: a change may have that of the one before it. *)
Update ==
    \E i \in Ids, t \in clock .. MaxClock :
        /\ t <= clock + 1 /\ <<t, t>> # <<table[i], clock>>
        /\ clock' = t /\ table' = [table EXCEPT ![i] = t]
        /\ UNCHANGED <<jobs, pc, job, attempt, polls, Paging, largest, ok, Outcome, yielded, unanswered>>

-----------------------------------------------------------------------------
Extract ==
    /\ pc = "idle" /\ runs < MaxRuns
    /\ pc' = "create" /\ runs' = runs + 1 /\ start' = table
    /\ job' = None /\ attempt' = 0 /\ polls' = 0 /\ ok' = FALSE /\ largest' = -1
    /\ locator' = 0 /\ seen' = {} /\ rows' = <<>> /\ count' = 0
    /\ yielded' = <<>> /\ unanswered' = FALSE
    /\ UNCHANGED <<Server, since, target>>

(* _salesforce_query_body: an inclusive boundary. *)
Wanted(i) == table[i] >= since

Selection == LET ids == SetToSortSeq({i \in Ids : Wanted(i)}, <) IN [k \in DOMAIN ids |-> <<ids[k], table[ids[k]]>>]

NewJob == Append(jobs, [state |-> "InProgress", rows |-> Selection])

Create ==
    /\ pc = "create" /\ Len(jobs) < MaxJobs
    /\ jobs' = NewJob /\ job' = Len(jobs) + 1
    /\ pc' = "poll" /\ attempt' = 0
    /\ UNCHANGED <<table, clock, polls, Paging, largest, ok, Outcome, yielded, unanswered>>

(* _send: the response of a request that took effect is lost and it is sent again. *)
Again(effect) ==
    /\ "lost" \in Faults /\ attempt < MaxRetries
    /\ attempt' = attempt + 1
    /\ effect
    /\ UNCHANGED <<table, clock, pc, job, polls, Paging, largest, ok, Outcome, yielded, unanswered>>

CreateLost ==
    /\ pc = "create" /\ Len(jobs) < MaxJobs
    /\ Again(jobs' = NewJob)

Resend ==
    /\ pc \in {"create", "poll", "page", "delete"}
    /\ Again(UNCHANGED jobs)

(* Without a job there is nothing to delete. *)
CreateFails ==
    /\ pc = "create" /\ "failed" \in Faults
    /\ pc' = "idle"
    /\ UNCHANGED <<Server, job, attempt, polls, Paging, largest, ok, Outcome, yielded, unanswered>>

(* The finally clause: whatever happened, the job is deleted. *)
Finally(done) == pc' = "delete" /\ ok' = done /\ attempt' = 0

JobEnds ==
    \E k \in DOMAIN jobs, s \in {"JobComplete"} \cup (IF "failed" \in Faults THEN {"Failed", "Aborted"} ELSE {}) :
        /\ jobs[k].state = "InProgress"
        /\ jobs' = [jobs EXCEPT ![k].state = s]
        /\ UNCHANGED <<table, clock, pc, job, attempt, polls, Paging, largest, ok, Outcome, yielded, unanswered>>

LastPoll == polls + 1 = MaxPolls

Poll ==
    /\ pc = "poll"
    /\ polls' = polls + 1
    /\ CASE jobs[job].state = "JobComplete" -> pc' = "page" /\ attempt' = 0 /\ UNCHANGED ok
         [] \/ jobs[job].state \in {"Failed", "Aborted"}
            \/ jobs[job].state # "JobComplete" /\ LastPoll -> Finally(FALSE)
         [] OTHER -> attempt' = 0 /\ UNCHANGED <<pc, ok>>
    /\ UNCHANGED <<Server, job, Paging, largest, Outcome, yielded, unanswered>>

(* Retries exhausted, or a request that is refused. *)
RequestFails ==
    /\ pc \in {"poll", "page"} /\ "failed" \in Faults
    /\ Finally(FALSE)
    /\ UNCHANGED <<Server, job, polls, Paging, largest, Outcome, yielded, unanswered>>

(* _salesforce_results: the page at the locator, perhaps cut short on its way. *)
Page == SubSeq(jobs[job].rows, locator + 1, IF locator + PageSize < Len(jobs[job].rows) THEN locator + PageSize ELSE Len(jobs[job].rows))

OpenPage ==
    /\ pc = "page"
    /\ \E n \in 0 .. Len(Page) :
        /\ n < Len(Page) => "truncated" \in Faults
        /\ rows' = SubSeq(Page, 1, n)
    /\ count' = 0 /\ pc' = "stream"
    /\ UNCHANGED <<Server, job, attempt, polls, locator, seen, largest, ok, Outcome, yielded, unanswered>>

(* The history keeps more rows than there are, and then stops. *)
MaxYielded == 2 * Cardinality(Ids)

Yield ==
    /\ pc = "stream" /\ rows # <<>>
    /\ target' = [target EXCEPT ![Head(rows)[1]] = Head(rows)[2]]
    /\ largest' = Max({largest, Head(rows)[2]})
    /\ yielded' = IF Len(yielded) < MaxYielded THEN Append(yielded, Head(rows)) ELSE yielded
    /\ rows' = Tail(rows) /\ count' = count + 1
    /\ UNCHANGED <<Server, pc, job, attempt, polls, locator, seen, ok, since, start, runs, unanswered>>

(* The connection breaks, or a row or a field is malformed. *)
StreamFails ==
    /\ pc = "stream" /\ "failed" \in Faults
    /\ Finally(FALSE)
    /\ UNCHANGED <<Server, job, polls, Paging, largest, Outcome, yielded, unanswered>>

(* _validate_salesforce_page_count: the header counts the rows of the page. *)
CountMatches == count = Len(Page)

(* The locator after this page, or one that was already given out. *)
NextLocators ==
    {locator + PageSize} \cup (IF "loop" \in Faults THEN seen ELSE {})

Terminal == locator + PageSize >= Len(jobs[job].rows)

NewLocator(next) == next \notin seen

ClosePage ==
    /\ pc = "stream" /\ rows = <<>>
    /\ \/ ~CountMatches /\ Finally(FALSE) /\ UNCHANGED <<locator, seen>>
       \/ CountMatches /\ Terminal /\ Finally(TRUE) /\ UNCHANGED <<locator, seen>>
       \/ /\ CountMatches
          /\ \E next \in NextLocators :
                /\ Terminal => next # locator + PageSize
                /\ IF NewLocator(next)
                   THEN locator' = next /\ seen' = seen \cup {next} /\ pc' = "page" /\ attempt' = 0 /\ UNCHANGED ok
                   ELSE Finally(FALSE) /\ UNCHANGED <<locator, seen>>
    /\ UNCHANGED <<Server, job, polls, rows, count, largest, Outcome, yielded, unanswered>>

(* The consumer stops and closes the generator. *)
Close ==
    /\ pc \in {"stream", "page"} /\ "failed" \in Faults
    /\ Finally(FALSE)
    /\ UNCHANGED <<Server, job, polls, Paging, largest, Outcome, yielded, unanswered>>

(* The boundary is committed when the generator is exhausted. *)
Boundary == IF ok /\ largest # -1 THEN largest ELSE since

DeleteJob ==
    /\ pc = "delete"
    /\ jobs' = [jobs EXCEPT ![job].state = "Deleted"]
    /\ pc' = "idle" /\ since' = Boundary
    /\ UNCHANGED <<table, clock, job, attempt, polls, Paging, largest, ok, target, start, runs, yielded, unanswered>>

(* A failed cleanup is logged and does not fail the extraction. *)
DeleteFails ==
    /\ pc = "delete" /\ "failed" \in Faults
    /\ unanswered' = TRUE
    /\ pc' = "idle" /\ since' = Boundary
    /\ UNCHANGED <<Server, job, attempt, polls, Paging, largest, ok, target, start, runs, yielded>>

Next ==
    \/ Update \/ JobEnds
    \/ Extract \/ Create \/ CreateLost \/ Resend \/ CreateFails \/ Poll \/ RequestFails
    \/ OpenPage \/ Yield \/ StreamFails \/ ClosePage \/ Close \/ DeleteJob \/ DeleteFails

Spec == Init /\ [][Next]_vars

-----------------------------------------------------------------------------
(* Jobs, counters and times. *)
TypeOK ==
    /\ table \in [Ids -> 1 .. MaxClock] /\ target \in [Ids -> 0 .. MaxClock]
    /\ job \in {None} \cup DOMAIN jobs
    /\ attempt \in 0 .. MaxRetries /\ polls \in 0 .. MaxPolls
    /\ pc \in {"poll", "page", "stream", "delete"} => job # None

(* An extraction that went through yielded the job's snapshot, each row once,  *)
(* although pages are cut short, locators repeated and requests sent again.    *)
WholeResult ==
    (pc = "delete" /\ pc' = "idle" /\ ok) => yielded = jobs[job].rows

(* ... and the target then has every record as it was when the extraction      *)
(* began, or newer: the inclusive boundary of the one before left nothing.     *)
CaughtUp ==
    (pc = "delete" /\ pc' = "idle" /\ ok) => \A i \in Ids : target[i] >= start[i]

(* The job the client knows of is gone when its extraction is over, however it *)
(* ended, unless the server refused to delete it.                              *)
KnownJobDeleted == (pc = "idle" /\ job # None /\ ~unanswered) => jobs[job].state = "Deleted"
=============================================================================
