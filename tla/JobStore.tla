------------------------------ MODULE JobStore ------------------------------
(***************************************************************************)
(* The jobs table of activable-scheduler (src/store.rs, src/schema.rs) and *)
(* the SQL statements that are the only way to change it.  Every statement *)
(* is one atomic step: it is a single autocommit statement in the code.    *)
(*                                                                         *)
(* The module says nothing about who issues the statements.  StoreSpec     *)
(* lets any client call any statement on any row at any time, so what      *)
(* holds here holds however badly the workers and reapers behave.          *)
(*                                                                         *)
(* Time is kept in ticks, as the distance of a row's timestamps from       *)
(* now(): a heartbeat grows older, a backoff runs out.  That keeps the     *)
(* state space finite without bounding the length of a behaviour.          *)
(***************************************************************************)
EXTENDS Integers, FiniteSets

CONSTANTS
    Jobs,           \* the row ids that may ever be used (gen_random_uuid())
    Types,          \* job types
    Keys,           \* dedup keys
    NoKey,          \* dedup_key IS NULL
    WorkerIds,      \* the values of claimed_by
    NoWorker,       \* claimed_by IS NULL
    JobType,        \* the arguments of the enqueue call that creates a row
    DedupKey,
    Priority,
    MaxAttempts,
    Threshold,      \* reap_threshold_seconds, in ticks
    BackoffBase,    \* backoff_base_seconds, in ticks
    BackoffCap      \* the 3600 s cap of fail(), in ticks

ASSUME JobsAssumption ==
    /\ IsFiniteSet(Jobs)
    /\ NoKey \notin Keys
    /\ NoWorker \notin WorkerIds

ASSUME ArgumentsAssumption ==
    /\ JobType \in [Jobs -> Types]
    /\ DedupKey \in [Jobs -> Keys \cup {NoKey}]
    /\ Priority \in [Jobs -> Int]
    /\ MaxAttempts \in [Jobs -> Int]

ASSUME TimesAssumption ==
    /\ Threshold \in Nat
    /\ BackoffBase \in Nat
    /\ BackoffCap \in Nat

VARIABLE rows       \* the jobs table

-----------------------------------------------------------------------------
(* Rows *)

Status == {"absent", "pending", "running", "completed", "failed"}

Active == {"pending", "running"}

Terminal == {"completed", "failed"}

\* Ages saturate one past the threshold: older ones are all alike to the code.
Row == [status     : Status,
        attempts   : Nat,
        claimed_by : WorkerIds \cup {NoWorker},
        created    : Nat,               \* rank of created_at
        beat       : 0..(Threshold + 1),\* age of heartbeat_at
        delay      : 0..BackoffCap,     \* time left until next_attempt_at
        finished   : BOOLEAN,           \* finished_at IS NOT NULL
        result     : BOOLEAN]           \* result IS NOT NULL

AbsentRow == [status |-> "absent", attempts |-> 0, claimed_by |-> NoWorker,
              created |-> 0, beat |-> 0, delay |-> 0,
              finished |-> FALSE, result |-> FALSE]

Present == {j \in Jobs : rows[j].status # "absent"}

-----------------------------------------------------------------------------
(* INSERT ... ON CONFLICT DO NOTHING *)

\* Mutant: the index covers pending rows only.
ConflictsPendingOnly(j) == \E k \in Jobs \ {j} : /\ rows[k].status = "pending"
                                                  /\ DedupKey[j] # NoKey
                                                  /\ DedupKey[k] = DedupKey[j]
                                                  /\ JobType[k] = JobType[j]

\* Mutant: an index without the WHERE clause.
ConflictsForEver(j) == \E k \in Jobs \ {j} : /\ rows[k].status # "absent"
                                             /\ DedupKey[j] # NoKey
                                             /\ DedupKey[k] = DedupKey[j]
                                             /\ JobType[k] = JobType[j]

\* The partial unique index over pending and running rows with a key.
Conflicts(j) == \E k \in Jobs \ {j} : /\ rows[k].status \in Active
                                      /\ DedupKey[j] # NoKey
                                      /\ DedupKey[k] = DedupKey[j]
                                      /\ JobType[k] = JobType[j]

InsertedRow == [AbsentRow EXCEPT !.status = "pending",
                                 !.created = Cardinality(Present)]

\* A conflicting enqueue returns None and changes nothing.
Enqueue(j) ==
    /\ rows[j].status = "absent"
    /\ ~Conflicts(j)
    /\ rows' = [rows EXCEPT ![j] = InsertedRow]

-----------------------------------------------------------------------------
(* UPDATE ... WHERE id = (SELECT ... FOR UPDATE SKIP LOCKED LIMIT 1) *)

\* Mutant: rows that are running are handed out too.
EligibleRunning(types) == {j \in Jobs : /\ rows[j].status \in Active
                                        /\ JobType[j] \in types
                                        /\ rows[j].delay = 0}

Eligible(types) == {j \in Jobs : /\ rows[j].status = "pending"
                                 /\ JobType[j] \in types
                                 /\ rows[j].delay = 0}

\* Mutant: ORDER BY priority alone.
BeforeByPriority(k, j) == Priority[k] < Priority[j]

\* ORDER BY priority ASC, created_at ASC
Before(k, j) == \/ Priority[k] < Priority[j]
                \/ /\ Priority[k] = Priority[j]
                   /\ rows[k].created < rows[j].created

\* Mutant: attempts is not incremented.
ClaimedRowUncounted(r, w) == [r EXCEPT !.status = "running",
                                       !.claimed_by = w,
                                       !.beat = 0]

ClaimedRow(r, w) == [r EXCEPT !.status = "running",
                              !.claimed_by = w,
                              !.attempts = @ + 1,
                              !.beat = 0]

Claim(w, types, j) ==
    /\ j \in Eligible(types)
    /\ \A k \in Eligible(types) : ~Before(k, j)
    /\ rows' = [rows EXCEPT ![j] = ClaimedRow(@, w)]

-----------------------------------------------------------------------------
(* UPDATE ... WHERE id = $2, whatever the row's status and owner *)

CompletedRow(r) == [r EXCEPT !.status = "completed",
                             !.result = TRUE,
                             !.finished = TRUE]

Complete(j) ==
    /\ rows[j].status # "absent"
    /\ rows' = [rows EXCEPT ![j] = CompletedRow(@)]

-----------------------------------------------------------------------------
(* UPDATE ... WHERE id = $4 AND status = 'running' *)

\* LEAST(base * 2^attempts + random() * base, cap)
Backoff(n) == {d \in 0..BackoffCap :
                 \E jitter \in 0..BackoffBase :
                    LET wait == BackoffBase * 2^n + jitter
                    IN  d = IF wait < BackoffCap THEN wait ELSE BackoffCap}

Requeues(j, retryable) == retryable /\ rows[j].attempts < MaxAttempts[j]

RequeuedRow(r, d) == [r EXCEPT !.status = "pending", !.delay = d]

GivenUpRow(r) == [r EXCEPT !.status = "failed", !.finished = TRUE]

Fail(j, retryable) ==
    /\ rows[j].status = "running"
    /\ \/ /\ Requeues(j, retryable)
          /\ \E d \in Backoff(rows[j].attempts) :
                rows' = [rows EXCEPT ![j] = RequeuedRow(@, d)]
       \/ /\ ~Requeues(j, retryable)
          /\ rows' = [rows EXCEPT ![j] = GivenUpRow(@)]

\* fail() on a row that is not running: no row returned, SchedulerError::NotFound
FailNotFound(j) == rows[j].status # "running" /\ UNCHANGED rows

-----------------------------------------------------------------------------
(* Heartbeats and the reaper's query *)

BeatenRow(r) == IF r.status = "running" THEN [r EXCEPT !.beat = 0] ELSE r

UpdateHeartbeat(j) == rows' = [rows EXCEPT ![j] = BeatenRow(@)]

\* Mutant: heartbeat_at <= now() - threshold.
StaleRunningInclusive(types) == {j \in Jobs : /\ rows[j].status = "running"
                                              /\ JobType[j] \in types
                                              /\ rows[j].beat >= Threshold}

\* Mutant: rows without attempts left are not looked for.
StaleRetryable(types) == {j \in Jobs : /\ rows[j].status = "running"
                                       /\ JobType[j] \in types
                                       /\ rows[j].attempts < MaxAttempts[j]
                                       /\ rows[j].beat > Threshold}

\* heartbeat_at < now() - threshold
StaleRunning(types) == {j \in Jobs : /\ rows[j].status = "running"
                                     /\ JobType[j] \in types
                                     /\ rows[j].beat > Threshold}

-----------------------------------------------------------------------------
(* The database clock *)

AgedRow(r) ==
    IF r.status = "absent" THEN r
    ELSE [r EXCEPT !.beat = IF @ > Threshold THEN @ ELSE @ + 1,
                   !.delay = IF @ = 0 THEN 0 ELSE @ - 1]

PassTime == rows' = [j \in Jobs |-> AgedRow(rows[j])]

-----------------------------------------------------------------------------
(* Any clients at all *)

StoreInit == rows = [j \in Jobs |-> AbsentRow]

StoreNext ==
    \/ \E j \in Jobs : Enqueue(j)
    \/ \E w \in WorkerIds, types \in SUBSET Types, j \in Jobs : Claim(w, types, j)
    \/ \E j \in Jobs : Complete(j)
    \/ \E j \in Jobs, retryable \in BOOLEAN : Fail(j, retryable)
    \/ \E j \in Jobs : UpdateHeartbeat(j)
    \/ PassTime

StoreSpec == StoreInit /\ [][StoreNext]_rows

-----------------------------------------------------------------------------
(* Properties *)

\* Every row has the shape the table's columns and CHECK constraint give it.
StoreTypeOK == rows \in [Jobs -> Row]

\* Deduplication: two rows that are waiting or executing never share a job type
\* and a dedup key, also after retries, reaps and late completions (enqueue and
\* the index idx_jobs_dedup; a row must never come back to life).
DedupUnique ==
    \A j, k \in Jobs :
        /\ j # k
        /\ rows[j].status \in Active /\ rows[k].status \in Active
        /\ DedupKey[j] # NoKey
        => <<JobType[j], DedupKey[j]>> # <<JobType[k], DedupKey[k]>>

\* A job is never executed more often than max_attempts allows (once, if the
\* caller asked for less), and one that waits still has an attempt left: claim
\* checks nothing, so fail alone has to keep an exhausted row out of the queue.
AttemptsBounded ==
    \A j \in Jobs :
        /\ rows[j].attempts =< (IF MaxAttempts[j] > 1 THEN MaxAttempts[j] ELSE 1)
        /\ rows[j].status = "pending" /\ rows[j].attempts > 0
              => rows[j].attempts < MaxAttempts[j]

\* What ingest_status and ingest_jobs read off a row agrees with its status:
\* finished_at is set exactly on completed and failed rows, a result exactly on
\* completed ones, a claimer and a positive attempt count on every running one.
RowConsistent ==
    \A j \in Jobs :
        /\ rows[j].finished <=> rows[j].status \in Terminal
        /\ rows[j].result <=> rows[j].status = "completed"
        /\ rows[j].status = "running" => rows[j].attempts > 0 /\ rows[j].claimed_by # NoWorker

\* First executions come in queue order: a job that was enqueued later, with a
\* priority no better, is not tried before an earlier one of its type was (claim's
\* ORDER BY together with next_attempt_at, which only a retry sets).
FirstTriesInOrder ==
    \A j, k \in Present :
        /\ JobType[j] = JobType[k]
        /\ Priority[j] =< Priority[k]
        /\ rows[j].created < rows[k].created
        /\ rows[k].attempts > 0
        => rows[j].attempts > 0 \/ rows[j].status = "completed"

\* A completed job stays completed and a failed one is never queued or executed
\* again: no statement of any client brings a finished row back.
NoResurrection ==
    [][\A j \in Jobs : /\ rows[j].status = "completed" => rows'[j].status = "completed"
                       /\ rows[j].status = "failed" => rows'[j].status \in Terminal]_rows

Lifecycle == INSTANCE JobLifecycle WITH
                status <- [j \in Jobs |-> rows[j].status],
                attempts <- [j \in Jobs |-> rows[j].attempts]

\* The table implements the life cycle promised to the enqueuing caller; in
\* particular a claim, which checks nothing, is always within max_attempts.
ImplementsLifecycle == Lifecycle!Spec

=============================================================================
