------------------------------ MODULE JobQueue ------------------------------
(***************************************************************************)
(* The schedulers that work on the jobs table: in every process a pool of  *)
(* workers (src/worker.rs), one reaper (src/reaper.rs) and the facade that *)
(* starts and drains them (src/scheduler.rs).  Several processes may share *)
(* the table; any of them may crash between any two statements.            *)
(*                                                                         *)
(* A step is one database statement or one local decision between two      *)
(* statements, so whatever a task has read (a claimed job, a list of stale *)
(* ids, a heartbeat on the wire) may be out of date when it is used.       *)
(***************************************************************************)
EXTENDS JobStore

CONSTANTS
    Procs,          \* processes running a Scheduler
    ProcOf,         \* the process a worker task runs in
    Handles,        \* job types registered in a process
    Crashes,        \* may processes die?
    StoreErrors,    \* may a statement fail, or its reply be lost?
    Timely,         \* do live workers reach the database within Threshold?
    NoJob

ASSUME ProcessesAssumption ==
    /\ ProcOf \in [WorkerIds -> Procs]
    /\ Handles \in [Procs -> SUBSET Types]
    /\ NoJob \notin Jobs

ASSUME EnvironmentAssumption ==
    /\ Crashes \in BOOLEAN
    /\ StoreErrors \in BOOLEAN
    /\ Timely \in BOOLEAN

VARIABLES
    proc,           \* life cycle of each process
    worker,         \* the worker tasks
    snapshot,       \* stale_ids still to be reaped in a reaper's current tick
    beats           \* jobs with a heartbeat statement under way

vars == <<rows, proc, worker, snapshot, beats>>

Workers == WorkerIds

\* What a finished handler hands to the worker: Ok, a retryable JobError, a
\* non-retryable one.  A panic is recorded as a non-retryable failure.  The loop
\* has two more arms: "no handler" cannot happen, claim asks for handled types
\* only, and a handler is cancelled only when its whole process goes (Crash).
Outcomes == {"ok", "retry", "fatal"}

IdleWorker == [pc |-> "idle", job |-> NoJob, attempt |-> 0, outcome |-> "ok"]

Busy(w) == worker[w].pc \in {"running", "finishing"}

Served(w) == Handles[ProcOf[w]]

\* The row still belongs to the claim w made.
Holds(w) == /\ rows[worker[w].job].status = "running"
            /\ rows[worker[w].job].claimed_by = w
            /\ rows[worker[w].job].attempts = worker[w].attempt

Move(w, pc) == worker' = [worker EXCEPT ![w].pc = pc]

-----------------------------------------------------------------------------
(* Clients *)

Submit(j) == Enqueue(j) /\ UNCHANGED <<proc, worker, snapshot, beats>>

-----------------------------------------------------------------------------
(* Worker::run *)

\* Mutant: the shutdown flag is not read.
CheckShutdownIgnored(w) ==
    /\ worker[w].pc = "idle"
    /\ Move(w, "polling")
    /\ UNCHANGED <<rows, proc, snapshot, beats>>

\* Top of the loop: leave it on shutdown, otherwise go and claim.
CheckShutdown(w) ==
    /\ worker[w].pc = "idle"
    /\ Move(w, IF proc[ProcOf[w]] = "up" THEN "polling" ELSE "exited")
    /\ UNCHANGED <<rows, proc, snapshot, beats>>

ClaimJob(w) ==
    /\ worker[w].pc = "polling"
    /\ \E j \in Jobs :
          /\ Claim(w, Served(w), j)
          /\ worker' = [worker EXCEPT ![w] =
                [IdleWorker EXCEPT !.pc = "running", !.job = j,
                                   !.attempt = rows[j].attempts + 1]]
    /\ UNCHANGED <<proc, snapshot, beats>>

\* No job, or the statement failed: sleep poll_ms and start over.
ClaimNothing(w) ==
    /\ worker[w].pc = "polling"
    /\ Eligible(Served(w)) = {} \/ StoreErrors
    /\ Move(w, "idle")
    /\ UNCHANGED <<rows, proc, snapshot, beats>>

\* The row was claimed but the worker got an error (reply lost, row not parsed).
ClaimReplyLost(w) ==
    /\ StoreErrors
    /\ worker[w].pc = "polling"
    /\ \E j \in Jobs : Claim(w, Served(w), j)
    /\ Move(w, "idle")
    /\ UNCHANGED <<proc, snapshot, beats>>

\* job_handle.await returns; the heartbeat task is aborted at once.
HandlerReturns(w) ==
    /\ worker[w].pc = "running"
    /\ \E outcome \in Outcomes :
          worker' = [worker EXCEPT ![w] = [@ EXCEPT !.pc = "finishing", !.outcome = outcome]]
    /\ UNCHANGED <<rows, proc, snapshot, beats>>

\* complete() or fail(); NotFound and other errors are logged and dropped.
RecordOutcome(w) ==
    /\ worker[w].pc = "finishing"
    /\ LET j == worker[w].job IN
       IF worker[w].outcome = "ok" THEN Complete(j)
       ELSE \/ Fail(j, worker[w].outcome = "retry")
            \/ FailNotFound(j)
    /\ worker' = [worker EXCEPT ![w] = IdleWorker]
    /\ UNCHANGED <<proc, snapshot, beats>>

\* The statement failed without effect: sleep 100 ms and go on to the next job.
OutcomeLost(w) ==
    /\ StoreErrors
    /\ worker[w].pc = "finishing"
    /\ worker' = [worker EXCEPT ![w] = IdleWorker]
    /\ UNCHANGED <<rows, proc, snapshot, beats>>

-----------------------------------------------------------------------------
(* The heartbeat task that lives while the handler runs *)

SendHeartbeat(w) ==
    /\ worker[w].pc = "running"
    /\ beats' = beats \cup {worker[w].job}
    /\ UNCHANGED <<rows, proc, worker, snapshot>>

\* The statement executes, possibly after the task was aborted.
HeartbeatArrives(j) ==
    /\ j \in beats
    /\ UpdateHeartbeat(j)
    /\ beats' = beats \ {j}
    /\ UNCHANGED <<proc, worker, snapshot>>

\* The statement failed, or was cancelled before it was sent.
HeartbeatLost(j) ==
    /\ j \in beats
    /\ beats' = beats \ {j}
    /\ UNCHANGED <<rows, proc, worker, snapshot>>

-----------------------------------------------------------------------------
(* Reaper::run and Reaper::tick *)

\* The reaper runs until its own signal, which comes after the workers' drain.
Reaping(p) == proc[p] \in {"up", "draining"}

FindStale(p) ==
    /\ Reaping(p)
    /\ snapshot[p] = {}
    /\ StaleRunning(Handles[p]) # {}
    /\ snapshot' = [snapshot EXCEPT ![p] = StaleRunning(Handles[p])]
    /\ UNCHANGED <<rows, proc, worker, beats>>

\* Mutant: the reaper re-queues by itself instead of calling fail().
ReapJobRequeues(p, j) ==
    /\ j \in snapshot[p]
    /\ rows' = [rows EXCEPT ![j] = RequeuedRow(@, 0)]
    /\ snapshot' = [snapshot EXCEPT ![p] = @ \ {j}]
    /\ UNCHANGED <<proc, worker, beats>>

ReapJob(p, j) ==
    /\ j \in snapshot[p]
    /\ Fail(j, TRUE) \/ FailNotFound(j)
    /\ snapshot' = [snapshot EXCEPT ![p] = @ \ {j}]
    /\ UNCHANGED <<proc, worker, beats>>

\* fail() failed without effect: logged, and the loop goes on to the next id.
ReapError(p, j) ==
    /\ StoreErrors
    /\ j \in snapshot[p]
    /\ snapshot' = [snapshot EXCEPT ![p] = @ \ {j}]
    /\ UNCHANGED <<rows, proc, worker, beats>>

-----------------------------------------------------------------------------
(* Scheduler::start, Scheduler::shutdown and the process around them *)

WorkersOf(p) == {w \in Workers : ProcOf[w] = p}

SetWorkers(p, pc) ==
    worker' = [w \in Workers |->
                 IF ProcOf[w] = p THEN [IdleWorker EXCEPT !.pc = pc] ELSE worker[w]]

Start(p) ==
    /\ proc[p] = "down"
    /\ proc' = [proc EXCEPT ![p] = "up"]
    /\ SetWorkers(p, "idle")
    /\ UNCHANGED <<rows, snapshot, beats>>

\* Mutant: the worker tasks are aborted instead of awaited.
BeginShutdownAborts(p) ==
    /\ proc[p] = "up"
    /\ proc' = [proc EXCEPT ![p] = "draining"]
    /\ SetWorkers(p, "exited")
    /\ UNCHANGED <<rows, snapshot, beats>>

\* WorkerPool::shutdown sets the flag and waits for every worker ...
BeginShutdown(p) ==
    /\ proc[p] = "up"
    /\ proc' = [proc EXCEPT ![p] = "draining"]
    /\ UNCHANGED <<rows, worker, snapshot, beats>>

\* ... then the reaper is told to stop ...
SignalReaper(p) ==
    /\ proc[p] = "draining"
    /\ \A w \in WorkersOf(p) : worker[w].pc = "exited"
    /\ proc' = [proc EXCEPT ![p] = "stopping"]
    /\ UNCHANGED <<rows, worker, snapshot, beats>>

\* ... and awaited: it finishes the tick it is in.
EndShutdown(p) ==
    /\ proc[p] = "stopping"
    /\ snapshot[p] = {}
    /\ proc' = [proc EXCEPT ![p] = "down"]
    /\ UNCHANGED <<rows, worker, snapshot, beats>>

\* Heartbeats already sent may still arrive.
Crash(p) ==
    /\ Crashes
    /\ proc[p] # "down"
    /\ proc' = [proc EXCEPT ![p] = "down"]
    /\ SetWorkers(p, "exited")
    /\ snapshot' = [snapshot EXCEPT ![p] = {}]
    /\ UNCHANGED <<rows, beats>>

-----------------------------------------------------------------------------
(* Time *)

\* Under Timely a live worker's heartbeats, and the statement that ends its
\* claim, get through before its row is older than Threshold.
Tick ==
    /\ Timely => \A w \in Workers :
                    Busy(w) /\ Holds(w) => rows[worker[w].job].beat < Threshold
    /\ PassTime
    /\ UNCHANGED <<proc, worker, snapshot, beats>>

-----------------------------------------------------------------------------
(* Specification *)

Init ==
    /\ StoreInit
    /\ proc = [p \in Procs |-> "down"]
    /\ worker = [w \in Workers |-> [IdleWorker EXCEPT !.pc = "exited"]]
    /\ snapshot = [p \in Procs |-> {}]
    /\ beats = {}

WorkerStep(w) ==
    \/ CheckShutdown(w) \/ ClaimJob(w) \/ ClaimNothing(w) \/ ClaimReplyLost(w)
    \/ HandlerReturns(w) \/ RecordOutcome(w) \/ OutcomeLost(w)
    \/ SendHeartbeat(w)

ReaperStep(p) == FindStale(p) \/ \E j \in Jobs : ReapJob(p, j) \/ ReapError(p, j)

ProcessStep(p) ==
    Start(p) \/ BeginShutdown(p) \/ SignalReaper(p) \/ EndShutdown(p) \/ Crash(p)

Next ==
    \/ \E j \in Jobs : Submit(j) \/ HeartbeatArrives(j) \/ HeartbeatLost(j)
    \/ \E w \in Workers : WorkerStep(w)
    \/ \E p \in Procs : ReaperStep(p) \/ ProcessStep(p)
    \/ Tick

Spec == Init /\ [][Next]_vars

\* Tasks are scheduled and time passes; handlers return; a database that errs
\* does not err for ever on the same statement.
WorkerFairness(w) ==
    /\ WF_vars(CheckShutdown(w))
    /\ WF_vars(ClaimNothing(w))
    /\ SF_vars(ClaimJob(w))
    /\ WF_vars(HandlerReturns(w))
    /\ WF_vars(RecordOutcome(w) \/ OutcomeLost(w))

ReaperFairness(p) ==
    /\ WF_vars(FindStale(p))
    /\ \A j \in Jobs : SF_vars(ReapJob(p, j))

ProcessFairness(p) == WF_vars(SignalReaper(p)) /\ WF_vars(EndShutdown(p))

Fairness ==
    /\ \A w \in Workers : WorkerFairness(w)
    /\ \A p \in Procs : ReaperFairness(p) /\ ProcessFairness(p)
    /\ WF_vars(Tick)

FairSpec == Spec /\ Fairness

-----------------------------------------------------------------------------
(* Properties *)

WorkerState == [pc      : {"idle", "polling", "running", "finishing", "exited"},
                job     : Jobs \cup {NoJob},
                attempt : Nat,
                outcome : Outcomes]

\* The state of every task has its type; a busy worker works on some job.
TypeOK ==
    /\ StoreTypeOK
    /\ proc \in [Procs -> {"up", "draining", "stopping", "down"}]
    /\ worker \in [Workers -> WorkerState]
    /\ \A w \in Workers : Busy(w) => worker[w].job \in Jobs
    /\ snapshot \in [Procs -> SUBSET Jobs]
    /\ beats \subseteq Jobs

\* Two workers never work on the same claim: if they execute one job at the same
\* time, a reaper came between their claims and each has an attempt of its own
\* (claim's SKIP LOCKED and its attempts + 1), whatever fails, stalls or crashes.
OneWorkerPerAttempt ==
    \A v, w \in Workers :
        v # w /\ Busy(v) /\ Busy(w) =>
            <<worker[v].job, worker[v].attempt>> # <<worker[w].job, worker[w].attempt>>

\* A worker that is executing a job still owns its row: nobody has reclaimed the
\* job it is working on, so the outcome it records is that of the latest attempt.
\* It is what the heartbeat task is for, and what complete() relies on when it
\* updates the row by id alone.
LiveClaimKept == \A w \in Workers : Busy(w) => Holds(w)

\* No job is executed by two workers at once.
NoConcurrentExecution ==
    \A v, w \in Workers : v # w /\ Busy(v) /\ Busy(w) => worker[v].job # worker[w].job

\* While nothing fails, a running row always has a worker that made its latest
\* claim and will record an outcome: shutdown lets it finish, and a process that
\* has gone down has left no row behind, however late the heartbeats are.
RunningHasWorker ==
    \A j \in Jobs : rows[j].status = "running" =>
        \E w \in Workers : /\ Busy(w)
                           /\ worker[w].job = j
                           /\ worker[w].attempt = rows[j].attempts

\* Of a failure and a completion of the same claim one alone takes effect: a job
\* is completed only while it is running.
ExactlyOneWins ==
    [][\A j \in Jobs : rows[j].status # "completed" /\ rows'[j].status = "completed"
                         => rows[j].status = "running"]_rows

StaysUp(p) == <>[](proc[p] = "up")

\* Every accepted job ends up completed or failed if one process that serves its
\* type stays up, though other processes crash for ever, replies are lost and
\* heartbeats come late: retries, backoff and reaping always come to an end.
JobsFinish ==
    \A j \in Jobs :
        (\E p \in Procs : JobType[j] \in Handles[p] /\ StaysUp(p))
            => (rows[j].status = "pending" ~> rows[j].status \in Terminal)

\* A shutdown that nothing interrupts comes to its end: the workers finish what
\* they have and stop, then the reaper stops (Scheduler::shutdown awaits both).
ShutdownEnds == \A p \in Procs : proc[p] = "draining" ~> proc[p] = "down"

=============================================================================
