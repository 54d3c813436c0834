------------------------- MODULE JobClientsProofs -------------------------
(***************************************************************************)
(* The two clients of the jobs table.  What the schedulers guarantee for   *)
(* any number of processes, workers and jobs: without any assumption on    *)
(* timing, with timely heartbeats, and in the absence of failures.  And    *)
(* trigger_ingest among any clients of the table: it only issues the       *)
(* table's own statements, a success covers every account asked for, and   *)
(* the job in flight is listed first.                                      *)
(***************************************************************************)
EXTENDS JobQueue, IngestTrigger, JobStoreProofs

-----------------------------------------------------------------------------
(* Type correctness *)

\* Workers and reapers ask for sets of job types.
LEMMA ServedTypes ==
    /\ \A w \in Workers : Served(w) \in SUBSET Types
    /\ \A p \in Procs : Handles[p] \in SUBSET Types
BY ProcessesAssumption DEF Served, Workers

\* The same worker with another pc.
LEMMA MoveType ==
    ASSUME TypeOK, NEW w \in Workers, NEW pc \in {"idle", "polling", "exited"}, Move(w, pc)
    PROVE  /\ worker' \in [Workers -> WorkerState]
           /\ \A v \in Workers : Busy(v)' => v # w /\ worker'[v] = worker[v]
<1>1. worker[w] \in WorkerState /\ worker \in [Workers -> WorkerState]
  BY DEF TypeOK
<1>2. [worker[w] EXCEPT !.pc = pc] \in WorkerState
  BY <1>1 DEF WorkerState
<1>3. worker' = [worker EXCEPT ![w] = [worker[w] EXCEPT !.pc = pc]]
  BY DEF Move
<1>4. [worker[w] EXCEPT !.pc = pc].pc = pc
  BY <1>1 DEF WorkerState
<1> QED
  BY <1>1, <1>2, <1>3, <1>4 DEF Busy

\* A worker between two jobs is a worker.
LEMMA IdleWorkerType ==
    /\ IdleWorker \in WorkerState
    /\ \A pc \in {"idle", "exited"} :
          /\ [IdleWorker EXCEPT !.pc = pc] \in WorkerState
          /\ [IdleWorker EXCEPT !.pc = pc].pc = pc
BY DEF IdleWorker, WorkerState, Outcomes

\* Starting or killing a process makes none of its workers busy.
LEMMA SetWorkersType ==
    ASSUME TypeOK, NEW p \in Procs, NEW pc \in {"idle", "exited"}, SetWorkers(p, pc)
    PROVE  /\ worker' \in [Workers -> WorkerState]
           /\ \A v \in Workers : ProcOf[v] = p => worker'[v].pc = pc
           /\ \A v \in Workers : Busy(v)' => ProcOf[v] # p /\ worker'[v] = worker[v]
BY IdleWorkerType DEF TypeOK, SetWorkers, Busy

\* What ClaimJob makes of a worker.
ClaimingWorker(j, n) ==
    [IdleWorker EXCEPT !.pc = "running", !.job = j, !.attempt = n]

\* A worker that has just claimed is a worker.
LEMMA ClaimingWorkerType ==
    ASSUME NEW j \in Jobs, NEW n \in Nat
    PROVE  /\ ClaimingWorker(j, n) \in WorkerState
           /\ ClaimingWorker(j, n).pc = "running"
           /\ ClaimingWorker(j, n).job = j
           /\ ClaimingWorker(j, n).attempt = n
BY DEF ClaimingWorker, IdleWorker, WorkerState, Outcomes

\* A handler that returns leaves its worker busy with the same claim.
LEMMA HandlerType ==
    ASSUME TypeOK, NEW w \in Workers, HandlerReturns(w)
    PROVE  /\ worker' \in [Workers -> WorkerState]
           /\ \A v \in Workers : v # w => worker'[v] = worker[v]
           /\ Busy(w) /\ worker'[w].job = worker[w].job
           /\ worker'[w].attempt = worker[w].attempt
<1>1. worker[w] \in WorkerState /\ worker \in [Workers -> WorkerState]
  BY DEF TypeOK
<1>2. PICK outcome \in Outcomes :
        worker' = [worker EXCEPT ![w] = [worker[w] EXCEPT !.pc = "finishing", !.outcome = outcome]]
  BY DEF HandlerReturns
<1> DEFINE new == [worker[w] EXCEPT !.pc = "finishing", !.outcome = outcome]
<1>3. new \in WorkerState /\ new.job = worker[w].job /\ new.attempt = worker[w].attempt
  BY <1>1 DEF WorkerState
<1> HIDE DEF new
<1>4. worker' = [worker EXCEPT ![w] = new]
  BY <1>2 DEF new
<1> QED
  BY <1>1, <1>3, <1>4 DEF HandlerReturns, Busy

\* Before any process starts every variable has its type.
LEMMA TypeInit == Init => TypeOK
<1> SUFFICES ASSUME Init PROVE TypeOK
  OBVIOUS
<1>1. StoreTypeOK
  BY TimesAssumption DEF Init, StoreInit, StoreTypeOK, AbsentRow, Row, Status
<1>2. worker \in [Workers -> WorkerState] /\ \A w \in Workers : ~Busy(w)
  BY IdleWorkerType DEF Init, Busy
<1> QED
  BY <1>1, <1>2 DEF Init, TypeOK
-----------------------------------------------------------------------------
(* The schedulers change the table only through its statements              *)

\* Every step of a worker, a reaper or a process is one statement or none.
LEMMA StoreStep == TypeOK /\ [Next]_vars => [StoreNext]_rows
<1> SUFFICES ASSUME TypeOK, [Next]_vars PROVE [StoreNext]_rows
  OBVIOUS
<1> USE DEF StoreNext
<1>1. ASSUME NEW j \in Jobs, Submit(j) PROVE StoreNext
  BY <1>1 DEF Submit
<1>2. ASSUME NEW j \in Jobs, HeartbeatArrives(j) PROVE StoreNext
  BY <1>2 DEF HeartbeatArrives
<1>3. ASSUME NEW j \in Jobs, HeartbeatLost(j) PROVE UNCHANGED rows
  BY <1>3 DEF HeartbeatLost
<1>4. ASSUME NEW w \in Workers, WorkerStep(w) PROVE [StoreNext]_rows
  <2>1. CASE ClaimJob(w)
    BY <2>1, ServedTypes DEF ClaimJob, Workers
  <2>2. CASE ClaimReplyLost(w)
    BY <2>2, ServedTypes DEF ClaimReplyLost, Workers
  <2>3. CASE RecordOutcome(w)
    <3>1. worker[w].job \in Jobs
      BY <2>3 DEF RecordOutcome, TypeOK, Busy
    <3>2. \/ Complete(worker[w].job)
          \/ Fail(worker[w].job, worker[w].outcome = "retry")
          \/ UNCHANGED rows
      BY <2>3 DEF RecordOutcome, FailNotFound
    <3>3. (worker[w].outcome = "retry") \in BOOLEAN
      OBVIOUS
    <3> QED
      BY <3>1, <3>2, <3>3
  <2>4. CASE CheckShutdown(w) \/ ClaimNothing(w) \/ HandlerReturns(w) \/ OutcomeLost(w)
             \/ SendHeartbeat(w)
    BY <2>4 DEF CheckShutdown, ClaimNothing, HandlerReturns, OutcomeLost, SendHeartbeat
  <2> QED
    BY <1>4, <2>1, <2>2, <2>3, <2>4 DEF WorkerStep
<1>5. ASSUME NEW p \in Procs, ReaperStep(p) PROVE [StoreNext]_rows
  <2>1. CASE FindStale(p)
    BY <2>1 DEF FindStale
  <2>2. ASSUME NEW j \in Jobs, ReapJob(p, j) PROVE [StoreNext]_rows
    BY <2>2 DEF ReapJob, FailNotFound
  <2>3. ASSUME NEW j \in Jobs, ReapError(p, j) PROVE [StoreNext]_rows
    BY <2>3 DEF ReapError
  <2> QED
    BY <1>5, <2>1, <2>2, <2>3 DEF ReaperStep
<1>6. ASSUME NEW p \in Procs, ProcessStep(p) PROVE UNCHANGED rows
  BY <1>6 DEF ProcessStep, Start, BeginShutdown, SignalReaper, EndShutdown, Crash
<1>7. ASSUME Tick PROVE StoreNext
  BY <1>7 DEF Tick
<1>8. ASSUME UNCHANGED vars PROVE UNCHANGED rows
  BY <1>8 DEF vars
<1> QED
  BY <1>1, <1>2, <1>3, <1>4, <1>5, <1>6, <1>7, <1>8 DEF Next

\* A worker that is busy after a step was busy with the same claim before it, or
\* has just made the claim.
LEMMA BusyStep ==
    ASSUME TypeOK, [Next]_vars
    PROVE  /\ worker' \in [Workers -> WorkerState]
           /\ \A v \in Workers : Busy(v)' =>
                \/ /\ Busy(v)
                   /\ worker'[v].job = worker[v].job
                   /\ worker'[v].attempt = worker[v].attempt
                \/ /\ ClaimJob(v)
                   /\ worker'[v].job \in Jobs
                   /\ worker'[v].attempt = rows[worker'[v].job].attempts + 1
                   /\ Claim(v, Served(v), worker'[v].job)
<1> DEFINE Same(v) == /\ Busy(v)
                      /\ worker'[v].job = worker[v].job
                      /\ worker'[v].attempt = worker[v].attempt
           New(v) == /\ ClaimJob(v)
                     /\ worker'[v].job \in Jobs
                     /\ worker'[v].attempt = rows[worker'[v].job].attempts + 1
                     /\ Claim(v, Served(v), worker'[v].job)
           Good == /\ worker' \in [Workers -> WorkerState]
                   /\ \A v \in Workers : Busy(v)' => Same(v) \/ New(v)
<1> SUFFICES Good
  OBVIOUS
<1>0. worker \in [Workers -> WorkerState]
  BY DEF TypeOK
<1>1. ASSUME UNCHANGED worker PROVE Good
  BY <1>0, <1>1 DEF Busy
<1>2. ASSUME NEW w \in Workers, NEW pc \in {"idle", "polling", "exited"}, Move(w, pc) PROVE Good
  BY <1>0, <1>2, MoveType DEF Busy
<1>3. ASSUME NEW w \in Workers, ClaimJob(w) PROVE Good
  <2>1. PICK j \in Jobs : /\ Claim(w, Served(w), j)
                          /\ worker' = [worker EXCEPT ![w] = ClaimingWorker(j, rows[j].attempts + 1)]
    BY <1>3 DEF ClaimJob, ClaimingWorker
  <2>2. rows[j].attempts + 1 \in Nat
    BY DEF TypeOK, StoreTypeOK, Row
  <2>3. worker' \in [Workers -> WorkerState]
    BY <1>0, <2>1, <2>2, ClaimingWorkerType
  <2>4. /\ worker'[w].job = j /\ worker'[w].attempt = rows[j].attempts + 1
        /\ \A v \in Workers : v # w => worker'[v] = worker[v]
    BY <1>0, <2>1, <2>2, ClaimingWorkerType
  <2>5. \A v \in Workers : v # w /\ Busy(v)' => Same(v)
    BY <2>4 DEF Busy
  <2>6. New(w)
    BY <1>3, <2>1, <2>4
  <2> QED
    BY <2>3, <2>5, <2>6
<1>4. ASSUME NEW w \in Workers, HandlerReturns(w) PROVE Good
  BY <1>0, <1>4, HandlerType DEF Busy
<1>5. ASSUME NEW w \in Workers, worker' = [worker EXCEPT ![w] = IdleWorker] PROVE Good
  <2>1. IdleWorker \in WorkerState /\ IdleWorker.pc = "idle"
    BY DEF IdleWorker, WorkerState, Outcomes
  <2> QED
    BY <1>0, <1>5, <2>1 DEF Busy
<1>6. ASSUME NEW p \in Procs, NEW pc \in {"idle", "exited"}, SetWorkers(p, pc) PROVE Good
  BY <1>6, SetWorkersType DEF Busy
<1>7. ASSUME NEW w \in Workers, WorkerStep(w) PROVE Good
  <2>1. CASE CheckShutdown(w)
    BY <2>1, <1>2 DEF CheckShutdown
  <2>2. CASE ClaimNothing(w) \/ ClaimReplyLost(w)
    BY <2>2, <1>2 DEF ClaimNothing, ClaimReplyLost
  <2>3. CASE RecordOutcome(w) \/ OutcomeLost(w)
    BY <2>3, <1>5 DEF RecordOutcome, OutcomeLost
  <2>4. CASE SendHeartbeat(w)
    BY <2>4, <1>1 DEF SendHeartbeat
  <2> QED
    BY <1>3, <1>4, <1>7, <2>1, <2>2, <2>3, <2>4 DEF WorkerStep
<1>8. ASSUME NEW p \in Procs, ProcessStep(p) PROVE Good
  <2>1. CASE Start(p)
    BY <2>1, <1>6 DEF Start
  <2>2. CASE Crash(p)
    BY <2>2, <1>6 DEF Crash
  <2>3. CASE BeginShutdown(p) \/ SignalReaper(p) \/ EndShutdown(p)
    BY <2>3, <1>1 DEF BeginShutdown, SignalReaper, EndShutdown
  <2> QED
    BY <1>8, <2>1, <2>2, <2>3 DEF ProcessStep
<1>9. ASSUME NEW p \in Procs, ReaperStep(p) PROVE UNCHANGED worker
  BY <1>9 DEF ReaperStep, FindStale, ReapJob, ReapError
<1>10. ASSUME NEW j \in Jobs, Submit(j) \/ HeartbeatArrives(j) \/ HeartbeatLost(j)
       PROVE  UNCHANGED worker
  BY <1>10 DEF Submit, HeartbeatArrives, HeartbeatLost
<1>11. ASSUME Tick \/ UNCHANGED vars PROVE UNCHANGED worker
  BY <1>11 DEF Tick, vars
<1> QED
  BY <1>1, <1>7, <1>8, <1>9, <1>10, <1>11 DEF Next

\* TypeOK is inductive.
LEMMA TypeStep == TypeOK /\ [Next]_vars => TypeOK'
<1> SUFFICES ASSUME TypeOK, [Next]_vars PROVE TypeOK'
  OBVIOUS
<1>1. StoreTypeOK'
  BY StoreStep, StoreTypeStep DEF TypeOK
<1>2. worker' \in [Workers -> WorkerState]
  BY BusyStep
<1>3. \A w \in Workers : Busy(w)' => worker'[w].job \in Jobs
  BY BusyStep DEF TypeOK
<1>4. proc' \in [Procs -> {"up", "draining", "stopping", "down"}]
  <2>1. ASSUME NEW p \in Procs, ProcessStep(p)
        PROVE  proc' \in [Procs -> {"up", "draining", "stopping", "down"}]
    BY <2>1 DEF ProcessStep, Start, BeginShutdown, SignalReaper, EndShutdown, Crash, TypeOK
  <2>2. ASSUME UNCHANGED proc
        PROVE  proc' \in [Procs -> {"up", "draining", "stopping", "down"}]
    BY <2>2 DEF TypeOK
  <2> QED
    BY <2>1, <2>2 DEF Next, vars, Submit, HeartbeatArrives, HeartbeatLost, WorkerStep,
       CheckShutdown, ClaimJob, ClaimNothing, ClaimReplyLost, HandlerReturns, RecordOutcome,
       OutcomeLost, SendHeartbeat, ReaperStep, FindStale, ReapJob, ReapError, Tick
<1>5. snapshot' \in [Procs -> SUBSET Jobs]
  <2>1. ASSUME NEW p \in Procs, ReaperStep(p) \/ Crash(p) PROVE snapshot' \in [Procs -> SUBSET Jobs]
    BY <2>1 DEF ReaperStep, FindStale, ReapJob, ReapError, Crash, StaleRunning, TypeOK
  <2>2. ASSUME UNCHANGED snapshot PROVE snapshot' \in [Procs -> SUBSET Jobs]
    BY <2>2 DEF TypeOK
  <2> QED
    BY <2>1, <2>2 DEF Next, vars, Submit, HeartbeatArrives, HeartbeatLost, WorkerStep,
       CheckShutdown, ClaimJob, ClaimNothing, ClaimReplyLost, HandlerReturns, RecordOutcome,
       OutcomeLost, SendHeartbeat, ProcessStep, Start, BeginShutdown, SignalReaper,
       EndShutdown, Tick
<1>6. beats' \subseteq Jobs
  <2>1. ASSUME NEW w \in Workers, SendHeartbeat(w) PROVE beats' \subseteq Jobs
    BY <2>1 DEF SendHeartbeat, TypeOK, Busy
  <2>2. ASSUME NEW j \in Jobs, HeartbeatArrives(j) \/ HeartbeatLost(j) PROVE beats' \subseteq Jobs
    BY <2>2 DEF HeartbeatArrives, HeartbeatLost, TypeOK
  <2>3. ASSUME UNCHANGED beats PROVE beats' \subseteq Jobs
    BY <2>3 DEF TypeOK
  <2> QED
    BY <2>1, <2>2, <2>3 DEF Next, vars, Submit, WorkerStep,
       CheckShutdown, ClaimJob, ClaimNothing, ClaimReplyLost, HandlerReturns, RecordOutcome,
       OutcomeLost, ReaperStep, FindStale, ReapJob, ReapError,
       ProcessStep, Start, BeginShutdown, SignalReaper, EndShutdown, Crash, Tick
<1> QED
  BY <1>1, <1>2, <1>3, <1>4, <1>5, <1>6 DEF TypeOK

\* Rows, workers, processes, reapers and heartbeats keep their types for ever.
THEOREM TypeCorrect == Spec => []TypeOK
BY TypeInit, TypeStep, PTL DEF Spec

\* Workers and reapers, with all their failures, are clients of the jobs table, so
\* everything JobStoreProofs shows of the table holds of the queue.
THEOREM QueueUsesStore == Spec => StoreSpec
<1>1. Init => StoreInit
  BY DEF Init
<1> QED
  BY <1>1, StoreStep, TypeCorrect, PTL DEF Spec, StoreSpec

\* What the table guarantees any client it guarantees to the callers of a queue
\* whose processes crash, stall and lose statements.
THEOREM QueueInheritsStore ==
    Spec => /\ [](DedupUnique /\ AttemptsBounded /\ RowConsistent /\ FirstTriesInOrder)
            /\ NoResurrection
            /\ ImplementsLifecycle
BY QueueUsesStore, DedupAlwaysUnique, AttemptsAlwaysBounded, RowsAlwaysConsistent,
   FirstTriesAlwaysInOrder, NothingResurrected, StoreImplementsLifecycle, PTL
-----------------------------------------------------------------------------
(* One worker per attempt, whatever happens                                 *)

\* A claim takes the next attempt number, so a busy worker's number is never ahead
\* of the row's, and a new claim's is ahead of every other worker's.
AttemptInv ==
    /\ \A w \in Workers : Busy(w) => worker[w].attempt =< rows[worker[w].job].attempts
    /\ OneWorkerPerAttempt

\* Attempts are not taken back.
LEMMA AttemptsGrow ==
    ASSUME StoreTypeOK, AbsentBlank, [StoreNext]_rows, NEW j \in Jobs
    PROVE  /\ rows[j].attempts \in Nat
           /\ rows'[j].attempts >= rows[j].attempts
<1>1. RowStep(j) /\ rows[j].attempts \in Nat
  BY EveryRowSteps, AttemptsType
<1>2. CASE Insertion(rows[j], rows'[j])
  BY <1>1, <1>2 DEF Insertion, Facts, AbsentBlank
<1>3. CASE Claiming(rows[j], rows'[j])
  BY <1>1, <1>3 DEF Claiming, Facts
<1>4. CASE rows'[j].attempts = rows[j].attempts
  BY <1>1, <1>4
<1> QED
  BY <1>1, <1>2, <1>3, <1>4 DEF RowStep, Facts, Completion, Requeueing, GivingUp

\* A claim takes a row that waits, counts the attempt and touches no other row.
LEMMA ClaimCounts ==
    ASSUME StoreTypeOK, NEW w \in WorkerIds, NEW types, NEW j \in Jobs, Claim(w, types, j)
    PROVE  /\ rows[j].status = "pending"
           /\ rows'[j].status = "running"
           /\ rows'[j].attempts = rows[j].attempts + 1
           /\ rows'[j].claimed_by = w
           /\ rows'[j].beat = 0
           /\ \A k \in Jobs : k # j => rows'[k] = rows[k]
<1>1. /\ rows[j].status = "pending"
      /\ rows' = [rows EXCEPT ![j] = ClaimedRow(@, w)]
  BY DEF Claim, Eligible
<1>2. Facts(ClaimedRow(rows[j], w)) = <<"running", rows[j].attempts + 1, w,
                                        rows[j].finished, rows[j].result>>
  BY RowFacts DEF StoreTypeOK
<1>3. ClaimedRow(rows[j], w).beat = 0
  BY DEF StoreTypeOK, ClaimedRow, Row
<1> QED
  BY <1>1, <1>2, <1>3 DEF Facts, StoreTypeOK

\* AttemptInv is inductive: a claim takes a number above every number that busy
\* workers hold on that row.
LEMMA AttemptStep ==
    ASSUME TypeOK, AbsentBlank, AttemptInv, [Next]_vars
    PROVE  AttemptInv'
<1>0. StoreTypeOK /\ [StoreNext]_rows
  BY StoreStep DEF TypeOK
<1>1. \A v \in Workers : Busy(v) => worker[v].job \in Jobs /\ worker[v].attempt \in Nat
  BY DEF TypeOK, WorkerState
<1>2. ASSUME NEW v \in Workers, ClaimJob(v), Busy(v)',
             Claim(v, Served(v), worker'[v].job), worker'[v].job \in Jobs,
             worker'[v].attempt = rows[worker'[v].job].attempts + 1
      PROVE  /\ worker'[v].attempt =< rows'[worker'[v].job].attempts
             /\ \A u \in Workers : Busy(u) => worker[u].job # worker'[v].job
                                              \/ worker[u].attempt < worker'[v].attempt
  <2>1. rows'[worker'[v].job].attempts = worker'[v].attempt
    BY <1>0, <1>2, ClaimCounts DEF Workers
  <2>2. rows[worker'[v].job].attempts \in Nat
    BY <1>0, <1>2, AttemptsType
  <2> QED
    BY <1>1, <1>2, <2>1, <2>2 DEF AttemptInv
<1>3. ASSUME NEW v \in Workers, Busy(v)' PROVE worker'[v].attempt =< rows'[worker'[v].job].attempts
  <2>1. CASE /\ Busy(v)
             /\ worker'[v].job = worker[v].job
             /\ worker'[v].attempt = worker[v].attempt
    <3>1. rows[worker[v].job].attempts \in Nat
          /\ rows'[worker[v].job].attempts \in Nat
          /\ rows'[worker[v].job].attempts >= rows[worker[v].job].attempts
      BY <1>0, <1>1, <2>1, AttemptsGrow, StoreTypeStep DEF StoreTypeOK, Row
    <3> QED
      BY <1>1, <2>1, <3>1 DEF AttemptInv
  <2> QED
    BY <1>2, <1>3, <2>1, BusyStep
<1>4. ASSUME NEW u \in Workers, NEW v \in Workers, u # v, Busy(u)', Busy(v)',
             worker'[u].job = worker'[v].job, worker'[u].attempt = worker'[v].attempt
      PROVE  FALSE
  <2>1. CASE ClaimJob(u) /\ ClaimJob(v)
    BY <1>4, <2>1 DEF ClaimJob, TypeOK, Busy
  <2>2. CASE ~ClaimJob(u) /\ ~ClaimJob(v)
    BY <1>4, <2>2, BusyStep DEF AttemptInv, OneWorkerPerAttempt
  <2>3. ASSUME NEW x \in {u, v}, NEW y \in {u, v}, x # y, ClaimJob(x), ~ClaimJob(y) PROVE FALSE
    <3>1. /\ Busy(y)
          /\ worker'[y].job = worker[y].job
          /\ worker'[y].attempt = worker[y].attempt
      BY <1>4, <2>3, BusyStep
    <3>2. worker[y].attempt = worker'[x].attempt /\ worker[y].job = worker'[x].job
      BY <1>4, <2>3, <3>1
    <3>3. \/ /\ Busy(x) /\ ClaimJob(x)
          \/ worker[y].attempt < worker'[x].attempt
      BY <1>2, <1>4, <2>3, <3>1, <3>2, BusyStep
    <3>4. ~Busy(x)
      BY <2>3 DEF ClaimJob, Busy
    <3> QED
      BY <1>1, <3>1, <3>2, <3>3, <3>4
  <2> QED
    BY <2>1, <2>2, <2>3, <1>4
<1> QED
  BY <1>3, <1>4 DEF AttemptInv, OneWorkerPerAttempt

\* However workers stall, crash or lose replies, no two of them ever work on one
\* and the same claim.
THEOREM OneWorkerPerAttemptAlways == Spec => []OneWorkerPerAttempt
<1>1. Init => AttemptInv
  BY DEF Init, AttemptInv, OneWorkerPerAttempt, Busy, IdleWorker
<1>2. TypeOK /\ AbsentBlank /\ AttemptInv /\ [Next]_vars => AttemptInv'
  BY AttemptStep
<1>3. AttemptInv => OneWorkerPerAttempt
  BY DEF AttemptInv
<1> QED
  BY <1>1, <1>2, <1>3, TypeCorrect, QueueUsesStore, AbsentAlwaysBlank, PTL DEF Spec
-----------------------------------------------------------------------------
(* Timely heartbeats protect a claim, if each job type has one reaper       *)

OneReaperPerType == \A p, q \in Procs : Handles[p] \cap Handles[q] # {} => p = q

\* A busy worker holds its row, whose heartbeat is fresh enough; what a reaper has
\* on its list has been abandoned and will be left alone until that reaper takes it.
LeaseInv ==
    /\ \A w \in Workers : Busy(w) =>
          /\ Holds(w)
          /\ rows[worker[w].job].beat =< Threshold
          /\ JobType[worker[w].job] \in Served(w)
    /\ \A p \in Procs : \A j \in snapshot[p] :
          /\ rows[j].status = "running"
          /\ JobType[j] \in Handles[p]
          /\ \A w \in Workers : Busy(w) => worker[w].job # j

\* A step that touches only a row nobody holds or lists any more is harmless.
LEMMA LeaseFrame ==
    ASSUME TypeOK, LeaseInv, NEW i,
           \A j \in Jobs : j # i => rows'[j] = rows[j],
           \A w \in Workers : Busy(w)' =>
                /\ Busy(w)
                /\ worker'[w].job = worker[w].job
                /\ worker'[w].attempt = worker[w].attempt
                /\ worker[w].job # i,
           \A p \in Procs : snapshot'[p] \subseteq snapshot[p] \ {i}
    PROVE  LeaseInv'
<1>1. \A w \in Workers : Busy(w) => worker[w].job \in Jobs
  BY DEF TypeOK
<1>2. \A p \in Procs : snapshot[p] \subseteq Jobs
  BY DEF TypeOK
<1>3. ASSUME NEW w \in Workers, Busy(w)'
      PROVE  /\ Holds(w)'
             /\ rows'[worker'[w].job].beat =< Threshold
             /\ JobType[worker'[w].job] \in Served(w)
  BY <1>1, <1>3 DEF LeaseInv, Holds
<1>4. ASSUME NEW p \in Procs, NEW j \in snapshot'[p]
      PROVE  /\ rows'[j].status = "running"
             /\ JobType[j] \in Handles[p]
             /\ \A w \in Workers : Busy(w)' => worker'[w].job # j
  BY <1>2, <1>4 DEF LeaseInv
<1> QED
  BY <1>3, <1>4 DEF LeaseInv, Served

\* So is a step that touches no row and adds nothing to a list.
LEMMA LeaseKeep ==
    ASSUME TypeOK, LeaseInv, UNCHANGED rows,
           \A w \in Workers : Busy(w)' =>
                /\ Busy(w)
                /\ worker'[w].job = worker[w].job
                /\ worker'[w].attempt = worker[w].attempt,
           \A p \in Procs : snapshot'[p] \subseteq snapshot[p]
    PROVE  LeaseInv'
<1>1. ASSUME NEW w \in Workers, Busy(w)'
      PROVE  /\ Holds(w)'
             /\ rows'[worker'[w].job].beat =< Threshold
             /\ JobType[worker'[w].job] \in Served(w)
  BY <1>1 DEF LeaseInv, Holds
<1>2. ASSUME NEW p \in Procs, NEW j \in snapshot'[p]
      PROVE  /\ rows'[j].status = "running"
             /\ JobType[j] \in Handles[p]
             /\ \A w \in Workers : Busy(w)' => worker'[w].job # j
  BY <1>2 DEF LeaseInv
<1> QED
  BY <1>1, <1>2 DEF LeaseInv, Served

\* A statement about one row leaves the other rows alone.
LEMMA OthersUntouched ==
    ASSUME StoreTypeOK, NEW j \in Jobs,
           \/ Enqueue(j) \/ Complete(j) \/ UpdateHeartbeat(j) \/ FailNotFound(j)
           \/ \E retryable \in BOOLEAN : Fail(j, retryable)
           \/ \E w \in WorkerIds, types \in SUBSET Types : Claim(w, types, j)
    PROVE  \A k \in Jobs : k # j => rows'[k] = rows[k]
BY DEF StoreTypeOK, Enqueue, Complete, UpdateHeartbeat, Fail, FailNotFound, Claim

\* LeaseInv is inductive when heartbeats are timely: a row held by a live worker is
\* never old enough to enter a reaper's list, and a listed row is not claimed again
\* before the only reaper of its type has dealt with it.
LEMMA LeaseStep ==
    ASSUME Timely, OneReaperPerType, TypeOK, LeaseInv, [Next]_vars
    PROVE  LeaseInv'
<1>0. /\ StoreTypeOK
      /\ \A w \in Workers : Busy(w) => worker[w].job \in Jobs
      /\ \A p \in Procs : snapshot[p] \subseteq Jobs
  BY DEF TypeOK
<1> DEFINE SameClaim(w) == /\ Busy(w)
                           /\ worker'[w].job = worker[w].job
                           /\ worker'[w].attempt = worker[w].attempt
<1>a. \A w \in Workers : Busy(w)' => SameClaim(w) \/ ClaimJob(w)
  BY BusyStep
<1>b. ASSUME UNCHANGED <<rows, snapshot>>, \A w \in Workers : ~ClaimJob(w)
      PROVE  LeaseInv'
  <2>1. \A w \in Workers : Busy(w)' => SameClaim(w)
    BY <1>a, <1>b
  <2> QED
    BY <1>b, <2>1, LeaseKeep
<1>c. ASSUME UNCHANGED worker PROVE \A w \in Workers : Busy(w)' => SameClaim(w)
  BY <1>c DEF Busy
<1>d. ASSUME UNCHANGED <<rows, worker, snapshot>> PROVE LeaseInv'
  <2>1. \A w \in Workers : Busy(w)' => SameClaim(w)
    BY <1>c, <1>d
  <2> QED
    BY <1>d, <2>1, LeaseKeep
<1>1. ASSUME NEW j \in Jobs, Submit(j) PROVE LeaseInv'
  <2>1. Enqueue(j) /\ rows[j].status = "absent" /\ UNCHANGED <<worker, snapshot>>
    BY <1>1 DEF Submit, Enqueue
  <2>2. \A w \in Workers : Busy(w) => worker[w].job # j
    BY <2>1 DEF LeaseInv, Holds
  <2>3. \A p \in Procs : j \notin snapshot[p]
    BY <2>1 DEF LeaseInv
  <2>4. \A k \in Jobs : k # j => rows'[k] = rows[k]
    BY <1>0, <2>1, OthersUntouched
  <2>5. \A w \in Workers : Busy(w)' => SameClaim(w) /\ worker[w].job # j
    BY <1>c, <2>1, <2>2
  <2>6. \A p \in Procs : snapshot'[p] \subseteq snapshot[p] \ {j}
    BY <2>1, <2>3
  <2> QED
    BY <2>4, <2>5, <2>6, LeaseFrame
<1>2. ASSUME NEW j \in Jobs, HeartbeatArrives(j) PROVE LeaseInv'
  <2>1. rows' = [rows EXCEPT ![j] = BeatenRow(@)] /\ UNCHANGED <<worker, snapshot>>
    BY <1>2 DEF HeartbeatArrives, UpdateHeartbeat
  <2>2. Facts(BeatenRow(rows[j])) = Facts(rows[j])
        /\ (BeatenRow(rows[j]).beat = 0 \/ BeatenRow(rows[j]) = rows[j])
    BY <1>0, RowFacts DEF StoreTypeOK, BeatenRow, Row
  <2>3. \A k \in Jobs : Facts(rows'[k]) = Facts(rows[k])
                        /\ (rows'[k].beat = 0 \/ rows'[k] = rows[k])
    BY <1>0, <2>1, <2>2 DEF StoreTypeOK
  <2> QED
    BY <1>0, <2>1, <2>3, TimesAssumption DEF LeaseInv, Holds, Busy, Served, Facts
<1>3. ASSUME NEW w \in Workers, ClaimJob(w) PROVE LeaseInv'
  <2>1. PICK j \in Jobs : /\ Claim(w, Served(w), j)
                          /\ worker' = [worker EXCEPT ![w] = ClaimingWorker(j, rows[j].attempts + 1)]
    BY <1>3 DEF ClaimJob, ClaimingWorker
  <2>2. /\ rows[j].status = "pending" /\ JobType[j] \in Served(w)
        /\ rows'[j].status = "running" /\ rows'[j].attempts = rows[j].attempts + 1
        /\ rows'[j].claimed_by = w /\ rows'[j].beat = 0
        /\ \A k \in Jobs : k # j => rows'[k] = rows[k]
    <3>1. j \in Eligible(Served(w))
      BY <2>1 DEF Claim
    <3>2. w \in WorkerIds
      BY DEF Workers
    <3> QED
      BY <1>0, <2>1, <3>1, <3>2, ClaimCounts DEF Eligible
  <2>3. /\ \A v \in Workers : Busy(v) => worker[v].job # j
        /\ \A p \in Procs : j \notin snapshot[p]
    BY <2>2 DEF LeaseInv, Holds
  <2>4. rows[j].attempts + 1 \in Nat
    BY <1>0, AttemptsType
  <2>5. /\ worker'[w].job = j /\ worker'[w].attempt = rows[j].attempts + 1
        /\ \A v \in Workers : v # w => worker'[v] = worker[v]
    BY <2>1, <2>4, ClaimingWorkerType DEF TypeOK
  <2>6. UNCHANGED snapshot
    BY <1>3 DEF ClaimJob
  <2>7. ASSUME NEW v \in Workers, Busy(v)'
        PROVE  /\ Holds(v)'
               /\ rows'[worker'[v].job].beat =< Threshold
               /\ JobType[worker'[v].job] \in Served(v)
    <3>1. CASE v = w
      BY <2>2, <2>5, <3>1, TimesAssumption DEF Holds
    <3>2. CASE v # w
      <4>1. Busy(v) /\ worker'[v] = worker[v] /\ worker[v].job # j /\ worker[v].job \in Jobs
        BY <1>0, <2>3, <2>5, <2>7, <3>2 DEF Busy
      <4> QED
        BY <2>2, <4>1 DEF LeaseInv, Holds
    <3> QED
      BY <3>1, <3>2
  <2>8. ASSUME NEW p \in Procs, NEW i \in snapshot'[p]
        PROVE  /\ rows'[i].status = "running"
               /\ JobType[i] \in Handles[p]
               /\ \A v \in Workers : Busy(v)' => worker'[v].job # i
    <3>1. i \in snapshot[p] /\ i # j /\ i \in Jobs
      BY <1>0, <2>3, <2>6, <2>8
    <3>2. rows'[i] = rows[i]
      BY <2>2, <3>1
    <3>3. \A v \in Workers : Busy(v)' => worker'[v].job # i
      BY <2>5, <3>1 DEF LeaseInv, Busy
    <3> QED
      BY <3>1, <3>2, <3>3 DEF LeaseInv
  <2> QED
    BY <2>7, <2>8 DEF LeaseInv, Served
<1>4. ASSUME NEW w \in Workers, ClaimReplyLost(w) PROVE LeaseInv'
  <2>1. PICK j \in Jobs : Claim(w, Served(w), j)
    BY <1>4 DEF ClaimReplyLost
  <2>2. rows[j].status = "pending" /\ UNCHANGED snapshot
    BY <1>4, <2>1 DEF Claim, Eligible, ClaimReplyLost
  <2>3. /\ \A v \in Workers : Busy(v) => worker[v].job # j
        /\ \A p \in Procs : j \notin snapshot[p]
    BY <2>2 DEF LeaseInv, Holds
  <2>4. \A v \in Workers : Busy(v)' => SameClaim(v)
    BY <1>4, MoveType DEF ClaimReplyLost, Busy
  <2>5. \A k \in Jobs : k # j => rows'[k] = rows[k]
    BY <1>0, <2>1, OthersUntouched, ServedTypes DEF Workers
  <2>6. \A v \in Workers : Busy(v)' => SameClaim(v) /\ worker[v].job # j
    BY <2>3, <2>4
  <2>7. \A p \in Procs : snapshot'[p] \subseteq snapshot[p] \ {j}
    BY <2>2, <2>3
  <2> QED
    BY <2>5, <2>6, <2>7, LeaseFrame
<1>5. ASSUME NEW w \in Workers, RecordOutcome(w) PROVE LeaseInv'
  <2> DEFINE j == worker[w].job
  <2>1. Busy(w) /\ j \in Jobs /\ UNCHANGED snapshot
    BY <1>0, <1>5 DEF RecordOutcome, Busy
  <2>2. \A k \in Jobs : k # j => rows'[k] = rows[k]
    <3>1. \/ Complete(j) \/ FailNotFound(j)
          \/ \E retryable \in BOOLEAN : Fail(j, retryable)
      <4>1. (worker[w].outcome = "retry") \in BOOLEAN
        OBVIOUS
      <4> QED
        BY <1>5, <4>1 DEF RecordOutcome
    <3> QED
      BY <1>0, <2>1, <3>1, OthersUntouched
  <2>3. worker' = [worker EXCEPT ![w] = IdleWorker]
    BY <1>5 DEF RecordOutcome
  <2>4. ASSUME NEW v \in Workers, Busy(v)' PROVE SameClaim(v) /\ v # w
    <3>1. v # w
      BY <2>3, <2>4 DEF TypeOK, Busy, IdleWorker
    <3> QED
      BY <2>3, <2>4, <3>1 DEF TypeOK, Busy
  <2>5. \A v \in Workers : v # w /\ Busy(v) => worker[v].job # j
    BY <2>1 DEF LeaseInv, Holds
  <2>6. \A p \in Procs : j \notin snapshot[p]
    BY <2>1 DEF LeaseInv
  <2>7. \A v \in Workers : Busy(v)' => SameClaim(v) /\ worker[v].job # j
    BY <2>4, <2>5
  <2>8. \A p \in Procs : snapshot'[p] \subseteq snapshot[p] \ {j}
    BY <2>1, <2>6
  <2> HIDE DEF j
  <2> QED
    BY <2>2, <2>7, <2>8, LeaseFrame
<1>6. ASSUME NEW w \in Workers,
             CheckShutdown(w) \/ ClaimNothing(w) \/ HandlerReturns(w) \/ OutcomeLost(w)
               \/ SendHeartbeat(w)
      PROVE  LeaseInv'
  <2>1. UNCHANGED <<rows, snapshot>>
    BY <1>6 DEF CheckShutdown, ClaimNothing, HandlerReturns, OutcomeLost, SendHeartbeat
  <2>2. \A v \in Workers : ~ClaimJob(v)
    BY <1>0, <2>1, ClaimCounts, "pending" # "running" DEF ClaimJob, Workers
  <2> QED
    BY <1>b, <2>1, <2>2
<1>7. ASSUME NEW p \in Procs, FindStale(p) PROVE LeaseInv'
  <2>1. /\ UNCHANGED <<rows, worker>>
        /\ snapshot' = [snapshot EXCEPT ![p] = StaleRunning(Handles[p])]
    BY <1>7 DEF FindStale
  <2>2. ASSUME NEW j \in StaleRunning(Handles[p])
        PROVE  /\ rows[j].status = "running"
               /\ JobType[j] \in Handles[p]
               /\ \A w \in Workers : Busy(w) => worker[w].job # j
    <3>1. rows[j].beat > Threshold /\ rows[j].beat \in Int /\ Threshold \in Int
      BY <1>0, TimesAssumption DEF StaleRunning, StoreTypeOK, Row
    <3>2. \A w \in Workers : Busy(w) => worker[w].job # j
      BY <3>1 DEF LeaseInv
    <3> QED
      BY <3>2 DEF StaleRunning
  <2>3. ASSUME NEW q \in Procs, NEW j \in snapshot'[q]
        PROVE  \/ j \in snapshot[q]
               \/ q = p /\ j \in StaleRunning(Handles[p])
    BY <2>1, <2>3 DEF TypeOK
  <2> QED
    BY <2>1, <2>2, <2>3 DEF LeaseInv, Holds, Busy, Served
<1>8. ASSUME NEW p \in Procs, NEW j \in Jobs, ReapJob(p, j) PROVE LeaseInv'
  <2>1. /\ j \in snapshot[p] /\ UNCHANGED worker
        /\ snapshot' = [snapshot EXCEPT ![p] = @ \ {j}]
        /\ \A k \in Jobs : k # j => rows'[k] = rows[k]
    BY <1>0, <1>8, OthersUntouched DEF ReapJob
  <2>2. \A w \in Workers : Busy(w) => worker[w].job # j
    BY <2>1 DEF LeaseInv
  <2>3. \A q \in Procs : q # p => j \notin snapshot[q]
    BY <2>1 DEF LeaseInv, OneReaperPerType
  <2>4. \A q \in Procs : snapshot'[q] \subseteq snapshot[q] \ {j}
    BY <2>1, <2>3 DEF TypeOK
  <2> QED
    <3>1. \A w \in Workers : Busy(w)' => SameClaim(w) /\ worker[w].job # j
      BY <1>c, <2>1, <2>2
    <3> QED
      BY <2>1, <2>4, <3>1, LeaseFrame
<1>9. ASSUME NEW p \in Procs, NEW j \in Jobs, ReapError(p, j) PROVE LeaseInv'
  <2>1. /\ UNCHANGED <<rows, worker>>
        /\ \A q \in Procs : snapshot'[q] \subseteq snapshot[q]
    BY <1>9 DEF ReapError, TypeOK
  <2>2. \A w \in Workers : Busy(w)' => SameClaim(w)
    BY <1>c, <2>1
  <2> QED
    BY <2>1, <2>2, LeaseKeep
<1>10. ASSUME NEW p \in Procs, ProcessStep(p) PROVE LeaseInv'
  <2>1. CASE Start(p)
    <3>1. UNCHANGED <<rows, snapshot>> /\ SetWorkers(p, "idle")
      BY <2>1 DEF Start
    <3>2. \A w \in Workers : Busy(w)' => SameClaim(w)
      BY <3>1, SetWorkersType DEF Busy
    <3> QED
      BY <3>1, <3>2, LeaseKeep
  <2>2. CASE Crash(p)
    <3>1. /\ UNCHANGED rows /\ SetWorkers(p, "exited")
          /\ \A q \in Procs : snapshot'[q] \subseteq snapshot[q]
      BY <2>2 DEF Crash, TypeOK
    <3>2. \A w \in Workers : Busy(w)' => SameClaim(w)
      BY <3>1, SetWorkersType DEF Busy
    <3> QED
      BY <3>1, <3>2, LeaseKeep
  <2>3. CASE BeginShutdown(p) \/ SignalReaper(p) \/ EndShutdown(p)
    BY <1>d, <2>3 DEF BeginShutdown, SignalReaper, EndShutdown
  <2> QED
    BY <1>10, <2>1, <2>2, <2>3 DEF ProcessStep
<1>11. ASSUME Tick PROVE LeaseInv'
  <2>1. /\ \A w \in Workers : Busy(w) => rows[worker[w].job].beat < Threshold
        /\ UNCHANGED <<worker, snapshot>>
        /\ \A j \in Jobs : rows'[j] = AgedRow(rows[j])
    BY <1>11 DEF Tick, PassTime, LeaseInv
  <2>2. ASSUME NEW j \in Jobs
        PROVE  /\ Facts(rows'[j]) = Facts(rows[j])
               /\ rows[j].beat < Threshold => rows'[j].beat =< Threshold
    <3>1. rows[j] \in Row
      BY <1>0 DEF StoreTypeOK
    <3>2. rows[j].beat < Threshold => AgedRow(rows[j]).beat =< Threshold
      BY <3>1, TimesAssumption DEF AgedRow, Row
    <3> QED
      BY <2>1, <3>1, <3>2, RowFacts
  <2> QED
    BY <1>0, <2>1, <2>2 DEF LeaseInv, Holds, Busy, Served, Facts
<1>12. ASSUME NEW j \in Jobs, HeartbeatLost(j) PROVE LeaseInv'
  BY <1>d, <1>12 DEF HeartbeatLost
<1>13. ASSUME UNCHANGED vars PROVE LeaseInv'
  BY <1>d, <1>13 DEF vars
<1> QED
  BY <1>1, <1>2, <1>3, <1>4, <1>5, <1>6, <1>7, <1>8, <1>9, <1>10, <1>11, <1>12, <1>13
  DEF Next, WorkerStep, ReaperStep

\* If live workers' heartbeats are timely and no job type is served by two
\* processes, no reaper ever takes a job from a worker that is executing it.
THEOREM LiveClaimsAreKept ==
    ASSUME Timely, OneReaperPerType
    PROVE  Spec => []LiveClaimKept
<1>1. Init => LeaseInv
  BY DEF Init, LeaseInv, Busy, IdleWorker
<1>2. TypeOK /\ LeaseInv /\ [Next]_vars => LeaseInv'
  BY LeaseStep
<1>3. LeaseInv => LiveClaimKept
  BY DEF LeaseInv, LiveClaimKept
<1> QED
  BY <1>1, <1>2, <1>3, TypeCorrect, PTL DEF Spec

\* Under the same assumptions no job is executed by two workers at once.
THEOREM NoConcurrentExecutions ==
    ASSUME Timely, OneReaperPerType
    PROVE  Spec => []NoConcurrentExecution
<1>1. LiveClaimKept => NoConcurrentExecution
  BY DEF LiveClaimKept, NoConcurrentExecution, Holds
<1> QED
  BY <1>1, LiveClaimsAreKept, PTL
-----------------------------------------------------------------------------
(* Without failures no running row is left without a worker                 *)

\* A process that is down, or has drained, has no worker that could be busy.
RunInv ==
    /\ RunningHasWorker
    /\ \A w \in Workers : proc[ProcOf[w]] \in {"stopping", "down"} => worker[w].pc = "exited"

\* A step is harmless if it makes no row running and takes no worker from a row
\* that is running afterwards.
LEMMA RunFrame ==
    ASSUME TypeOK, RunInv,
           \A j \in Jobs : rows'[j].status = "running" =>
                /\ rows[j].status = "running"
                /\ rows'[j].attempts = rows[j].attempts,
           \A w \in Workers : Busy(w) /\ rows'[worker[w].job].status = "running" =>
                /\ Busy(w)'
                /\ worker'[w].job = worker[w].job
                /\ worker'[w].attempt = worker[w].attempt
    PROVE  RunningHasWorker'
<1> SUFFICES ASSUME NEW j \in Jobs, rows'[j].status = "running"
             PROVE  \E w \in Workers : /\ Busy(w)'
                                       /\ worker'[w].job = j
                                       /\ worker'[w].attempt = rows'[j].attempts
  BY DEF RunningHasWorker
<1>1. PICK w \in Workers : Busy(w) /\ worker[w].job = j /\ worker[w].attempt = rows[j].attempts
  BY DEF RunInv, RunningHasWorker
<1> QED
  BY <1>1

\* A heartbeat and the clock change no status and no attempt count, a fail() only
\* takes a row out of execution.
LEMMA QuietRows ==
    ASSUME StoreTypeOK,
           \/ \E i \in Jobs : \/ Enqueue(i) \/ UpdateHeartbeat(i) \/ FailNotFound(i)
                              \/ Complete(i)
                              \/ \E retryable \in BOOLEAN : Fail(i, retryable)
           \/ PassTime
           \/ UNCHANGED rows
    PROVE  \A j \in Jobs : rows'[j].status = "running" =>
                /\ rows[j].status = "running"
                /\ rows'[j].attempts = rows[j].attempts
<1> USE DEF StoreTypeOK
<1>1. ASSUME NEW i \in Jobs, Enqueue(i)
      PROVE  \A j \in Jobs : rows'[j].status = "running" => rows'[j] = rows[j]
  BY <1>1 DEF Enqueue, InsertedRow, AbsentRow
<1>2. ASSUME NEW i \in Jobs, Complete(i)
      PROVE  \A j \in Jobs : rows'[j].status = "running" => rows'[j] = rows[j]
  BY <1>2, RowFacts DEF Complete, Facts
<1>3. ASSUME NEW i \in Jobs, NEW retryable \in BOOLEAN, Fail(i, retryable)
      PROVE  \A j \in Jobs : rows'[j].status = "running" => rows'[j] = rows[j]
  <2>1. CASE Requeues(i, retryable)
    <3>1. PICK d \in Backoff(rows[i].attempts) : rows' = [rows EXCEPT ![i] = RequeuedRow(rows[i], d)]
      BY <1>3, <2>1 DEF Fail
    <3>2. RequeuedRow(rows[i], d).status = "pending"
      BY <1>3 DEF RequeuedRow, Row
    <3> QED
      BY <3>1, <3>2
  <2>2. CASE ~Requeues(i, retryable)
    BY <1>3, <2>2, RowFacts DEF Fail, Facts
  <2> QED
    BY <2>1, <2>2
<1>4. ASSUME NEW i \in Jobs, UpdateHeartbeat(i)
      PROVE  \A j \in Jobs : rows'[j].status = rows[j].status /\ rows'[j].attempts = rows[j].attempts
  <2>1. /\ rows[i] \in Row
        /\ rows' = [rows EXCEPT ![i] = BeatenRow(rows[i])]
    BY <1>4 DEF UpdateHeartbeat
  <2>2. BeatenRow(rows[i]).status = rows[i].status /\ BeatenRow(rows[i]).attempts = rows[i].attempts
    BY <2>1 DEF BeatenRow, Row
  <2> QED
    BY <2>1, <2>2
<1>5. ASSUME PassTime
      PROVE  \A j \in Jobs : rows'[j].status = rows[j].status /\ rows'[j].attempts = rows[j].attempts
  BY <1>5, RowFacts DEF PassTime, Facts
<1> QED
  BY <1>1, <1>2, <1>3, <1>4, <1>5 DEF FailNotFound

\* After the statement that ends a claim the row is not running.
LEMMA EndsExecution ==
    ASSUME StoreTypeOK, NEW i \in Jobs,
           \/ Complete(i) \/ FailNotFound(i) \/ \E retryable \in BOOLEAN : Fail(i, retryable)
    PROVE  rows'[i].status # "running"
<1> USE DEF StoreTypeOK
<1>1. CASE Complete(i)
  BY <1>1, RowFacts DEF Complete, Facts
<1>2. CASE FailNotFound(i)
  BY <1>2 DEF FailNotFound
<1>3. ASSUME NEW retryable \in BOOLEAN, Fail(i, retryable) PROVE rows'[i].status # "running"
  <2>1. CASE Requeues(i, retryable)
    <3>1. PICK d \in Backoff(rows[i].attempts) : rows' = [rows EXCEPT ![i] = RequeuedRow(rows[i], d)]
      BY <1>3, <2>1 DEF Fail
    <3>2. RequeuedRow(rows[i], d).status = "pending"
      BY <1>3 DEF RequeuedRow, Row
    <3> QED
      BY <3>1, <3>2
  <2>2. CASE ~Requeues(i, retryable)
    BY <1>3, <2>2, RowFacts DEF Fail, Facts
  <2> QED
    BY <2>1, <2>2
<1> QED
  BY <1>1, <1>2, <1>3

\* RunInv is inductive when nothing fails: a worker lets go of a row only with the
\* statement that ends the row's execution, and leaves its loop only in between.
LEMMA RunStep ==
    ASSUME ~Crashes, ~StoreErrors, TypeOK, RunInv, [Next]_vars
    PROVE  RunInv'
<1> USE DEF TypeOK
<1>0. StoreTypeOK /\ worker \in [Workers -> WorkerState] /\ ProcOf \in [Workers -> Procs]
  BY ProcessesAssumption DEF Workers
<1> DEFINE Same(w) == worker'[w].job = worker[w].job /\ worker'[w].attempt = worker[w].attempt
           Exited(w) == proc'[ProcOf[w]] \in {"stopping", "down"} => worker'[w].pc = "exited"
<1>1. ASSUME UNCHANGED <<proc, worker>>,
             \A j \in Jobs : rows'[j].status = "running" =>
                /\ rows[j].status = "running"
                /\ rows'[j].attempts = rows[j].attempts
      PROVE  RunInv'
  BY <1>1, RunFrame DEF RunInv, Busy
<1>2. ASSUME NEW j \in Jobs, Submit(j) \/ HeartbeatArrives(j) \/ HeartbeatLost(j)
      PROVE  RunInv'
  BY <1>0, <1>1, <1>2, QuietRows DEF Submit, HeartbeatArrives, HeartbeatLost
<1>3. ASSUME NEW p \in Procs, ReaperStep(p) PROVE RunInv'
  <2>1. CASE FindStale(p)
    BY <2>1, <1>0, <1>1, QuietRows DEF FindStale
  <2>2. ASSUME NEW j \in Jobs, ReapJob(p, j) \/ ReapError(p, j) PROVE RunInv'
    BY <2>2, <1>0, <1>1, QuietRows DEF ReapJob, ReapError
  <2> QED
    BY <1>3, <2>1, <2>2 DEF ReaperStep
<1>4. ASSUME Tick \/ UNCHANGED vars PROVE RunInv'
  BY <1>4, <1>0, <1>1, QuietRows DEF Tick, vars
<1>5. ASSUME NEW w \in Workers, WorkerStep(w) PROVE RunInv'
  <2>1. CASE CheckShutdown(w)
    <3>1. \A v \in Workers : v # w => worker'[v] = worker[v]
      BY <1>0, <2>1 DEF CheckShutdown, Move
    <3>2. ~Busy(w) /\ UNCHANGED <<rows, proc>>
      BY <2>1 DEF CheckShutdown, Busy
    <3>3. Exited(w)
      BY <1>0, <2>1 DEF CheckShutdown, Move, WorkerState
    <3>4. RunningHasWorker'
      BY <1>0, <3>1, <3>2, RunFrame, QuietRows DEF Busy
    <3> QED
      BY <3>1, <3>2, <3>3, <3>4 DEF RunInv
  <2>2. CASE ClaimNothing(w)
    <3>1. \A v \in Workers : v # w => worker'[v] = worker[v]
      BY <1>0, <2>2 DEF ClaimNothing, Move
    <3>2. ~Busy(w) /\ worker[w].pc # "exited" /\ UNCHANGED <<rows, proc>>
      BY <2>2 DEF ClaimNothing, Busy
    <3>3. RunningHasWorker'
      BY <1>0, <3>1, <3>2, RunFrame, QuietRows DEF Busy
    <3> QED
      BY <3>1, <3>2, <3>3 DEF RunInv
  <2>3. CASE ClaimJob(w)
    <3>1. PICK j \in Jobs : /\ Claim(w, Served(w), j)
                            /\ worker' = [worker EXCEPT ![w] = ClaimingWorker(j, rows[j].attempts + 1)]
      BY <2>3 DEF ClaimJob, ClaimingWorker
    <3>2. rows[j].attempts + 1 \in Nat
      BY <1>0 DEF StoreTypeOK, Row
    <3>3. /\ worker'[w].pc = "running" /\ worker'[w].job = j
          /\ worker'[w].attempt = rows[j].attempts + 1
          /\ \A v \in Workers : v # w => worker'[v] = worker[v]
      BY <1>0, <3>1, <3>2, ClaimingWorkerType
    <3>4. /\ rows'[j].attempts = rows[j].attempts + 1
          /\ \A k \in Jobs : k # j => rows'[k] = rows[k]
      BY <1>0, <3>1, ClaimCounts DEF Workers
    <3>5. ~Busy(w) /\ worker[w].pc # "exited" /\ UNCHANGED proc
      BY <2>3 DEF ClaimJob, Busy
    <3>6. RunningHasWorker'
      <4> SUFFICES ASSUME NEW k \in Jobs, rows'[k].status = "running"
                   PROVE  \E v \in Workers : /\ Busy(v)'
                                             /\ worker'[v].job = k
                                             /\ worker'[v].attempt = rows'[k].attempts
        BY DEF RunningHasWorker
      <4>1. CASE k = j
        BY <3>3, <3>4, <4>1 DEF Busy
      <4>2. CASE k # j
        BY <3>3, <3>4, <3>5, <4>2 DEF Busy, RunInv, RunningHasWorker
      <4> QED
        BY <4>1, <4>2
    <3> QED
      BY <3>3, <3>5, <3>6 DEF RunInv
  <2>4. CASE HandlerReturns(w)
    <3>1. /\ \A v \in Workers : v # w => worker'[v] = worker[v]
          /\ Busy(w)' /\ Same(w)
      <4>1. PICK outcome \in Outcomes :
              worker' = [worker EXCEPT ![w] = [worker[w] EXCEPT !.pc = "finishing", !.outcome = outcome]]
        BY <2>4 DEF HandlerReturns
      <4>2. [worker[w] EXCEPT !.pc = "finishing", !.outcome = outcome].pc = "finishing"
        BY <1>0 DEF WorkerState
      <4> QED
        BY <1>0, <2>4, <4>1, <4>2, HandlerType DEF Busy
    <3>2. worker[w].pc # "exited" /\ UNCHANGED <<rows, proc>>
      BY <2>4 DEF HandlerReturns
    <3>3. RunningHasWorker'
      BY <1>0, <3>1, <3>2, RunFrame, QuietRows DEF Busy
    <3> QED
      BY <3>1, <3>2, <3>3 DEF RunInv
  <2>5. CASE RecordOutcome(w)
    <3>1. worker[w].job \in Jobs /\ worker[w].pc # "exited" /\ UNCHANGED proc
      BY <2>5 DEF RecordOutcome, Busy
    <3>2. /\ \A v \in Workers : v # w => worker'[v] = worker[v]
      BY <1>0, <2>5 DEF RecordOutcome
    <3>3. \/ Complete(worker[w].job)
          \/ Fail(worker[w].job, worker[w].outcome = "retry")
          \/ FailNotFound(worker[w].job)
      BY <2>5 DEF RecordOutcome
    <3>4. \A j \in Jobs : rows'[j].status = "running" =>
                /\ rows[j].status = "running"
                /\ rows'[j].attempts = rows[j].attempts
      BY <1>0, <3>1, <3>3, QuietRows
    <3>5. rows'[worker[w].job].status # "running"
      BY <1>0, <3>1, <3>3, EndsExecution
    <3>6. RunningHasWorker'
      BY <3>2, <3>4, <3>5, RunFrame DEF Busy
    <3> QED
      BY <3>1, <3>2, <3>6 DEF RunInv
  <2>6. CASE SendHeartbeat(w)
    BY <2>6, <1>0, <1>1, QuietRows DEF SendHeartbeat
  <2> QED
    BY <1>5, <2>1, <2>2, <2>3, <2>4, <2>5, <2>6 DEF WorkerStep, ClaimReplyLost, OutcomeLost
<1>6. ASSUME NEW p \in Procs, ProcessStep(p) PROVE RunInv'
  <2>1. CASE Start(p)
    <3>1. \A v \in Workers : ProcOf[v] # p => worker'[v] = worker[v]
      BY <2>1 DEF Start, SetWorkers
    <3>2. \A v \in Workers : ProcOf[v] = p => ~Busy(v)
      BY <1>0, <2>1 DEF Start, RunInv, Busy
    <3>3. UNCHANGED rows /\ proc' = [proc EXCEPT ![p] = "up"]
      BY <2>1 DEF Start
    <3>4. RunningHasWorker'
      BY <1>0, <3>1, <3>2, <3>3, RunFrame, QuietRows DEF Busy
    <3> QED
      BY <1>0, <3>1, <3>3, <3>4 DEF RunInv
  <2>2. CASE BeginShutdown(p) \/ SignalReaper(p) \/ EndShutdown(p)
    <3>1. UNCHANGED <<rows, worker>>
      BY <2>2 DEF BeginShutdown, SignalReaper, EndShutdown
    <3>2. RunningHasWorker'
      BY <1>0, <3>1, RunFrame, QuietRows DEF Busy
    <3>3. ASSUME NEW w \in Workers PROVE Exited(w)
      BY <1>0, <2>2, <3>1 DEF BeginShutdown, SignalReaper, EndShutdown, WorkersOf, RunInv
    <3> QED
      BY <3>2, <3>3 DEF RunInv
  <2> QED
    BY <1>6, <2>1, <2>2 DEF ProcessStep, Crash
<1> QED
  BY <1>2, <1>3, <1>4, <1>5, <1>6 DEF Next

\* If no process crashes and no statement fails, every running row has a worker that
\* made its latest claim, however late heartbeats are and however often processes
\* are drained and started.
THEOREM RunningAlwaysHasWorker ==
    ASSUME ~Crashes, ~StoreErrors
    PROVE  Spec => []RunningHasWorker
<1>1. Init => RunInv
  BY DEF Init, StoreInit, AbsentRow, RunInv, RunningHasWorker, IdleWorker
<1>2. TypeOK /\ RunInv /\ [Next]_vars => RunInv'
  BY RunStep
<1>3. RunInv => RunningHasWorker
  BY DEF RunInv
<1> QED
  BY <1>1, <1>2, <1>3, TypeCorrect, PTL DEF Spec

-----------------------------------------------------------------------------
(* The resolver is one more client of the table *)

\* A step of a call is an insertion or leaves the table alone.
LEMMA CallSteps ==
    ASSUME NEW c \in Callers, TriggerStep(c)
    PROVE  [StoreNext]_rows
<1>1. CASE EnqueueAccount(c)
  BY <1>1 DEF EnqueueAccount, StoreNext
<1>2. CASE EnqueueFails(c)
  BY <1>2 DEF EnqueueFails, StoreNext
<1>3. CASE Trigger(c) \/ SkipAccount(c) \/ Answer(c)
  BY <1>3 DEF Trigger, SkipAccount, Answer
<1> QED
  BY <1>1, <1>2, <1>3 DEF TriggerStep

LEMMA TriggersTakeStoreSteps == [TriggerNext]_triggerVars => [StoreNext]_rows
<1> SUFFICES ASSUME [TriggerNext]_triggerVars PROVE [StoreNext]_rows
  OBVIOUS
<1>1. CASE \E c \in Callers : TriggerStep(c)
  BY <1>1, CallSteps
<1>2. CASE StoreNext /\ UNCHANGED call
  BY <1>2
<1>3. CASE UNCHANGED triggerVars
  BY <1>3 DEF triggerVars
<1> QED
  BY <1>1, <1>2, <1>3 DEF TriggerNext

\* Whoever triggers ingestion and however it fails, the table only ever sees its
\* own statements (resolvers/ingest.rs calls JobStore::enqueue and reads).
THEOREM TriggersUseStore == TriggerSpec => StoreSpec
<1>1. TriggerInit => StoreInit
  BY DEF TriggerInit
<1> QED
  BY <1>1, TriggersTakeStoreSteps, PTL DEF TriggerSpec, StoreSpec

\* So the table keeps its promises while ingestion is triggered: no two jobs in
\* flight for an account, first tries in order, and the life cycle of each job.
THEOREM TriggersInheritStore ==
    TriggerSpec => /\ []DedupUnique
                   /\ []FirstTriesInOrder
                   /\ ImplementsLifecycle
BY TriggersUseStore, DedupAlwaysUnique, FirstTriesAlwaysInOrder,
   StoreImplementsLifecycle, PTL

-----------------------------------------------------------------------------
(* A success covers the list *)

\* The accounts the loop has passed have a job that was not over when it began;
\* what was over then is over now.
Passed(x) ==
    /\ x.over \subseteq {j \in Jobs : rows[j].status \in Terminal}
    /\ x.phase \in {"enqueueing", "ok"} =>
          /\ Len(x.asked) \in Nat /\ DOMAIN x.asked = 1..Len(x.asked)
          /\ x.done \in 0..Len(x.asked)
          /\ x.phase = "ok" => x.done = Len(x.asked)
          /\ \A i \in 1..x.done : \E j \in Present \ x.over : DedupKey[j] = x.asked[i]

CoverInv ==
    /\ DOMAIN call = Callers
    /\ \A c \in Callers : DOMAIN call[c] = DOMAIN NoCall /\ Passed(call[c])

\* Rows stay, and what is over stays over.
LEMMA RowsStay ==
    ASSUME StoreTypeOK, [StoreNext]_rows, NEW j \in Jobs
    PROVE  /\ j \in Present => j \in Present'
           /\ rows[j].status \in Terminal => rows'[j].status \in Terminal
BY EveryRowSteps
DEF RowStep, Facts, Insertion, Claiming, Completion, Requeueing, GivingUp, Terminal, Present


\* A call that does not move keeps what it has covered, whatever the table does.
LEMMA RestingCall ==
    ASSUME StoreTypeOK, [StoreNext]_rows, NEW c \in Callers,
           Passed(call[c]), call'[c] = call[c]
    PROVE  Passed(call[c])'
<1>1. \A j \in call[c].over : j \in Jobs /\ rows'[j].status \in Terminal
  BY RowsStay DEF Passed
<1>2. \A j \in Jobs : j \in Present => j \in Present'
  BY RowsStay
<1>3. Present \subseteq Jobs
  BY DEF Present
<1>4. ASSUME NEW i, \E j \in Present \ call[c].over : DedupKey[j] = call[c].asked[i]
      PROVE  \E j \in Present' \ call[c].over : DedupKey[j] = call[c].asked[i]
  BY <1>2, <1>3, <1>4
<1> QED
  BY <1>1, <1>4 DEF Passed

\* Each step of a call keeps the invariant of that call.
LEMMA MovingCall ==
    ASSUME StoreTypeOK, CoverInv, [StoreNext]_rows, NEW c \in Callers, TriggerStep(c)
    PROVE  /\ DOMAIN call' = Callers
           /\ \A d \in Callers \ {c} : call'[d] = call[d]
           /\ DOMAIN call'[c] = DOMAIN NoCall
           /\ Passed(call[c])'
<1>1. DOMAIN call = Callers /\ DOMAIN call[c] = DOMAIN NoCall /\ Passed(call[c])
  BY DEF CoverInv
<1>2. DOMAIN NoCall = {"phase", "asked", "done", "ids", "over"}
  BY DEF NoCall
<1>a. \A j \in call[c].over : j \in Jobs /\ rows'[j].status \in Terminal
  BY <1>1, RowsStay DEF Passed
<1>b. ASSUME NEW i, \E j \in Present \ call[c].over : DedupKey[j] = call[c].asked[i]
      PROVE  \E j \in Present' \ call[c].over : DedupKey[j] = call[c].asked[i]
  BY <1>b, RowsStay DEF Present
<1>3. CASE Trigger(c)
  <2>1. PICK list \in Lists \cup {NoList} :
           call' = [call EXCEPT ![c] =
                     [NoCall EXCEPT !.phase = IF Refused(list) THEN "error" ELSE "enqueueing",
                                    !.asked = Resolve(list),
                                    !.over = {j \in Jobs : rows[j].status \in Terminal}]]
    BY <1>3 DEF Trigger
  <2>2. /\ call'[c].asked = Resolve(list)
        /\ call'[c].done = 0
        /\ call'[c].phase \in {"error", "enqueueing"}
        /\ call'[c].over = {j \in Jobs : rows[j].status \in Terminal}
        /\ DOMAIN call'[c] = DOMAIN NoCall
    BY <1>1, <2>1 DEF NoCall
  <2>3. Resolve(list) \in Seq({Resolve(list)[i] : i \in DOMAIN Resolve(list)})
    BY CallersAssumption DEF Resolve
  <2>4. DOMAIN Resolve(list) = 1..Len(Resolve(list)) /\ Len(Resolve(list)) \in Nat
    BY <2>3
  <2>5. rows' = rows
    BY <1>3 DEF Trigger
  <2> QED
    BY <1>1, <2>1, <2>2, <2>4, <2>5 DEF Passed
<1>4. ASSUME NEW a \in Keys, AtAccount(c, a), NEW t,
             call' = [call EXCEPT ![c] = t],
             /\ t.done = call[c].done + 1 /\ t.asked = call[c].asked
             /\ t.phase = call[c].phase /\ t.over = call[c].over
             /\ DOMAIN t = DOMAIN NoCall,
             \E j \in Present' \ call[c].over : DedupKey[j] = a
      PROVE  /\ DOMAIN call'[c] = DOMAIN NoCall
             /\ Passed(call[c])'
  <2>1. /\ call'[c].done = call[c].done + 1
        /\ call'[c].asked = call[c].asked
        /\ call'[c].phase = call[c].phase
        /\ call'[c].over = call[c].over
        /\ DOMAIN call'[c] = DOMAIN NoCall
    BY <1>1, <1>2, <1>4
  <2>2. /\ call[c].phase = "enqueueing"
        /\ call[c].done < Len(call[c].asked)
        /\ a = call[c].asked[call[c].done + 1]
    BY <1>4 DEF AtAccount
  <2>3. /\ call[c].done \in 0..Len(call[c].asked)
        /\ Len(call[c].asked) \in Nat
        /\ DOMAIN call[c].asked = 1..Len(call[c].asked)
    BY <1>1, <2>2 DEF Passed
  <2>4. ASSUME NEW i \in 1..(call[c].done + 1)
        PROVE  \E j \in Present' \ call[c].over : DedupKey[j] = call[c].asked[i]
    <3>1. CASE i = call[c].done + 1
      BY <1>4, <2>2, <3>1
    <3>2. CASE i \in 1..call[c].done
      BY <1>1, <1>b, <2>2, <3>2 DEF Passed
    <3> QED
      BY <2>3, <3>1, <3>2
  <2>5. call[c].done + 1 \in 0..Len(call[c].asked)
    BY <2>2, <2>3
  <2>6. call'[c].over \subseteq {j \in Jobs : rows'[j].status \in Terminal}
    BY <1>a, <2>1
  <2> QED
    BY <2>1, <2>2, <2>3, <2>4, <2>5, <2>6 DEF Passed
<1>5. CASE EnqueueAccount(c)
  <2>1. PICK j \in Jobs, a \in Keys :
           /\ AtAccount(c, a) /\ RowFor(j, a)
           /\ Enqueue(j)
           /\ call' = [call EXCEPT ![c] = [call[c] EXCEPT !.done = call[c].done + 1,
                                                          !.ids = call[c].ids \cup {j}]]
    BY <1>5 DEF EnqueueAccount
  <2>2. rows[j].status = "absent" /\ rows'[j].status = "pending"
    BY <2>1 DEF Enqueue, StoreTypeOK, InsertedRow, AbsentRow
  <2>3. j \in Present' \ call[c].over /\ DedupKey[j] = a
    BY <1>1, <2>1, <2>2 DEF Passed, Terminal, Present, RowFor
  <2> DEFINE t == [call[c] EXCEPT !.done = call[c].done + 1, !.ids = call[c].ids \cup {j}]
  <2>4. /\ call' = [call EXCEPT ![c] = t]
        /\ t.done = call[c].done + 1 /\ t.asked = call[c].asked
        /\ t.phase = call[c].phase /\ t.over = call[c].over
        /\ DOMAIN t = DOMAIN NoCall
    BY <1>1, <1>2, <2>1
  <2> HIDE DEF t
  <2>5. \A d \in Callers \ {c} : call'[d] = call[d]
    BY <1>1, <2>1
  <2>6. DOMAIN call' = Callers
    BY <1>1, <2>1
  <2> QED
    BY <1>4, <2>1, <2>3, <2>4, <2>5, <2>6
<1>6. CASE SkipAccount(c)
  <2>1. PICK j \in Jobs, a \in Keys :
           /\ AtAccount(c, a) /\ RowFor(j, a)
           /\ Conflicts(j)
           /\ call' = [call EXCEPT ![c].done = @ + 1]
           /\ UNCHANGED rows
    BY <1>6 DEF SkipAccount
  <2>2. PICK k \in Jobs : rows[k].status \in Active /\ DedupKey[k] = a
    BY <2>1 DEF Conflicts, RowFor
  <2>3. k \in Present' \ call[c].over
    BY <1>1, <2>1, <2>2 DEF Passed, Terminal, Active, Present
  <2> DEFINE t == [call[c] EXCEPT !.done = call[c].done + 1]
  <2>4. /\ call' = [call EXCEPT ![c] = t]
        /\ t.done = call[c].done + 1 /\ t.asked = call[c].asked
        /\ t.phase = call[c].phase /\ t.over = call[c].over
        /\ DOMAIN t = DOMAIN NoCall
    BY <1>1, <1>2, <2>1
  <2> HIDE DEF t
  <2>5. DOMAIN call' = Callers /\ \A d \in Callers \ {c} : call'[d] = call[d]
    BY <1>1, <2>1
  <2> QED
    BY <1>4, <2>1, <2>2, <2>3, <2>4, <2>5
<1>7. CASE EnqueueFails(c)
  <2>1. call' = [call EXCEPT ![c] = [call[c] EXCEPT !.phase = "error", !.ids = {}]]
    BY <1>7 DEF EnqueueFails
  <2>2. /\ call'[c].phase = "error"
        /\ call'[c].over = call[c].over
        /\ DOMAIN call'[c] = DOMAIN NoCall
    BY <1>1, <1>2, <2>1
  <2>3. DOMAIN call' = Callers /\ \A d \in Callers \ {c} : call'[d] = call[d]
    BY <1>1, <2>1
  <2> QED
    BY <1>a, <2>2, <2>3 DEF Passed
<1>8. CASE Answer(c)
  <2>1. /\ call[c].phase = "enqueueing"
        /\ call[c].done = Len(call[c].asked)
        /\ call' = [call EXCEPT ![c].phase = "ok"]
        /\ rows' = rows
    BY <1>8 DEF Answer
  <2>2. /\ call'[c].phase = "ok"
        /\ call'[c].asked = call[c].asked
        /\ call'[c].done = call[c].done
        /\ call'[c].over = call[c].over
        /\ DOMAIN call'[c] = DOMAIN NoCall
    BY <1>1, <1>2, <2>1
  <2>3. DOMAIN call' = Callers /\ \A d \in Callers \ {c} : call'[d] = call[d]
    BY <1>1, <2>1
  <2>4. Present' = Present
    BY <2>1 DEF Present
  <2> QED
    BY <1>1, <2>1, <2>2, <2>3, <2>4 DEF Passed
<1> QED
  BY <1>3, <1>5, <1>6, <1>7, <1>8 DEF TriggerStep

LEMMA CoverStep ==
    ASSUME StoreTypeOK, CoverInv, [TriggerNext]_triggerVars
    PROVE  CoverInv'
<1>1. [StoreNext]_rows
  BY TriggersTakeStoreSteps
<1>2. CASE \E c \in Callers : TriggerStep(c)
  <2>1. PICK c \in Callers : TriggerStep(c)
    BY <1>2
  <2>2. /\ DOMAIN call' = Callers
        /\ \A d \in Callers \ {c} : call'[d] = call[d]
        /\ DOMAIN call'[c] = DOMAIN NoCall
        /\ Passed(call[c])'
    BY <1>1, <2>1, MovingCall
  <2>3. ASSUME NEW d \in Callers \ {c}
        PROVE  DOMAIN call'[d] = DOMAIN NoCall /\ Passed(call[d])'
    BY <1>1, <2>2, RestingCall DEF CoverInv
  <2> QED
    BY <2>2, <2>3 DEF CoverInv
<1>3. CASE UNCHANGED call
  <2>1. ASSUME NEW d \in Callers
        PROVE  Passed(call[d])'
    BY <1>1, <1>3, RestingCall DEF CoverInv
  <2> QED
    BY <1>3, <2>1 DEF CoverInv
<1> QED
  BY <1>2, <1>3 DEF TriggerNext, triggerVars

\* For any table, any clients and any lists: trigger_ingest never reports success
\* for an account whose jobs had all ended before the call, because what is over
\* never comes back and the index only lets an account in flight block an insertion.
THEOREM AnswersCover == TriggerSpec => []CoveredByAnswer
<1>1. TriggerInit => CoverInv
  BY DEF TriggerInit, CoverInv, Passed, NoCall
<1>2. CoverInv => CoveredByAnswer
  BY DEF CoverInv, Passed, CoveredByAnswer
<1>3. TriggerSpec => []StoreTypeOK
  BY TriggersUseStore, StoreTypeCorrect, PTL
<1> QED
  BY <1>1, <1>2, <1>3, CoverStep, PTL DEF TriggerSpec

-----------------------------------------------------------------------------
(* The job in flight is listed first *)

\* No two rows are of one age, and a row in flight is the youngest of its type and key:
\* what conflicts with nothing in flight is younger than all, and nothing that is over
\* comes back.
AgesApart == \A j, k \in Present : j # k => rows[j].created # rows[k].created

ActiveIsNewest ==
    \A j, k \in Present :
        /\ rows[j].status \in Active
        /\ JobType[k] = JobType[j] /\ DedupKey[k] = DedupKey[j] /\ DedupKey[j] # NoKey
        => rows[k].created =< rows[j].created

NewestInv == CreatedInOrder /\ AgesApart /\ ActiveIsNewest

LEMMA NewestStep ==
    ASSUME StoreTypeOK, RowConsistent, NewestInv, [StoreNext]_rows
    PROVE  NewestInv'
<1> USE DEF NewestInv
<1>0. \A j \in Jobs : rows[j].created \in Nat
  BY DEF StoreTypeOK, Row
<1>1. CASE \E i \in Jobs : Enqueue(i)
  <2>1. PICK i \in Jobs : /\ rows[i].status = "absent" /\ ~Conflicts(i)
                          /\ rows' = [rows EXCEPT ![i] = InsertedRow]
    BY <1>1 DEF Enqueue
  <2>2. /\ rows'[i] = InsertedRow /\ \A j \in Jobs \ {i} : rows'[j] = rows[j]
        /\ InsertedRow.status = "pending" /\ InsertedRow.created = Cardinality(Present)
    BY <2>1 DEF StoreTypeOK, InsertedRow, AbsentRow
  <2>3. Present' = Present \cup {i} /\ i \notin Present /\ Present \subseteq Jobs
    BY <2>1, <2>2 DEF Present
  <2>4. Cardinality(Present') = Cardinality(Present) + 1
    BY <2>3, PresentFinite, FS_AddElement
  <2>5. \A j \in Present : rows'[j] = rows[j] /\ rows[j].created < Cardinality(Present)
    BY <2>2, <2>3 DEF CreatedInOrder
  <2>6. CreatedInOrder'
    BY <1>0, <2>2, <2>3, <2>4, <2>5, PresentFinite DEF CreatedInOrder
  <2>7. AgesApart'
    BY <1>0, <2>2, <2>3, <2>5, PresentFinite DEF AgesApart
  <2>8. ASSUME NEW j \in Present', NEW k \in Present', rows'[j].status \in Active,
               JobType[k] = JobType[j], DedupKey[k] = DedupKey[j], DedupKey[j] # NoKey
        PROVE  rows'[k].created =< rows'[j].created
    <3>1. CASE j = i
      BY <1>0, <2>2, <2>3, <2>5, <3>1, PresentFinite
    <3>2. CASE j # i /\ k = i
      BY <2>1, <2>3, <2>5, <2>8, <3>2 DEF Conflicts
    <3>3. CASE j # i /\ k # i
      BY <2>3, <2>5, <2>8, <3>3 DEF ActiveIsNewest
    <3> QED
      BY <3>1, <3>2, <3>3
  <2> QED
    BY <2>6, <2>7, <2>8 DEF ActiveIsNewest
<1>2. CASE ~ \E i \in Jobs : Enqueue(i)
  <2>1. \A j \in Jobs : /\ rows'[j].created = rows[j].created
                        /\ rows'[j].status = "absent" <=> rows[j].status = "absent"
    BY <1>2, EveryRowKept DEF Kept
  <2>2. Present' = Present /\ Present \subseteq Jobs
    BY <2>1 DEF Present
  <2>3. \A j \in Present : rows'[j].status \in Active => rows[j].status \in Active
    <3>1. \A j \in Jobs : rows[j].status \in Status
      BY DEF StoreTypeOK, Row
    <3> QED
      BY <2>2, <3>1, RowsStay DEF Present, Status, Active, Terminal
  <2> QED
    BY <2>1, <2>2, <2>3 DEF CreatedInOrder, AgesApart, ActiveIsNewest
<1> QED
  BY <1>1, <1>2

\* So nothing is listed before it.
LEMMA NewestIsFirst ==
    ASSUME StoreTypeOK, NewestInv
    PROVE  InFlightFirst
<1> SUFFICES ASSUME NEW a \in Keys, NEW j \in Matching(a, NoFilter), rows[j].status \in Active
             PROVE  IngestJobs(a, NoFilter)[1] \in IngestStatus(j)
  BY DEF InFlightFirst
<1> DEFINE found == Matching(a, NoFilter)
           Newer(i) == {k \in found : rows[k].created > rows[i].created}
<1>1. found \subseteq Present /\ found \subseteq Jobs
  BY DEF Matching, Present
<1>2. \A i \in found : rows[i].created \in Nat
  BY <1>1 DEF StoreTypeOK, Row
<1>3. IsFiniteSet(found) /\ Cardinality(found) \in Nat \ {0}
  BY <1>1, JobsAssumption, FS_Subset, FS_CardinalityType, FS_EmptySet
<1>4. \A i \in found : JobType[i] = JobType[j] /\ DedupKey[i] = a /\ a # NoKey
  BY CallersAssumption, JobsAssumption DEF Matching
<1>5. Newer(j) = {}
  BY <1>1, <1>2, <1>4 DEF NewestInv, ActiveIsNewest
<1>6. ASSUME NEW i \in found, Cardinality(Newer(i)) = 0 PROVE i = j
  <2>1. IsFiniteSet(Newer(i))
    BY <1>3, FS_Subset
  <2>2. Newer(i) = {}
    BY <1>6, <2>1, FS_EmptySet
  <2>3. ~ (rows[j].created > rows[i].created) /\ ~ (rows[i].created > rows[j].created)
    BY <1>5, <2>2
  <2> QED
    BY <1>1, <1>2, <2>3 DEF NewestInv, AgesApart
<1>7. Cardinality(Newer(j)) = 0
  BY <1>5, FS_EmptySet
<1>8. (CHOOSE i \in found : Cardinality(Newer(i)) = 0) = j
  BY <1>6, <1>7
<1>9. IngestJobs(a, NoFilter) =
          [n \in 1..(IF Cardinality(found) < ListLimit THEN Cardinality(found) ELSE ListLimit) |->
              IngestRunOf(CHOOSE i \in found : Cardinality(Newer(i)) = n - 1)]
  BY DEF IngestJobs, Page
<1>10. 1 \in 1..(IF Cardinality(found) < ListLimit THEN Cardinality(found) ELSE ListLimit)
  BY <1>3, CallersAssumption
<1>11. IngestJobs(a, NoFilter)[1] =
          IngestRunOf(CHOOSE i \in found : Cardinality(Newer(i)) = 1 - 1)
  <2> HIDE DEF found, Newer
  <2> QED
    BY <1>9, <1>10
<1>12. IngestJobs(a, NoFilter)[1] = IngestRunOf(j)
  <2>1. 1 - 1 = 0
    OBVIOUS
  <2> HIDE DEF found, Newer
  <2> QED
    BY <1>8, <1>11, <2>1
<1> QED
  BY <1>1, <1>12 DEF IngestStatus

\* Among finitely many rows of different ages, each number of younger ones below their count
\* belongs to one of them: otherwise they would not fit into the numbers that are left.
LEMMA EveryRankTaken ==
    ASSUME NEW S, IsFiniteSet(S), \A i \in S : rows[i].created \in Nat,
           \A i, k \in S : i # k => rows[i].created # rows[k].created,
           NEW m \in Nat, m < Cardinality(S)
    PROVE  \E i \in S : Cardinality({k \in S : rows[k].created > rows[i].created}) = m
<1> SUFFICES ASSUME \A i \in S : Cardinality({k \in S : rows[k].created > rows[i].created}) # m
             PROVE  FALSE
  OBVIOUS
<1> DEFINE Newer(i) == {k \in S : rows[k].created > rows[i].created}
           rank == [i \in S |-> Cardinality(Newer(i))]
           left == (0..(Cardinality(S) - 1)) \ {m}
<1>1. \A i \in S : /\ IsFiniteSet(Newer(i)) /\ Newer(i) \subseteq S \ {i}
                   /\ Cardinality(Newer(i)) \in 0..(Cardinality(S) - 1)
  <2>1. TAKE i \in S
  <2>2. Newer(i) \subseteq S \ {i}
    OBVIOUS
  <2>3. IsFiniteSet(S \ {i}) /\ Cardinality(S \ {i}) = Cardinality(S) - 1
    BY FS_RemoveElement
  <2>4. IsFiniteSet(Newer(i)) /\ Cardinality(Newer(i)) =< Cardinality(S \ {i})
    BY <2>2, <2>3, FS_Subset
  <2> QED
    BY <2>2, <2>3, <2>4, FS_CardinalityType
<1>2. IsFiniteSet(left) /\ Cardinality(left) = Cardinality(S) - 1
  <2> DEFINE n == Cardinality(S)
  <2>1. n \in Nat /\ m < n
    BY FS_CardinalityType
  <2> HIDE DEF n
  <2>2. IsFiniteSet(0..(n - 1)) /\ Cardinality(0..(n - 1)) = n /\ m \in 0..(n - 1)
    <3> DEFINE b == n - 1
    <3>1. b \in Int /\ ~(0 > b) /\ b - 0 + 1 = n
      BY <2>1
    <3> HIDE DEF b
    <3>2. IsFiniteSet(0..b) /\ Cardinality(0..b) = n
      BY <3>1, FS_Interval
    <3> QED
      BY <2>1, <3>2 DEF b
  <2>3. /\ IsFiniteSet((0..(n - 1)) \ {m})
        /\ Cardinality((0..(n - 1)) \ {m}) = Cardinality(0..(n - 1)) - 1
    BY <2>2, FS_RemoveElement
  <2> QED
    BY <2>2, <2>3 DEF n
<1>3. rank \in [S -> left]
  BY <1>1
<1>4. PICK i, k \in S : i # k /\ rank[i] = rank[k]
  <2>1. Cardinality(left) < Cardinality(S)
    BY <1>2, FS_CardinalityType
  <2> HIDE DEF rank, left
  <2> QED
    BY <1>2, <1>3, <2>1, FS_PigeonHole
<1>5. ASSUME NEW x \in S, NEW y \in S, rows[x].created < rows[y].created
      PROVE  Cardinality(Newer(x)) # Cardinality(Newer(y))
  <2>1. Newer(y) \subseteq Newer(x) /\ y \in Newer(x) /\ y \notin Newer(y)
    BY <1>5
  <2> QED
    BY <1>1, <2>1, FS_Subset
<1>6. Cardinality(Newer(i)) = Cardinality(Newer(k))
  BY <1>4
<1>7. rows[i].created < rows[k].created \/ rows[k].created < rows[i].created
  BY <1>4
<1> HIDE DEF Newer
<1> QED
  BY <1>5, <1>6, <1>7

\* What is shown of a row tells whether it is in flight and whether it succeeded.
LEMMA ShownTells ==
    ASSUME NEW s \in Status \ {"absent"}
    PROVE  /\ ShownStatus(s) = "RUNNING" <=> s \in Active
           /\ ShownStatus(s) = "RUNNING" <=> s \notin Terminal
           /\ ShownStatus(s) = "COMPLETED" <=> s = "completed"
BY DEF Status, Active, Terminal, ShownStatus

\* So each line is that of a row of the account, with as many before it as are younger.
LEMMA EachLineARow ==
    ASSUME StoreTypeOK, NewestInv, NEW a \in Keys, NEW n \in DOMAIN IngestJobs(a, NoFilter)
    PROVE  \E j \in Matching(a, NoFilter) :
              /\ IngestJobs(a, NoFilter)[n] = IngestRunOf(j)
              /\ n \in Nat
              /\ Cardinality({k \in Matching(a, NoFilter) : rows[k].created > rows[j].created}) = n - 1
<1> DEFINE found == Matching(a, NoFilter)
           Newer(i) == {k \in found : rows[k].created > rows[i].created}
           j == CHOOSE i \in found : Cardinality(Newer(i)) = n - 1
<1>1. found \subseteq Present /\ found \subseteq Jobs
  BY DEF Matching, Present
<1>2. IsFiniteSet(found) /\ Cardinality(found) \in Nat
  BY <1>1, JobsAssumption, FS_Subset, FS_CardinalityType
<1>3. /\ \A i \in found : rows[i].created \in Nat
      /\ \A i, k \in found : i # k => rows[i].created # rows[k].created
  BY <1>1 DEF StoreTypeOK, Row, NewestInv, AgesApart
<1>4. IngestJobs(a, NoFilter) =
          [q \in 1..(IF Cardinality(found) < ListLimit THEN Cardinality(found) ELSE ListLimit) |->
              IngestRunOf(CHOOSE i \in found : Cardinality(Newer(i)) = q - 1)]
  BY DEF IngestJobs, Page
<1> HIDE DEF found
<1>5. n \in 1..(IF Cardinality(found) < ListLimit THEN Cardinality(found) ELSE ListLimit)
  BY <1>4
<1>6. n - 1 \in Nat /\ n - 1 < Cardinality(found) /\ n \in Nat
  BY <1>2, <1>5, CallersAssumption
<1>7. \E i \in found : Cardinality(Newer(i)) = n - 1
  <2> DEFINE m == n - 1
  <2>1. m \in Nat /\ m < Cardinality(found)
    BY <1>6
  <2> HIDE DEF m
  <2>2. \E i \in found : Cardinality({k \in found : rows[k].created > rows[i].created}) = m
    BY <1>2, <1>3, <2>1, EveryRankTaken
  <2> QED
    BY <2>2 DEF m
<1>8. j \in found /\ Cardinality(Newer(j)) = n - 1
  BY <1>7
<1>9. IngestJobs(a, NoFilter)[n] = IngestRunOf(j)
  BY <1>4, <1>5
<1> QED
  <2> HIDE DEF j
  <2> QED
    BY <1>6, <1>8, <1>9 DEF found

\* And no line is in flight but the first, or denies its status.
LEMMA LinesTell ==
    ASSUME StoreTypeOK, RowConsistent, NewestInv,
           NEW a \in Keys, NEW n \in DOMAIN IngestJobs(a, NoFilter)
    PROVE  /\ IngestJobs(a, NoFilter)[n].status = "RUNNING" => n = 1
           /\ IngestJobs(a, NoFilter)[n].completed <=> IngestJobs(a, NoFilter)[n].status # "RUNNING"
           /\ IngestJobs(a, NoFilter)[n].stats <=> IngestJobs(a, NoFilter)[n].status = "COMPLETED"
<1> DEFINE found == Matching(a, NoFilter)
<1>1. PICK j \in found : /\ IngestJobs(a, NoFilter)[n] = IngestRunOf(j)
                         /\ n \in Nat
                         /\ Cardinality({k \in found : rows[k].created > rows[j].created}) = n - 1
  BY EachLineARow
<1>2. found \subseteq Jobs /\ found \subseteq Present
  BY DEF Matching, Present
<1>3. rows[j].status \in Status \ {"absent"}
  BY <1>2 DEF Present, StoreTypeOK, Row
<1>4. /\ IngestRunOf(j).status = ShownStatus(rows[j].status)
      /\ IngestRunOf(j).completed = rows[j].finished
      /\ IngestRunOf(j).stats = rows[j].result
  BY DEF IngestRunOf
<1>5. ASSUME rows[j].status \in Active PROVE n = 1
  <2>1. \A i \in found : JobType[i] = JobType[j] /\ DedupKey[i] = a /\ a # NoKey
    BY CallersAssumption, JobsAssumption DEF Matching
  <2>2. \A i \in found : rows[i].created \in Nat
    BY <1>2 DEF StoreTypeOK, Row
  <2>3. {k \in found : rows[k].created > rows[j].created} = {}
    BY <1>2, <1>5, <2>1, <2>2 DEF NewestInv, ActiveIsNewest
  <2>4. n - 1 = 0
    BY <1>1, <2>3, FS_EmptySet, Zenon
  <2> QED
    BY <1>1, <2>4
<1>6. /\ rows[j].finished <=> rows[j].status \in Terminal
      /\ rows[j].result <=> rows[j].status = "completed"
  BY <1>2 DEF RowConsistent
<1> HIDE DEF found
<1> QED
  BY <1>1, <1>3, <1>4, <1>5, <1>6, ShownTells, Zenon

\* For any clients, lists and failures: whoever asks for an account's runs sees the job
\* in flight, if there is one, on the first line.
THEOREM InFlightAlwaysFirst == TriggerSpec => []InFlightFirst
<1>1. StoreInit => NewestInv
  BY DEF StoreInit, NewestInv, CreatedInOrder, AgesApart, ActiveIsNewest, Present, AbsentRow
<1>2. StoreSpec => [](StoreTypeOK /\ NewestInv)
  BY <1>1, NewestStep, StoreTypeCorrect, RowsAlwaysConsistent, PTL DEF StoreSpec
<1> QED
  BY <1>2, NewestIsFirst, TriggersUseStore, PTL

\* For any clients, lists and failures: in a listing of an account the job in flight is the
\* first line, no other line is in flight, and each tells of its end and statistics what
\* its status says.
THEOREM ListingsAlwaysTell == TriggerSpec => []ListedFirst
<1>1. StoreInit => NewestInv
  BY DEF StoreInit, NewestInv, CreatedInOrder, AgesApart, ActiveIsNewest, Present, AbsentRow
<1>2. StoreSpec => [](StoreTypeOK /\ RowConsistent /\ NewestInv)
  BY <1>1, NewestStep, StoreTypeCorrect, RowsAlwaysConsistent, PTL DEF StoreSpec
<1>3. StoreTypeOK /\ RowConsistent /\ NewestInv => ListedFirst
  BY NewestIsFirst, LinesTell DEF ListedFirst
<1> QED
  BY <1>2, <1>3, TriggersUseStore, PTL

=============================================================================
