----------------------------- MODULE MCJobQueue -----------------------------
(* Values for the constant functions of JobQueue.                           *)
EXTENDS JobQueue

CONSTANTS p1, p2, j1, j2

\* Jobs: one type and key, equal priority; the first may be tried twice.
MCJobType == [j \in Jobs |-> "ingest"]
MCDedupKey == [j \in Jobs |-> NoKey]
MCPriority == [j \in Jobs |-> 0]
MCMaxAttempts == [j \in Jobs |-> IF j = j1 THEN 2 ELSE 1]

\* Every process serves the one type.
MCHandles == [p \in Procs |-> {"ingest"}]

CONSTANTS w1, w2
\* One process, or one worker in each of two.
OneProcess == [w \in WorkerIds |-> p1]
TwoProcesses == [w \in WorkerIds |-> IF w = w1 THEN p1 ELSE p2]

=============================================================================
