---------------------------- MODULE JobLifecycle ----------------------------
(***************************************************************************)
(* What the queue promises to the caller that enqueued a job, in terms of  *)
(* JobStatus (src/model.rs) and the attempt count alone: no workers, no    *)
(* clock, no heartbeats, no table.  The ingest API (ingest_status) shows   *)
(* nothing else of a job.                                                  *)
(***************************************************************************)
EXTENDS Integers

CONSTANTS Jobs, MaxAttempts

VARIABLES status, attempts

jobVars == <<status, attempts>>

\* However small max_attempts is, a job is tried once.
Limit(j) == IF MaxAttempts[j] > 1 THEN MaxAttempts[j] ELSE 1

Becomes(j, s) == status' = [status EXCEPT ![j] = s]

Accept(j) == status[j] = "absent" /\ Becomes(j, "pending") /\ UNCHANGED attempts

Begin(j) ==
    /\ status[j] = "pending"
    /\ attempts[j] < Limit(j)
    /\ Becomes(j, "running")
    /\ attempts' = [attempts EXCEPT ![j] = @ + 1]

Retry(j) ==
    /\ status[j] = "running"
    /\ attempts[j] < MaxAttempts[j]
    /\ Becomes(j, "pending")
    /\ UNCHANGED attempts

GiveUp(j) == status[j] = "running" /\ Becomes(j, "failed") /\ UNCHANGED attempts

\* The promise is weak: a completion counts whenever it arrives.
Finish(j) == status[j] # "absent" /\ Becomes(j, "completed") /\ UNCHANGED attempts

Init ==
    /\ status = [j \in Jobs |-> "absent"]
    /\ attempts = [j \in Jobs |-> 0]

Next == \E j \in Jobs : Accept(j) \/ Begin(j) \/ Retry(j) \/ GiveUp(j) \/ Finish(j)

Spec == Init /\ [][Next]_jobVars

=============================================================================
