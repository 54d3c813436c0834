----------------------------- MODULE AuditTrail -----------------------------
(***************************************************************************)
(* CloudTrail analysis of activable-iam-engine (src/cloudtrail.rs).        *)
(* Batches are parsed, each record on its own, and appended to the log in  *)
(* the order of delivery, which need not be that of the events; after each *)
(* batch the log is searched for escalation attempts.  An attempt is shown *)
(* by the positions of its events.                                         *)
(***************************************************************************)
EXTENDS Integers, Sequences, FiniteSets

CONSTANTS
    Batches,        \* what CloudTrail may deliver
    WriteNames,     \* the event names of is_iam_write_action
    ModifyNames,    \* those of is_policy_modification
    Records,        \* the records of the batches
    MaxEvents,      \* bound on the log
    MaxQuarantined  \* bound on the unreadable records

ASSUME TrailAssumption ==
    /\ MaxEvents \in Nat /\ MaxQuarantined \in Nat
    /\ \A record \in Records : record.time \in Nat
    /\ \A batch \in Batches : batch.records \in Seq(Records)

VARIABLES
    log,            \* the events that were parsed
    pending,        \* the records of the batch that are still to be parsed
    quarantined     \* how many records or batches could not be read

trailVars == <<log, pending, quarantined>>

-----------------------------------------------------------------------------
(* Parsing *)

Required == {"eventID", "eventTime", "eventName", "eventSource", "userIdentity.arn"}

\* parse_cloudtrail_event: a resource without an ARN is passed over.  The time is in seconds, a
\* principal or resource is the account that its ARN names, "" for none.
ParseEvent(record) ==
    [time |-> record.time, name |-> record.name, source |-> record.source,
     principal |-> record.principal, account |-> record.account, error |-> record.error,
     resources |-> {r \in record.resources : r # "no ARN"}]

Readable(record) == Required \subseteq record.fields

-----------------------------------------------------------------------------
(* Time *)

\* The digits of a well-formed time, day and hh:mm:ss, read as one number.
Digits(time) ==
    (time \div 86400) * 1000000 + ((time \div 3600) % 24) * 10000
        + ((time \div 60) % 60) * 100 + (time % 60)

\* Mutant: an event that is older counts as near.
WithinAfter(a, b, window) == Digits(b) - Digits(a) <= window

\* is_within_time_window compares digits, not seconds.
Within(a, b, window) ==
    /\ Digits(b) - Digits(a) <= window
    /\ Digits(a) - Digits(b) <= window

-----------------------------------------------------------------------------
(* Escalation attempts *)

Denied(e) == e.error = "AccessDenied"

Succeeds(e) == e.error = "none"

Assumes(e) == e.source = "sts.amazonaws.com" /\ e.name = "AssumeRole"

IamEvent(e, names) == e.source = "iam.amazonaws.com" /\ e.name \in names

Positions == DOMAIN log

\* Event j does what was denied in event i.
Repeats(i, j) ==
    /\ i < j
    /\ log[i].principal = log[j].principal
    /\ Denied(log[i]) /\ Succeeds(log[j])
    /\ log[i].name = log[j].name
    /\ Within(log[i].time, log[j].time, 3600)

\* Mutant: the last repetition is taken.
LastRepetition ==
    {pair \in Positions \X Positions :
        /\ Repeats(pair[1], pair[2])
        /\ \A k \in Positions : Repeats(pair[1], k) => k <= pair[2]}

\* Pattern 1: the first success after a denial.
DeniedThenSuccess ==
    {pair \in Positions \X Positions :
        /\ Repeats(pair[1], pair[2])
        /\ \A k \in Positions : Repeats(pair[1], k) => pair[2] <= k}

Writes(principal) ==
    {i \in Positions : log[i].principal = principal /\ IamEvent(log[i], WriteNames)}

\* The writes from i on, up to the first that is too far from i.
WindowFrom(i) ==
    {j \in Writes(log[i].principal) :
        /\ i <= j
        /\ \A k \in Writes(log[i].principal) :
              i < k /\ k <= j => Within(log[i].time, log[k].time, 300)}

\* Pattern 2: more than three writes; one attempt per principal.
RapidIamChanges ==
    {log[i].principal : i \in {k \in Positions :
        k \in Writes(log[k].principal) /\ Cardinality(WindowFrom(k)) > 3}}

\* Pattern 3: a policy modification and an assumption, in either order, whatever became of the
\* modification.
PolicyModifyThenAssume ==
    {pair \in Positions \X Positions :
        /\ log[pair[1]].principal = log[pair[2]].principal
        /\ IamEvent(log[pair[1]], ModifyNames)
        /\ Assumes(log[pair[2]]) /\ Succeeds(log[pair[2]])
        /\ Within(log[pair[1]].time, log[pair[2]].time, 3600)}

\* Pattern 4: a role of another account.
CrossAccountAssumption ==
    {i \in Positions :
        /\ Assumes(log[i]) /\ Succeeds(log[i])
        /\ log[i].account # ""
        /\ \E r \in log[i].resources : r \notin {"", log[i].account}}

AtMost(bound, set) == IF Cardinality(set) < bound THEN Cardinality(set) ELSE bound

\* compute_escalation_score, in tenths.
Score ==
    LET sum == 3 * AtMost(2, DeniedThenSuccess) + 4 * AtMost(2, RapidIamChanges)
                 + 5 * AtMost(1, PolicyModifyThenAssume) + 2 * AtMost(2, CrossAccountAssumption)
    IN  IF sum < 10 THEN sum ELSE 10

-----------------------------------------------------------------------------

TrailInit == log = << >> /\ pending = << >> /\ quarantined = 0

\* parse_cloudtrail_batch: a batch that is no JSON, or neither an array nor an object with
\* Records, is quarantined as one.
Deliver(batch) ==
    /\ pending = << >>
    /\ Len(log) + Len(batch.records) <= MaxEvents
    /\ IF batch.form \in {"array", "Records"}
       THEN pending' = batch.records /\ UNCHANGED quarantined
       ELSE quarantined' = quarantined + 1 /\ UNCHANGED pending
    /\ UNCHANGED log

\* One turn of its loop: an unreadable record goes to quarantine, a readable one to the log.
ParseNext ==
    /\ pending # << >>
    /\ pending' = Tail(pending)
    /\ IF Readable(Head(pending))
       THEN log' = Append(log, ParseEvent(Head(pending))) /\ UNCHANGED quarantined
       ELSE quarantined' = quarantined + 1 /\ UNCHANGED log

TrailNext ==
    \/ quarantined < MaxQuarantined /\ \E batch \in Batches : Deliver(batch)
    \/ ParseNext

TrailSpec == TrailInit /\ [][TrailNext]_trailVars

-----------------------------------------------------------------------------
(* Properties *)

Apart(i, j) == IF log[i].time < log[j].time THEN log[j].time - log[i].time ELSE log[i].time - log[j].time

\* Although times are compared by their digits, no alarm is false: what is reported as within an
\* hour is within 3600 seconds, whatever the order of delivery, and every event of a window of
\* rapid changes is within 300 seconds of its first (is_within_time_window).
NoFalseAlarm ==
    /\ \A pair \in DeniedThenSuccess \cup PolicyModifyThenAssume : Apart(pair[1], pair[2]) <= 3600
    /\ \A i \in Positions : i \in Writes(log[i].principal) => \A j \in WindowFrom(i) : Apart(i, j) <= 300

\* Events that are delivered later, however late, take no evidence away: attempts stay, and the
\* score never falls (detect_escalation_attempts, compute_escalation_score).
EvidenceAccumulates ==
    [][/\ DeniedThenSuccess \subseteq DeniedThenSuccess'
       /\ RapidIamChanges \subseteq RapidIamChanges'
       /\ PolicyModifyThenAssume \subseteq PolicyModifyThenAssume'
       /\ CrossAccountAssumption \subseteq CrossAccountAssumption'
       /\ Score <= Score']_trailVars

\* What cloudtrail.rs:254 promises: more than three writes of a principal within five minutes are
\* reported when the log is in order of time.
FiveMinutesSeen ==
    (\A i, j \in Positions : i < j => log[i].time <= log[j].time) =>
        \A i \in Positions :
            Cardinality({j \in Writes(log[i].principal) : i <= j /\ Apart(i, j) <= 300}) > 3
                => log[i].principal \in RapidIamChanges
=============================================================================
