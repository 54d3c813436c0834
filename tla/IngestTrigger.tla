---------------------------- MODULE IngestTrigger ----------------------------
(***************************************************************************)
(* The ingest resolvers of activable-graphql (src/resolvers/ingest.rs) on  *)
(* top of the jobs table.  trigger_ingest enqueues one job per account,    *)
(* statement by statement, while any other client uses the table;          *)
(* ingest_status and ingest_jobs read it.                                  *)
(***************************************************************************)
EXTENDS JobStore, Sequences

CONSTANTS
    Callers,        \* clients inside trigger_ingest
    Lists,          \* the account_ids a client may ask for
    NoList,         \* account_ids: null
    Defaults,       \* INGEST_ACCOUNT_IDS, parsed
    NoFilter,       \* a filter field that is null
    ListLimit       \* the LIMIT 100 of ingest_jobs

ASSUME CallersAssumption ==
    /\ NoList \notin Lists
    /\ \A list \in Lists \cup {Defaults} : list \in Seq({list[i] : i \in DOMAIN list})
    /\ NoFilter \notin Keys \cup Status
    /\ ListLimit \in Nat \ {0}

VARIABLE call       \* the current or latest call of each client

triggerVars == <<rows, call>>

-----------------------------------------------------------------------------
(* trigger_ingest *)

IngestType == "account_ingest"

\* Dedup keys of ingest jobs are account ids; any other string is malformed.
ValidAccount(a) == a \in Keys

\* over: the jobs that had ended when the call began (not in the code).
NoCall == [phase |-> "none", asked |-> <<>>, done |-> 0, ids |-> {}, over |-> {}]

Resolve(list) == IF list = NoList THEN Defaults ELSE list

\* An explicit empty list is served, empty defaults are an error.
Refused(list) == \/ list = NoList /\ Defaults = <<>>
                 \/ \E i \in DOMAIN Resolve(list) : ~ValidAccount(Resolve(list)[i])

Trigger(c) ==
    /\ call[c].phase # "enqueueing"
    /\ \E list \in Lists \cup {NoList} :
          call' = [call EXCEPT ![c] =
                     [NoCall EXCEPT !.phase = IF Refused(list) THEN "error" ELSE "enqueueing",
                                    !.asked = Resolve(list),
                                    !.over = {j \in Jobs : rows[j].status \in Terminal}]]
    /\ UNCHANGED rows

\* The account the loop of c has reached.
AtAccount(c, a) == /\ call[c].phase = "enqueueing"
                   /\ call[c].done < Len(call[c].asked)
                   /\ a = call[c].asked[call[c].done + 1]

\* The row of enqueue("account_ingest", payload, Some(a), 1, 3).
RowFor(j, a) == /\ JobType[j] = IngestType
                /\ DedupKey[j] = a
                /\ Priority[j] = 1
                /\ MaxAttempts[j] = 3

EnqueueAccount(c) ==
    \E j \in Jobs, a \in Keys :
        /\ AtAccount(c, a) /\ RowFor(j, a)
        /\ Enqueue(j)
        /\ call' = [call EXCEPT ![c] = [call[c] EXCEPT !.done = call[c].done + 1,
                                                    !.ids = call[c].ids \cup {j}]]

\* Ok(None): a job for the account waits or runs.
SkipAccount(c) ==
    \E j \in Jobs, a \in Keys :
        /\ AtAccount(c, a) /\ RowFor(j, a)
        /\ rows[j].status = "absent" /\ Conflicts(j)
        /\ call' = [call EXCEPT ![c].done = @ + 1]
        /\ UNCHANGED rows

\* Err(e): the statement was not executed, or its reply was lost.  The ids of
\* the jobs enqueued so far are not returned.
EnqueueFails(c) ==
    \E j \in Jobs, a \in Keys :
        /\ AtAccount(c, a) /\ RowFor(j, a)
        /\ Enqueue(j) \/ UNCHANGED rows
        /\ call' = [call EXCEPT ![c] = [@ EXCEPT !.phase = "error", !.ids = {}]]

Answer(c) ==
    /\ call[c].phase = "enqueueing"
    /\ call[c].done = Len(call[c].asked)
    /\ call' = [call EXCEPT ![c].phase = "ok"]
    /\ UNCHANGED rows

TriggerStep(c) == \/ Trigger(c)
                  \/ EnqueueAccount(c)
                  \/ SkipAccount(c)
                  \/ EnqueueFails(c)
                  \/ Answer(c)

-----------------------------------------------------------------------------
(* ingest_status and ingest_jobs *)

ShownStatus(s) == CASE s \in Active -> "RUNNING"
                    [] s = "completed" -> "COMPLETED"
                    [] s = "failed" -> "FAILED"

IngestRunOf(j) == [id        |-> j,
                   status    |-> ShownStatus(rows[j].status),
                   completed |-> rows[j].finished,
                   worker    |-> rows[j].claimed_by,
                   stats     |-> rows[j].result]

IngestStatus(j) == IF j \in Present THEN {IngestRunOf(j)} ELSE {}

\* The status of a filter is compared with the column, not with what is shown.
Matching(account, status) ==
    {j \in Present : /\ JobType[j] = IngestType
                     /\ account = NoFilter \/ DedupKey[j] = account
                     /\ status = NoFilter \/ rows[j].status = status}

Page(found, Behind(_)) ==
    [n \in 1..(IF Cardinality(found) < ListLimit THEN Cardinality(found) ELSE ListLimit) |->
        IngestRunOf(CHOOSE j \in found : Cardinality(Behind(j)) = n - 1)]

\* Mutant: ORDER BY created_at.
OldestFirst(account, status) ==
    LET found == Matching(account, status)
        Older(j) == {k \in found : rows[k].created < rows[j].created}
    IN  Page(found, Older)

\* ORDER BY created_at DESC LIMIT
IngestJobs(account, status) ==
    LET found == Matching(account, status)
        Newer(j) == {k \in found : rows[k].created > rows[j].created}
    IN  Page(found, Newer)

-----------------------------------------------------------------------------
(* Callers among any other clients of the table *)

TriggerInit == StoreInit /\ call = [c \in Callers |-> NoCall]

TriggerNext == \/ \E c \in Callers : TriggerStep(c)
               \/ StoreNext /\ UNCHANGED call

TriggerSpec == TriggerInit /\ [][TriggerNext]_triggerVars

-----------------------------------------------------------------------------
(* Properties *)

\* A success is no empty word: when trigger_ingest answers with ids, every account
\* of the list has a job that had not already ended when the call began, be it one
\* enqueued by the call or one it was skipped for, whatever other clients, workers
\* and reapers did between its statements (enqueue's None is taken for "in flight").
CoveredByAnswer ==
    \A c \in Callers : call[c].phase = "ok" =>
        \A i \in DOMAIN call[c].asked :
            \E j \in Present \ call[c].over : DedupKey[j] = call[c].asked[i]

\* A job that is in flight is the first line of its account.
InFlightFirst ==
    \A a \in Keys : \A j \in Matching(a, NoFilter) :
        rows[j].status \in Active => IngestJobs(a, NoFilter)[1] \in IngestStatus(j)

\* The first line ingest_jobs shows for an account is the one that matters: a job
\* that is in flight is never listed behind another one of the account, or cut off
\* by the limit, and no line shows an end or statistics the status denies (the
\* order by creation against retries, reaps and late completions of old rows).
ListedFirst ==
    /\ InFlightFirst
    /\ \A a \in Keys :
          LET page == IngestJobs(a, NoFilter)
          IN  \A n \in DOMAIN page :
                 /\ page[n].status = "RUNNING" => n = 1
                 /\ page[n].completed <=> page[n].status # "RUNNING"
                 /\ page[n].stats <=> page[n].status = "COMPLETED"

=============================================================================
