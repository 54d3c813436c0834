--------------------------- MODULE JobStoreProofs ---------------------------
(***************************************************************************)
(* What the jobs table guarantees for any number of rows, job types, keys  *)
(* and clients, any max_attempts, threshold and backoff.                   *)
(***************************************************************************)
EXTENDS JobStore, FiniteSetTheorems, TLAPS

-----------------------------------------------------------------------------
(* Type correctness *)

\* Every delay fail() may pick respects the cap.
LEMMA BackoffInRange ==
    ASSUME NEW n, NEW d \in Backoff(n)
    PROVE  d \in 0..BackoffCap
BY DEF Backoff

\* Each update of a row yields a row.
LEMMA RowUpdates ==
    ASSUME NEW r \in Row
    PROVE  /\ \A w \in WorkerIds : ClaimedRow(r, w) \in Row
           /\ CompletedRow(r) \in Row
           /\ \A d \in 0..BackoffCap : RequeuedRow(r, d) \in Row
           /\ GivenUpRow(r) \in Row
           /\ BeatenRow(r) \in Row
           /\ AgedRow(r) \in Row
<1> USE TimesAssumption DEF Row, Status
<1>1. ASSUME NEW w \in WorkerIds PROVE ClaimedRow(r, w) \in Row
  <2>1. r.attempts + 1 \in Nat /\ 0 \in 0..(Threshold + 1)
    OBVIOUS
  <2> QED
    BY <2>1 DEF ClaimedRow
<1>2. CompletedRow(r) \in Row
  BY DEF CompletedRow
<1>3. \A d \in 0..BackoffCap : RequeuedRow(r, d) \in Row
  BY DEF RequeuedRow
<1>4. GivenUpRow(r) \in Row
  BY DEF GivenUpRow
<1>5. BeatenRow(r) \in Row
  BY DEF BeatenRow
<1>6. AgedRow(r) \in Row
  <2> DEFINE beat == IF r.beat > Threshold THEN r.beat ELSE r.beat + 1
             delay == IF r.delay = 0 THEN 0 ELSE r.delay - 1
  <2>1. beat \in 0..(Threshold + 1) /\ delay \in 0..BackoffCap
    OBVIOUS
  <2>2. AgedRow(r) = IF r.status = "absent" THEN r
                     ELSE [r EXCEPT !.beat = beat, !.delay = delay]
    BY DEF AgedRow
  <2> HIDE DEF beat, delay
  <2> QED
    BY <2>1, <2>2
<1> QED
  BY <1>1, <1>2, <1>3, <1>4, <1>5, <1>6

\* What enqueue inserts is a row: the rank of created_at is a number because the
\* table is finite.
LEMMA InsertedRowType == InsertedRow \in Row
<1>1. IsFiniteSet(Present)
  BY JobsAssumption, FS_Subset DEF Present
<1>2. Cardinality(Present) \in Nat
  BY <1>1, FS_CardinalityType
<1> QED
  BY <1>2, TimesAssumption, 0 \in 0..(Threshold + 1), 0 \in 0..BackoffCap
  DEF InsertedRow, AbsentRow, Row, Status

\* Every statement keeps the shape of every row.
LEMMA StoreTypeStep == StoreTypeOK /\ [StoreNext]_rows => StoreTypeOK'
<1> SUFFICES ASSUME StoreTypeOK, [StoreNext]_rows PROVE StoreTypeOK'
  OBVIOUS
<1> USE DEF StoreTypeOK
<1>1. CASE \E j \in Jobs : Enqueue(j)
  BY <1>1, InsertedRowType DEF Enqueue
<1>2. CASE \E w \in WorkerIds, types \in SUBSET Types, j \in Jobs : Claim(w, types, j)
  <2> PICK w \in WorkerIds, j \in Jobs : rows' = [rows EXCEPT ![j] = ClaimedRow(@, w)]
    BY <1>2 DEF Claim
  <2> QED
    BY RowUpdates
<1>3. CASE \E j \in Jobs : Complete(j)
  BY <1>3, RowUpdates DEF Complete
<1>4. CASE \E j \in Jobs, retryable \in BOOLEAN : Fail(j, retryable)
  BY <1>4, RowUpdates, BackoffInRange DEF Fail
<1>5. CASE \E j \in Jobs : UpdateHeartbeat(j)
  BY <1>5, RowUpdates DEF UpdateHeartbeat
<1>6. CASE PassTime
  BY <1>6, RowUpdates DEF PassTime
<1>7. CASE UNCHANGED rows
  BY <1>7
<1> QED
  BY <1>1, <1>2, <1>3, <1>4, <1>5, <1>6, <1>7 DEF StoreNext

\* Every reachable table satisfies the column types and the CHECK constraint.
THEOREM StoreTypeCorrect == StoreSpec => []StoreTypeOK
<1>1. StoreInit => StoreTypeOK
  BY TimesAssumption DEF StoreInit, StoreTypeOK, AbsentRow, Row, Status
<1> QED
  BY <1>1, StoreTypeStep, PTL DEF StoreSpec
-----------------------------------------------------------------------------
(* What one statement may do to one row                                    *)

\* The columns that are not timestamps.
Facts(r) == <<r.status, r.attempts, r.claimed_by, r.finished, r.result>>

Insertion(r, s) == r.status = "absent" /\ Facts(s) = <<"pending", 0, NoWorker, FALSE, FALSE>>

Claiming(r, s) == /\ r.status = "pending"
                  /\ \E w \in WorkerIds :
                        Facts(s) = <<"running", r.attempts + 1, w, r.finished, r.result>>

Completion(r, s) == /\ r.status # "absent"
                    /\ Facts(s) = <<"completed", r.attempts, r.claimed_by, TRUE, TRUE>>

Requeueing(r, s, max) ==
    /\ r.status = "running"
    /\ r.attempts < max
    /\ Facts(s) = <<"pending", r.attempts, r.claimed_by, r.finished, r.result>>

GivingUp(r, s) == /\ r.status = "running"
                  /\ Facts(s) = <<"failed", r.attempts, r.claimed_by, TRUE, r.result>>

RowStep(j) ==
    \/ Facts(rows'[j]) = Facts(rows[j])
    \/ Insertion(rows[j], rows'[j])
    \/ Claiming(rows[j], rows'[j])
    \/ Completion(rows[j], rows'[j])
    \/ Requeueing(rows[j], rows'[j], MaxAttempts[j])
    \/ GivingUp(rows[j], rows'[j])

\* What each update of a row does to the columns the lemmas below speak of.
LEMMA RowFacts ==
    ASSUME NEW r \in Row
    PROVE  /\ \A w \in WorkerIds : Facts(ClaimedRow(r, w)) =
                <<"running", r.attempts + 1, w, r.finished, r.result>>
           /\ Facts(CompletedRow(r)) = <<"completed", r.attempts, r.claimed_by, TRUE, TRUE>>
           /\ \A d \in 0..BackoffCap : Facts(RequeuedRow(r, d)) =
                <<"pending", r.attempts, r.claimed_by, r.finished, r.result>>
           /\ Facts(GivenUpRow(r)) = <<"failed", r.attempts, r.claimed_by, TRUE, r.result>>
           /\ Facts(BeatenRow(r)) = Facts(r)
           /\ Facts(AgedRow(r)) = Facts(r)
<1> USE DEF Row, Facts
<1>1. ASSUME NEW w \in WorkerIds
      PROVE  Facts(ClaimedRow(r, w)) = <<"running", r.attempts + 1, w, r.finished, r.result>>
  BY DEF ClaimedRow
<1>2. Facts(CompletedRow(r)) = <<"completed", r.attempts, r.claimed_by, TRUE, TRUE>>
  BY DEF CompletedRow
<1>3. ASSUME NEW d \in 0..BackoffCap
      PROVE  Facts(RequeuedRow(r, d)) = <<"pending", r.attempts, r.claimed_by, r.finished, r.result>>
  BY DEF RequeuedRow
<1>4. Facts(GivenUpRow(r)) = <<"failed", r.attempts, r.claimed_by, TRUE, r.result>>
  BY DEF GivenUpRow
<1>5. Facts(BeatenRow(r)) = Facts(r)
  BY DEF BeatenRow
<1>6. Facts(AgedRow(r)) = Facts(r)
  BY DEF AgedRow
<1> QED
  BY <1>1, <1>2, <1>3, <1>4, <1>5, <1>6

\* Every statement does to every row one of the things RowStep lists.
LEMMA EveryRowSteps ==
    ASSUME StoreTypeOK, [StoreNext]_rows, NEW i \in Jobs
    PROVE  RowStep(i)
<1> USE DEF StoreTypeOK, RowStep
<1>1. CASE \E j \in Jobs : Enqueue(j)
  <2> PICK j \in Jobs : rows[j].status = "absent" /\ rows' = [rows EXCEPT ![j] = InsertedRow]
    BY <1>1 DEF Enqueue
  <2>1. Facts(InsertedRow) = <<"pending", 0, NoWorker, FALSE, FALSE>>
    BY DEF Facts, InsertedRow, AbsentRow
  <2> QED
    BY <2>1 DEF Insertion
<1>2. CASE \E w \in WorkerIds, types \in SUBSET Types, j \in Jobs : Claim(w, types, j)
  <2> PICK w \in WorkerIds, j \in Jobs :
        rows[j].status = "pending" /\ rows' = [rows EXCEPT ![j] = ClaimedRow(@, w)]
    BY <1>2 DEF Claim, Eligible
  <2> QED
    BY RowFacts DEF Claiming
<1>3. CASE \E j \in Jobs : Complete(j)
  BY <1>3, RowFacts DEF Complete, Completion
<1>4. CASE \E j \in Jobs, retryable \in BOOLEAN : Fail(j, retryable)
  <2>1. PICK j \in Jobs, retryable \in BOOLEAN : Fail(j, retryable)
    BY <1>4
  <2>2. CASE Requeues(j, retryable) /\ \E d \in Backoff(rows[j].attempts) :
                rows' = [rows EXCEPT ![j] = RequeuedRow(@, d)]
    <3>1. PICK d \in 0..BackoffCap : rows' = [rows EXCEPT ![j] = RequeuedRow(@, d)]
      BY <2>2, BackoffInRange
    <3>2. rows[j].status = "running" /\ rows[j].attempts < MaxAttempts[j]
      BY <2>1, <2>2 DEF Fail, Requeues
    <3> QED
      BY <3>1, <3>2, RowFacts DEF Requeueing
  <2>3. CASE rows' = [rows EXCEPT ![j] = GivenUpRow(@)]
    BY <2>1, <2>3, RowFacts DEF Fail, GivingUp
  <2> QED
    BY <2>1, <2>2, <2>3 DEF Fail
<1>5. CASE \E j \in Jobs : UpdateHeartbeat(j)
  BY <1>5, RowFacts DEF UpdateHeartbeat
<1>6. CASE PassTime
  BY <1>6, RowFacts DEF PassTime
<1>7. CASE UNCHANGED rows
  BY <1>7
<1> QED
  BY <1>1, <1>2, <1>3, <1>4, <1>5, <1>6, <1>7 DEF StoreNext
-----------------------------------------------------------------------------
(* Attempts, and the columns a caller reads                                *)

\* attempts and max_attempts can be compared.
LEMMA AttemptsType == ASSUME StoreTypeOK, NEW j \in Jobs
                      PROVE  rows[j].attempts \in Nat /\ MaxAttempts[j] \in Int
BY ArgumentsAssumption DEF StoreTypeOK, Row

\* AttemptsBounded is inductive: claim takes only rows that wait, and those have
\* an attempt left because fail re-queued them under that condition.
LEMMA AttemptsStep ==
    ASSUME StoreTypeOK, AttemptsBounded, [StoreNext]_rows
    PROVE  AttemptsBounded'
<1> SUFFICES ASSUME NEW j \in Jobs
             PROVE  /\ rows'[j].attempts =< (IF MaxAttempts[j] > 1 THEN MaxAttempts[j] ELSE 1)
                    /\ rows'[j].status = "pending" /\ rows'[j].attempts > 0
                          => rows'[j].attempts < MaxAttempts[j]
  BY DEF AttemptsBounded
<1>1. RowStep(j)
  BY EveryRowSteps
<1>2. rows[j].attempts \in Nat /\ MaxAttempts[j] \in Int
  BY AttemptsType
<1>3. /\ rows[j].attempts =< (IF MaxAttempts[j] > 1 THEN MaxAttempts[j] ELSE 1)
      /\ rows[j].status = "pending" /\ rows[j].attempts > 0 => rows[j].attempts < MaxAttempts[j]
  BY DEF AttemptsBounded
<1>4. CASE Facts(rows'[j]) = Facts(rows[j])
  BY <1>2, <1>3, <1>4 DEF Facts
<1>5. CASE Insertion(rows[j], rows'[j])
  BY <1>2, <1>3, <1>5 DEF Facts, Insertion
<1>6. CASE Claiming(rows[j], rows'[j])
  BY <1>2, <1>3, <1>6 DEF Facts, Claiming
<1>7. CASE Completion(rows[j], rows'[j])
  BY <1>2, <1>3, <1>7 DEF Facts, Completion
<1>8. CASE Requeueing(rows[j], rows'[j], MaxAttempts[j])
  BY <1>2, <1>3, <1>8 DEF Facts, Requeueing
<1>9. CASE GivingUp(rows[j], rows'[j])
  BY <1>2, <1>3, <1>9 DEF Facts, GivingUp
<1> QED
  BY <1>1, <1>4, <1>5, <1>6, <1>7, <1>8, <1>9 DEF RowStep

\* RowConsistent is inductive: a row becomes terminal only together with its
\* finished_at, and complete() sets the result wherever it strikes.
LEMMA ConsistentStep ==
    ASSUME StoreTypeOK, RowConsistent, [StoreNext]_rows
    PROVE  RowConsistent'
<1> SUFFICES ASSUME NEW j \in Jobs
             PROVE  /\ rows'[j].finished <=> rows'[j].status \in Terminal
                    /\ rows'[j].result <=> rows'[j].status = "completed"
                    /\ rows'[j].status = "running" =>
                          rows'[j].attempts > 0 /\ rows'[j].claimed_by # NoWorker
  BY DEF RowConsistent
<1>1. RowStep(j)
  BY EveryRowSteps
<1>2. rows[j].attempts \in Nat
  BY AttemptsType
<1>3. /\ rows[j].finished <=> rows[j].status \in Terminal
      /\ rows[j].result <=> rows[j].status = "completed"
      /\ rows[j].status = "running" => rows[j].attempts > 0 /\ rows[j].claimed_by # NoWorker
  BY DEF RowConsistent
<1>4. rows[j].finished \in BOOLEAN /\ rows[j].result \in BOOLEAN
  BY DEF StoreTypeOK, Row
<1>5. CASE Facts(rows'[j]) = Facts(rows[j])
  BY <1>2, <1>3, <1>4, <1>5, JobsAssumption DEF Facts, Terminal
<1>6. CASE Insertion(rows[j], rows'[j])
  BY <1>2, <1>3, <1>4, <1>6, JobsAssumption DEF Facts, Insertion, Terminal
<1>7. CASE Claiming(rows[j], rows'[j])
  BY <1>2, <1>3, <1>4, <1>7, JobsAssumption DEF Facts, Claiming, Terminal
<1>8. CASE Completion(rows[j], rows'[j])
  BY <1>2, <1>3, <1>4, <1>8, JobsAssumption DEF Facts, Completion, Terminal
<1>9. CASE Requeueing(rows[j], rows'[j], MaxAttempts[j])
  BY <1>2, <1>3, <1>4, <1>9, JobsAssumption DEF Facts, Requeueing, Terminal
<1>10. CASE GivingUp(rows[j], rows'[j])
  BY <1>2, <1>3, <1>4, <1>10, JobsAssumption DEF Facts, GivingUp, Terminal
<1> QED
  BY <1>1, <1>5, <1>6, <1>7, <1>8, <1>9, <1>10 DEF RowStep

\* No client can make the table try a job more often than max_attempts allows, or
\* leave an exhausted job in the queue.
THEOREM AttemptsAlwaysBounded == StoreSpec => []AttemptsBounded
<1>1. StoreInit => AttemptsBounded
  BY ArgumentsAssumption DEF StoreInit, AttemptsBounded, AbsentRow
<1>2. StoreTypeOK /\ AttemptsBounded /\ [StoreNext]_rows => AttemptsBounded'
  BY AttemptsStep
<1> QED
  BY <1>1, <1>2, StoreTypeCorrect, PTL DEF StoreSpec

\* A row's finished_at, result, claimed_by and attempts always agree with its status.
THEOREM RowsAlwaysConsistent == StoreSpec => []RowConsistent
<1>1. StoreInit => RowConsistent
  BY DEF StoreInit, RowConsistent, AbsentRow, Terminal
<1>2. StoreTypeOK /\ RowConsistent /\ [StoreNext]_rows => RowConsistent'
  BY ConsistentStep
<1> QED
  BY <1>1, <1>2, StoreTypeCorrect, PTL DEF StoreSpec

\* No statement brings a finished row back to the queue or to execution.
THEOREM NothingResurrected == StoreSpec => NoResurrection
<1>1. ASSUME StoreTypeOK, [StoreNext]_rows, NEW j \in Jobs
      PROVE  /\ rows[j].status = "completed" => rows'[j].status = "completed"
             /\ rows[j].status = "failed" => rows'[j].status \in Terminal
  BY <1>1, EveryRowSteps
  DEF RowStep, Facts, Insertion, Claiming, Completion, Requeueing, GivingUp, Terminal
<1>2. StoreTypeOK /\ [StoreNext]_rows =>
        [\A j \in Jobs : /\ rows[j].status = "completed" => rows'[j].status = "completed"
                         /\ rows[j].status = "failed" => rows'[j].status \in Terminal]_rows
  BY <1>1
<1> QED
  BY <1>2, StoreTypeCorrect, PTL DEF StoreSpec, NoResurrection
-----------------------------------------------------------------------------
(* Deduplication                                                           *)

\* Only an insertion makes an inactive row active, and it checks the index first.
LEMMA DedupStep ==
    ASSUME StoreTypeOK, DedupUnique, [StoreNext]_rows
    PROVE  DedupUnique'
<1> SUFFICES ASSUME NEW j \in Jobs, NEW k \in Jobs, j # k,
                    rows'[j].status \in Active, rows'[k].status \in Active,
                    DedupKey[j] # NoKey
             PROVE  <<JobType[j], DedupKey[j]>> # <<JobType[k], DedupKey[k]>>
  BY DEF DedupUnique
<1>1. CASE \E i \in Jobs : Enqueue(i)
  <2> PICK i \in Jobs : ~Conflicts(i) /\ rows' = [rows EXCEPT ![i] = InsertedRow]
    BY <1>1 DEF Enqueue
  <2>1. \A l \in Jobs \ {i} : rows'[l] = rows[l]
    BY DEF StoreTypeOK
  <2>2. CASE j = i
    BY <2>1, <2>2 DEF Conflicts
  <2>3. CASE k = i
    BY <2>1, <2>3 DEF Conflicts
  <2>4. CASE j # i /\ k # i
    BY <2>1, <2>4 DEF DedupUnique
  <2> QED
    BY <2>2, <2>3, <2>4
<1>2. CASE ~ \E i \in Jobs : Enqueue(i)
  <2>1. ASSUME NEW i \in Jobs, rows'[i].status \in Active
        PROVE  rows[i].status \in Active
    <3>1. CASE \E l \in Jobs : Complete(l)
      <4>1. PICK l \in Jobs : Complete(l)
        BY <3>1
      <4>2. rows' = [rows EXCEPT ![l] = CompletedRow(@)]
        BY <4>1 DEF Complete
      <4>3. CompletedRow(rows[l]).status = "completed"
        BY RowFacts DEF Facts, StoreTypeOK
      <4> QED BY <2>1, <4>2, <4>3 DEF StoreTypeOK, Active
    <3>2. ASSUME NEW w \in WorkerIds, NEW types \in SUBSET Types, NEW l \in Jobs,
                 Claim(w, types, l)
          PROVE  rows[i].status \in Active
      <4>1. rows[l].status = "pending" /\ rows' = [rows EXCEPT ![l] = ClaimedRow(@, w)]
        BY <3>2 DEF Claim, Eligible
      <4> QED
        BY <2>1, <4>1 DEF StoreTypeOK, Active
    <3>3. ASSUME NEW l \in Jobs, NEW retryable \in BOOLEAN, Fail(l, retryable)
          PROVE  rows[i].status \in Active
      <4>1. rows[l].status = "running" /\ (i # l => rows'[i] = rows[i])
        BY <3>3 DEF Fail, StoreTypeOK
      <4> QED
        BY <2>1, <4>1 DEF Active
    <3>4. CASE \E l \in Jobs : UpdateHeartbeat(l)
      <4> PICK l \in Jobs : rows' = [rows EXCEPT ![l] = BeatenRow(@)]
        BY <3>4 DEF UpdateHeartbeat
      <4>1. BeatenRow(rows[l]).status = rows[l].status
        BY RowFacts DEF Facts, StoreTypeOK
      <4> QED
        BY <2>1, <4>1 DEF StoreTypeOK
    <3>5. CASE PassTime
      BY <2>1, <3>5, RowFacts DEF PassTime, Facts, StoreTypeOK
    <3>6. CASE UNCHANGED rows
      BY <2>1, <3>6
    <3> QED
      BY <1>2, <3>1, <3>2, <3>3, <3>4, <3>5, <3>6 DEF StoreNext
  <2> QED
    BY <2>1 DEF DedupUnique
<1> QED
  BY <1>1, <1>2

\* Two rows with one type and one key are never both waiting or executing.
THEOREM DedupAlwaysUnique == StoreSpec => []DedupUnique
<1>1. StoreInit => DedupUnique
  BY DEF StoreInit, DedupUnique, AbsentRow, Active
<1>2. StoreTypeOK /\ DedupUnique /\ [StoreNext]_rows => DedupUnique'
  BY DedupStep
<1> QED
  BY <1>1, <1>2, StoreTypeCorrect, PTL DEF StoreSpec

-----------------------------------------------------------------------------
(* First executions come in queue order                                    *)

\* created_at grows with every insertion, and a row that was never claimed is
\* claimable at once: only fail() sets next_attempt_at, and it runs after a claim.
CreatedInOrder == \A j \in Present : rows[j].created < Cardinality(Present)

UntriedWaits ==
    \A j \in Present : rows[j].attempts = 0 /\ rows[j].status # "completed"
                          => rows[j].status = "pending" /\ rows[j].delay = 0

OrderInv == CreatedInOrder /\ UntriedWaits /\ FirstTriesInOrder

\* The rows in the table can be counted.
LEMMA PresentFinite == IsFiniteSet(Present) /\ Cardinality(Present) \in Nat
BY JobsAssumption, FS_Subset, FS_CardinalityType DEF Present

\* Every statement but the insertion keeps created_at and the set of rows.
Kept(j) == /\ rows'[j].created = rows[j].created
           /\ rows'[j].status = "absent" <=> rows[j].status = "absent"
           /\ rows'[j].attempts >= rows[j].attempts
           /\ rows[j].status = "completed" => rows'[j].status = "completed"
           /\ rows'[j].attempts = 0 /\ rows'[j].status \notin {"completed", "absent"} =>
                 /\ rows[j].status = rows'[j].status
                 /\ rows[j].delay = 0 => rows'[j].delay = 0

\* No update of a row touches created_at, and none but a retry sets a delay.
LEMMA RowKept ==
    ASSUME NEW r \in Row
    PROVE  /\ \A w \in WorkerIds : ClaimedRow(r, w).created = r.created
           /\ CompletedRow(r).created = r.created
           /\ \A d \in 0..BackoffCap : RequeuedRow(r, d).created = r.created
           /\ GivenUpRow(r).created = r.created
           /\ BeatenRow(r).created = r.created /\ BeatenRow(r).delay = r.delay
           /\ AgedRow(r).created = r.created /\ (r.delay = 0 => AgedRow(r).delay = 0)
<1> USE DEF Row
<1>1. \A w \in WorkerIds : ClaimedRow(r, w).created = r.created
  BY DEF ClaimedRow
<1>2. CompletedRow(r).created = r.created
  BY DEF CompletedRow
<1>3. \A d \in 0..BackoffCap : RequeuedRow(r, d).created = r.created
  BY DEF RequeuedRow
<1>4. GivenUpRow(r).created = r.created
  BY DEF GivenUpRow
<1>5. BeatenRow(r).created = r.created /\ BeatenRow(r).delay = r.delay
  BY DEF BeatenRow
<1>6. AgedRow(r).created = r.created /\ (r.delay = 0 => AgedRow(r).delay = 0)
  BY DEF AgedRow
<1> QED
  BY <1>1, <1>2, <1>3, <1>4, <1>5, <1>6

\* Every statement but the insertion keeps the facts the queue order rests on.
LEMMA EveryRowKept ==
    ASSUME StoreTypeOK, RowConsistent, [StoreNext]_rows,
           ~ \E i \in Jobs : Enqueue(i), NEW j \in Jobs
    PROVE  Kept(j)
<1> USE DEF StoreTypeOK, Kept
<1>a. rows[j] \in Row /\ rows[j].attempts \in Nat
  BY DEF Row
<1>1. ASSUME NEW w \in WorkerIds, NEW types \in SUBSET Types, NEW i \in Jobs, Claim(w, types, i)
      PROVE  Kept(j)
  <2>1. rows[i].status = "pending" /\ rows' = [rows EXCEPT ![i] = ClaimedRow(@, w)]
    BY <1>1 DEF Claim, Eligible
  <2>2. CASE i = j
    <3>1. Facts(ClaimedRow(rows[j], w)) = <<"running", rows[j].attempts + 1, w,
                                            rows[j].finished, rows[j].result>>
      BY RowFacts
    <3>2. ClaimedRow(rows[j], w).created = rows[j].created
      BY RowKept
    <3> QED
      BY <1>a, <2>1, <2>2, <3>1, <3>2 DEF Facts
  <2>3. CASE i # j
    BY <1>a, <2>1, <2>3
  <2> QED
    BY <2>2, <2>3
<1>2. ASSUME NEW i \in Jobs, Complete(i) PROVE Kept(j)
  <2>1. rows[i].status # "absent" /\ rows' = [rows EXCEPT ![i] = CompletedRow(@)]
    BY <1>2 DEF Complete
  <2>2. CASE i = j
    <3>1. Facts(CompletedRow(rows[j])) =
            <<"completed", rows[j].attempts, rows[j].claimed_by, TRUE, TRUE>>
      BY RowFacts
    <3>2. CompletedRow(rows[j]).created = rows[j].created
      BY RowKept
    <3> QED
      BY <1>a, <2>1, <2>2, <3>1, <3>2 DEF Facts
  <2>3. CASE i # j
    BY <1>a, <2>1, <2>3
  <2> QED
    BY <2>2, <2>3
<1>3. ASSUME NEW i \in Jobs, NEW retryable \in BOOLEAN, Fail(i, retryable) PROVE Kept(j)
  <2>1. rows[i].status = "running" /\ (i # j => rows'[j] = rows[j])
    BY <1>3 DEF Fail
  <2>2. CASE i # j
    BY <1>a, <2>1, <2>2
  <2>3. ASSUME i = j, NEW d \in 0..BackoffCap, rows' = [rows EXCEPT ![i] = RequeuedRow(@, d)]
        PROVE  Kept(j)
    <3>1. Facts(RequeuedRow(rows[j], d)) = <<"pending", rows[j].attempts,
              rows[j].claimed_by, rows[j].finished, rows[j].result>>
      BY RowFacts
    <3>2. RequeuedRow(rows[j], d).created = rows[j].created
      BY RowKept
    <3>3. rows[j].attempts > 0
      BY <2>1, <2>3 DEF RowConsistent
    <3> QED
      BY <1>a, <2>1, <2>3, <3>1, <3>2, <3>3 DEF Facts
  <2>4. ASSUME i = j, rows' = [rows EXCEPT ![i] = GivenUpRow(@)] PROVE Kept(j)
    <3>1. rows[j].attempts > 0
      BY <2>1, <2>4 DEF RowConsistent
    <3>2. Facts(GivenUpRow(rows[j])) =
            <<"failed", rows[j].attempts, rows[j].claimed_by, TRUE, rows[j].result>>
      BY RowFacts
    <3>3. GivenUpRow(rows[j]).created = rows[j].created
      BY RowKept
    <3> QED
      BY <1>a, <2>1, <2>4, <3>1, <3>2, <3>3 DEF Facts
  <2> QED
    BY <1>3, <2>2, <2>3, <2>4, BackoffInRange DEF Fail
<1>4. ASSUME NEW i \in Jobs, UpdateHeartbeat(i) PROVE Kept(j)
  <2>1. rows' = [rows EXCEPT ![i] = BeatenRow(@)]
    BY <1>4 DEF UpdateHeartbeat
  <2>2. CASE i = j
    <3>1. /\ Facts(BeatenRow(rows[j])) = Facts(rows[j])
          /\ BeatenRow(rows[j]).created = rows[j].created
          /\ BeatenRow(rows[j]).delay = rows[j].delay
      BY RowFacts, RowKept
    <3> QED
      BY <1>a, <2>1, <2>2, <3>1 DEF Facts
  <2>3. CASE i # j
    BY <1>a, <2>1, <2>3
  <2> QED
    BY <2>2, <2>3
<1>5. ASSUME PassTime PROVE Kept(j)
  <2>1. /\ Facts(AgedRow(rows[j])) = Facts(rows[j])
        /\ AgedRow(rows[j]).created = rows[j].created
        /\ rows[j].delay = 0 => AgedRow(rows[j]).delay = 0
    BY RowFacts, RowKept
  <2>2. rows'[j] = AgedRow(rows[j])
    BY <1>5 DEF PassTime
  <2> QED
    BY <1>a, <2>1, <2>2 DEF Facts
<1>6. ASSUME UNCHANGED rows PROVE Kept(j)
  BY <1>a, <1>6
<1> QED
  BY <1>1, <1>2, <1>3, <1>4, <1>5, <1>6 DEF StoreNext

\* attempts counts the claims of a row and nothing else.
LEMMA OnlyClaimsCount ==
    ASSUME StoreTypeOK, [StoreNext]_rows, ~ \E i \in Jobs : Enqueue(i),
           NEW k \in Jobs, rows'[k].attempts # rows[k].attempts
    PROVE  \E w \in WorkerIds, types \in SUBSET Types : Claim(w, types, k)
<1> USE DEF StoreTypeOK
<1>1. ASSUME NEW w \in WorkerIds, NEW types \in SUBSET Types, NEW i \in Jobs, Claim(w, types, i)
      PROVE  i = k
  BY <1>1 DEF Claim
<1>2. ASSUME NEW i \in Jobs, Complete(i) PROVE FALSE
  <2>1. CompletedRow(rows[i]).attempts = rows[i].attempts
    BY RowFacts DEF Facts
  <2> QED
    BY <1>2, <2>1 DEF Complete
<1>3. ASSUME NEW i \in Jobs, NEW retryable \in BOOLEAN, Fail(i, retryable) PROVE FALSE
  <2>1. PICK row \in {RequeuedRow(rows[i], d) : d \in 0..BackoffCap} \cup {GivenUpRow(rows[i])} :
          rows' = [rows EXCEPT ![i] = row]
    BY <1>3, BackoffInRange DEF Fail
  <2>2. ASSUME NEW d \in 0..BackoffCap PROVE RequeuedRow(rows[i], d).attempts = rows[i].attempts
    <3>1. Facts(RequeuedRow(rows[i], d)) = <<"pending", rows[i].attempts,
              rows[i].claimed_by, rows[i].finished, rows[i].result>>
      BY RowFacts
    <3> QED
      BY <3>1 DEF Facts
  <2>3. GivenUpRow(rows[i]).attempts = rows[i].attempts
    BY RowFacts DEF Facts
  <2> QED
    BY <2>1, <2>2, <2>3
<1>4. ASSUME NEW i \in Jobs, UpdateHeartbeat(i) PROVE FALSE
  <2>1. BeatenRow(rows[i]).attempts = rows[i].attempts
    BY RowFacts DEF Facts
  <2> QED
    BY <1>4, <2>1 DEF UpdateHeartbeat
<1>5. ASSUME PassTime PROVE FALSE
  BY <1>5, RowFacts DEF PassTime, Facts
<1> QED
  BY <1>1, <1>2, <1>3, <1>4, <1>5 DEF StoreNext

\* OrderInv is inductive: the row claimed is minimal among the eligible ones, and
\* a row never tried is eligible from its insertion on.
LEMMA OrderStep ==
    ASSUME StoreTypeOK, StoreTypeOK', RowConsistent, OrderInv, [StoreNext]_rows
    PROVE  OrderInv'
<1> USE DEF OrderInv
<1>0. \A j \in Jobs : rows[j].created \in Nat /\ rows[j].attempts \in Nat
                      /\ Priority[j] \in Int /\ rows'[j].attempts \in Nat
  BY ArgumentsAssumption DEF StoreTypeOK, Row
<1>1. CASE \E i \in Jobs : Enqueue(i)
  <2> PICK i \in Jobs : rows[i].status = "absent" /\ rows' = [rows EXCEPT ![i] = InsertedRow]
    BY <1>1 DEF Enqueue
  <2>1. /\ InsertedRow.status = "pending" /\ InsertedRow.attempts = 0
        /\ InsertedRow.delay = 0 /\ InsertedRow.created = Cardinality(Present)
    BY DEF InsertedRow, AbsentRow
  <2>2. /\ rows'[i] = InsertedRow
        /\ \A j \in Jobs \ {i} : rows'[j] = rows[j]
    BY DEF StoreTypeOK
  <2>3. Present' = Present \cup {i} /\ i \notin Present
    BY <2>1, <2>2 DEF Present
  <2>4. Cardinality(Present') = Cardinality(Present) + 1
    BY <2>3, PresentFinite, FS_AddElement
  <2>5. \A j \in Present : j \in Jobs \ {i}
    BY <2>3 DEF Present
  <2>6. CreatedInOrder'
    BY <1>0, <2>1, <2>2, <2>3, <2>4, <2>5, PresentFinite DEF CreatedInOrder
  <2>7. UntriedWaits'
    BY <2>1, <2>2, <2>3, <2>5 DEF UntriedWaits
  <2>8. FirstTriesInOrder'
    <3> SUFFICES ASSUME NEW j \in Present', NEW k \in Present',
                        JobType[j] = JobType[k], Priority[j] =< Priority[k],
                        rows'[j].created < rows'[k].created, rows'[k].attempts > 0
                 PROVE  rows'[j].attempts > 0 \/ rows'[j].status = "completed"
      BY DEF FirstTriesInOrder
    <3>1. k # i
      BY <2>1, <2>2
    <3>2. j # i
      BY <1>0, <2>1, <2>2, <2>3, <2>5, <3>1, PresentFinite DEF CreatedInOrder
    <3> QED
      BY <2>2, <2>3, <2>5, <3>1, <3>2 DEF FirstTriesInOrder
  <2> QED
    BY <2>6, <2>7, <2>8
<1>2. CASE ~ \E i \in Jobs : Enqueue(i)
  <2>1. \A j \in Jobs : Kept(j)
    BY <1>2, EveryRowKept
  <2>2. Present' = Present /\ Present \subseteq Jobs
    BY <2>1 DEF Present, Kept
  <2>3. CreatedInOrder'
    BY <2>1, <2>2 DEF CreatedInOrder, Kept
  <2>4. UntriedWaits'
    <3> SUFFICES ASSUME NEW j \in Present, rows'[j].attempts = 0, rows'[j].status # "completed"
                 PROVE  rows'[j].status = "pending" /\ rows'[j].delay = 0
      BY <2>2 DEF UntriedWaits
    <3>1. Kept(j) /\ j \in Jobs /\ rows[j].status # "absent"
      BY <2>1, <2>2 DEF Present
    <3>2. rows'[j].status # "absent" /\ rows[j].attempts = 0 /\ rows[j].status # "completed"
      BY <1>0, <3>1 DEF Kept
    <3> QED
      BY <3>1, <3>2 DEF Kept, UntriedWaits
  <2>5. FirstTriesInOrder'
    <3> SUFFICES ASSUME NEW j \in Present, NEW k \in Present,
                        JobType[j] = JobType[k], Priority[j] =< Priority[k],
                        rows[j].created < rows[k].created, rows'[k].attempts > 0,
                        rows'[j].attempts = 0, rows'[j].status # "completed"
                 PROVE  FALSE
      BY <1>0, <2>1, <2>2 DEF FirstTriesInOrder, Kept
    <3>1. j \in Jobs /\ k \in Jobs /\ j # k
      BY <1>0, <2>2
    <3>2. Kept(j) /\ Kept(k) /\ rows[j].status # "absent"
      BY <2>1, <3>1 DEF Present
    <3>3. rows[j].attempts = 0 /\ rows[j].status # "completed"
      BY <1>0, <3>1, <3>2 DEF Kept
    <3>4. rows[j].status = "pending" /\ rows[j].delay = 0
      BY <3>3 DEF UntriedWaits
    <3>5. rows[k].attempts = 0
      BY <1>0, <3>1, <3>3 DEF FirstTriesInOrder
    <3>6. PICK w \in WorkerIds, types \in SUBSET Types : Claim(w, types, k)
      BY <1>0, <1>2, <3>1, <3>5, OnlyClaimsCount
    <3>7. j \in Eligible(types) /\ k \in Eligible(types) /\ Before(j, k)
      BY <1>0, <3>1, <3>4, <3>6 DEF Claim, Eligible, Before
    <3> QED
      BY <3>6, <3>7 DEF Claim
  <2> QED
    BY <2>3, <2>4, <2>5
<1> QED
  BY <1>1, <1>2

\* A job is never tried before an older one of its type and of no worse priority.
THEOREM FirstTriesAlwaysInOrder == StoreSpec => []FirstTriesInOrder
<1>1. StoreInit => OrderInv
  BY DEF StoreInit, OrderInv, CreatedInOrder, UntriedWaits, FirstTriesInOrder, Present, AbsentRow
<1>2. StoreTypeOK /\ StoreTypeOK' /\ RowConsistent /\ OrderInv /\ [StoreNext]_rows => OrderInv'
  BY OrderStep
<1>3. OrderInv => FirstTriesInOrder
  BY DEF OrderInv
<1> QED
  BY <1>1, <1>2, <1>3, StoreTypeCorrect, RowsAlwaysConsistent, PTL DEF StoreSpec

-----------------------------------------------------------------------------
(* The table implements the promised life cycle                            *)

\* An id that no row has yet has left no trace in the table.
AbsentBlank == \A j \in Jobs : rows[j].status = "absent" => rows[j].attempts = 0

\* Only an insertion touches an id without a row.
LEMMA AbsentBlankStep ==
    ASSUME StoreTypeOK, AbsentBlank, [StoreNext]_rows
    PROVE  AbsentBlank'
BY EveryRowSteps
DEF AbsentBlank, RowStep, Facts, Insertion, Claiming, Completion, Requeueing, GivingUp

\* An enqueue always starts from zero attempts: ids are not used again.
THEOREM AbsentAlwaysBlank == StoreSpec => []AbsentBlank
<1>1. StoreInit => AbsentBlank
  BY DEF StoreInit, AbsentBlank, AbsentRow
<1>2. StoreTypeOK /\ AbsentBlank /\ [StoreNext]_rows => AbsentBlank'
  BY AbsentBlankStep
<1> QED
  BY <1>1, <1>2, StoreTypeCorrect, PTL DEF StoreSpec

\* The empty table is the initial state of the life cycle.
LEMMA LifecycleInit == StoreInit => Lifecycle!Init
BY DEF StoreInit, Lifecycle!Init, AbsentRow

\* Changing one row changes the two abstract functions at one place.
LEMMA OneRow ==
    ASSUME StoreTypeOK, NEW j \in Jobs, NEW row, rows' = [rows EXCEPT ![j] = row]
    PROVE  /\ [i \in Jobs |-> rows'[i].status] =
                 [[i \in Jobs |-> rows[i].status] EXCEPT ![j] = row.status]
           /\ [i \in Jobs |-> rows'[i].attempts] =
                 [[i \in Jobs |-> rows[i].attempts] EXCEPT ![j] = row.attempts]
BY DEF StoreTypeOK

\* Every statement is, for the row it strikes, a step of the life cycle, and
\* leaves the others alone; heartbeats and time are stutters.
LEMMA LifecycleStep ==
    ASSUME StoreTypeOK, AttemptsBounded, AbsentBlank, [StoreNext]_rows
    PROVE  [Lifecycle!Next]_(Lifecycle!jobVars)
<1> USE DEF StoreTypeOK
<1> DEFINE St == [j \in Jobs |-> rows[j].status]
           At == [j \in Jobs |-> rows[j].attempts]
<1>a. ASSUME NEW j \in Jobs, NEW row, rows' = [rows EXCEPT ![j] = row]
      PROVE  St' = [St EXCEPT ![j] = row.status] /\ At' = [At EXCEPT ![j] = row.attempts]
  BY <1>a, OneRow
<1>b. ASSUME NEW j \in Jobs, NEW row, rows' = [rows EXCEPT ![j] = row],
             row.attempts = rows[j].attempts
      PROVE  At' = At
  BY <1>a, <1>b
<1>c. ASSUME \A j \in Jobs : Facts(rows'[j]) = Facts(rows[j])
      PROVE  St' = St /\ At' = At
  BY <1>c DEF Facts
<1> USE DEF Lifecycle!Next, Lifecycle!Becomes
<1>1. ASSUME NEW j \in Jobs, Enqueue(j) PROVE Lifecycle!Next
  <2>1. rows[j].status = "absent" /\ rows' = [rows EXCEPT ![j] = InsertedRow]
    BY <1>1 DEF Enqueue
  <2>2. InsertedRow.status = "pending" /\ InsertedRow.attempts = rows[j].attempts
    BY <2>1 DEF InsertedRow, AbsentRow, AbsentBlank
  <2>3. St' = [St EXCEPT ![j] = "pending"] /\ At' = At
    BY <2>1, <2>2, <1>a, <1>b
  <2>4. Lifecycle!Accept(j)
    BY <2>1, <2>3 DEF Lifecycle!Accept
  <2> QED
    BY <2>4
<1>2. ASSUME NEW w \in WorkerIds, NEW types \in SUBSET Types, NEW j \in Jobs, Claim(w, types, j)
      PROVE  Lifecycle!Next
  <2>1. rows[j].status = "pending" /\ rows' = [rows EXCEPT ![j] = ClaimedRow(@, w)]
    BY <1>2 DEF Claim, Eligible
  <2>2. ClaimedRow(rows[j], w).status = "running"
        /\ ClaimedRow(rows[j], w).attempts = rows[j].attempts + 1
    <3>1. Facts(ClaimedRow(rows[j], w)) = <<"running", rows[j].attempts + 1, w,
                                            rows[j].finished, rows[j].result>>
      BY RowFacts
    <3> QED
      BY <3>1 DEF Facts
  <2>3. St' = [St EXCEPT ![j] = "running"] /\ At' = [At EXCEPT ![j] = @ + 1]
    BY <2>1, <2>2, <1>a
  <2>4. At[j] < Lifecycle!Limit(j)
    BY <2>1, AttemptsType DEF AttemptsBounded, Lifecycle!Limit
  <2>5. Lifecycle!Begin(j)
    BY <2>1, <2>3, <2>4 DEF Lifecycle!Begin
  <2> QED
    BY <2>5
<1>3. ASSUME NEW j \in Jobs, Complete(j) PROVE Lifecycle!Next
  <2>1. rows[j].status # "absent" /\ rows' = [rows EXCEPT ![j] = CompletedRow(@)]
    BY <1>3 DEF Complete
  <2>2. CompletedRow(rows[j]).status = "completed"
        /\ CompletedRow(rows[j]).attempts = rows[j].attempts
    BY RowFacts DEF Facts
  <2>3. St' = [St EXCEPT ![j] = "completed"] /\ At' = At
    BY <2>1, <2>2, <1>a, <1>b
  <2>4. Lifecycle!Finish(j)
    BY <2>1, <2>3 DEF Lifecycle!Finish
  <2> QED
    BY <2>4
<1>4. ASSUME NEW j \in Jobs, NEW retryable \in BOOLEAN, Fail(j, retryable)
      PROVE  Lifecycle!Next
  <2>1. rows[j].status = "running"
    BY <1>4 DEF Fail
  <2>2. ASSUME Requeues(j, retryable), NEW d \in 0..BackoffCap,
               rows' = [rows EXCEPT ![j] = RequeuedRow(@, d)]
        PROVE  Lifecycle!Next
    <3>1. RequeuedRow(rows[j], d).status = "pending"
          /\ RequeuedRow(rows[j], d).attempts = rows[j].attempts
      <4>1. Facts(RequeuedRow(rows[j], d)) = <<"pending", rows[j].attempts,
              rows[j].claimed_by, rows[j].finished, rows[j].result>>
        BY <2>2, RowFacts
      <4> QED
        BY <4>1 DEF Facts
    <3>2. St' = [St EXCEPT ![j] = "pending"] /\ At' = At
      BY <2>2, <3>1, <1>a, <1>b
    <3>3. Lifecycle!Retry(j)
      BY <2>1, <2>2, <3>2 DEF Lifecycle!Retry, Requeues
    <3> QED
      BY <3>3
  <2>3. ASSUME rows' = [rows EXCEPT ![j] = GivenUpRow(@)] PROVE Lifecycle!Next
    <3>1. GivenUpRow(rows[j]).status = "failed"
          /\ GivenUpRow(rows[j]).attempts = rows[j].attempts
      BY RowFacts DEF Facts
    <3>2. St' = [St EXCEPT ![j] = "failed"] /\ At' = At
      BY <2>3, <3>1, <1>a, <1>b
    <3>3. Lifecycle!GiveUp(j)
      BY <2>1, <3>2 DEF Lifecycle!GiveUp
    <3> QED
      BY <3>3
  <2> QED
    BY <1>4, <2>2, <2>3, BackoffInRange DEF Fail
<1>5. ASSUME NEW j \in Jobs, UpdateHeartbeat(j) PROVE St' = St /\ At' = At
  <2>1. rows' = [rows EXCEPT ![j] = BeatenRow(@)]
    BY <1>5 DEF UpdateHeartbeat
  <2>2. Facts(BeatenRow(rows[j])) = Facts(rows[j])
    BY RowFacts
  <2> QED
    BY <1>c, <2>1, <2>2
<1>6. ASSUME PassTime PROVE St' = St /\ At' = At
  BY <1>c, <1>6, RowFacts DEF PassTime
<1>7. ASSUME UNCHANGED rows PROVE St' = St /\ At' = At
  BY <1>7
<1> QED
  BY <1>1, <1>2, <1>3, <1>4, <1>5, <1>6, <1>7 DEF StoreNext, Lifecycle!jobVars

\* The jobs table, used by any clients in any way, implements JobLifecycle.
THEOREM StoreImplementsLifecycle == StoreSpec => ImplementsLifecycle
<1>1. StoreTypeOK /\ AttemptsBounded /\ AbsentBlank /\ [StoreNext]_rows
        => [Lifecycle!Next]_(Lifecycle!jobVars)
  BY LifecycleStep
<1> QED
  BY <1>1, LifecycleInit, StoreTypeCorrect, AttemptsAlwaysBounded, AbsentAlwaysBlank, PTL
  DEF StoreSpec, ImplementsLifecycle, Lifecycle!Spec

=============================================================================
