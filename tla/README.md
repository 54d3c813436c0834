# Verification of activable.cloud

TLA+ modules, TLC model checking and TLAPS proofs about the Rust workspace under `src/crates/`.
The program reads AWS accounts into a graph and scores the principals it finds there:

    GraphQL (trigger_ingest) -> jobs table -> workers -> account_ingest run -> graph loaders -> Postgres + AGE
                                                         (fetches, enrichers, rules)                 |
                     GraphQL queries  <-  risk scoring  <-  IAM engine  <----------------------------+

Modelled are the write path (the request for an ingest, the job queue that runs it at least once, one attempt
of it, the enrichers that read policies, the loaders that all of them write through), the engine that evaluates
policies, the analysis of the audit trail, and the way back from the graph to the risks that a client is shown
(scores, account reports, access risks, graph queries). Section 4 lists what is proved for every value of the
constants, section 5 where code and documentation differ, section 6 what is left out.

## 1. Inventory

For every part: the state it keeps, its operations, what is hard about it, and what makes it correct.
`PROJECT.json` lists the same parts under `components` and the hazards at their lines under `hazards`.

| Part (crate) | State | Operations | Hard behaviour | Correct when |
|---|---|---|---|---|
| Jobs table (`activable-scheduler`: `store.rs`, `schema.rs`) | rows of `jobs`: status, attempts, claimer, heartbeat, backoff | `enqueue`, `claim`, `complete`, `fail`, `update_heartbeat`, `find_stale_running` | statements of several processes interleave; most update by id, without looking at the claimer | one active row per dedup key; attempts bounded; first tries in order; finished rows stay finished |
| Workers, reaper, scheduler (`worker.rs`, `reaper.rs`, `scheduler.rs`) | loop position of each worker, its claim, its heartbeat; the reaper's list; the process's life cycle | claim, execute, record, heartbeat, reap, start, drain | process crash, lost statement, lost reply, stalled heartbeat, two reapers | one worker per claim; a live claim is not reaped; every job ends; a drain ends and loses nothing |
| Handler registry (`registry.rs`) | map from job type to handler | `register`, `get` | a second registration replaces the first | one handler per type |
| Ingest resolvers (`activable-graphql`: `resolvers/ingest.rs`) | the loop over the accounts of a request | `trigger_ingest`, `ingest_status`, `ingest_jobs` | accounts are enqueued one by one while others use the table; 100 rows are listed | Ok means that every account has a job; what runs is listed first |
| Ingest run (`activable-ingest`: `handler.rs`, `executor.rs`, `cloud_control.rs`, `native_fallback.rs`) | fetch tasks, semaphore, collected errors | fetch each type (Cloud Control, then native SDK), enrich, relate | concurrent fetches, failure of either source after part of the pages, panic of a task | edges after nodes; whatever is lost is recorded; the run ends |
| Relationship rules (`relationship.rs`) | none | one join per rule of `relationships.yaml` | names are checked late, one rule at a time; a rule may fail | every pair that a rule joins has its edge, or an error names the rule |
| Permissions (`native_fallback.rs`, `native/permissions.rs`) | Principal and Permission nodes | fetch a principal's policies in several calls; compute its permissions and load their edges | policies change between calls; a call fails; jobs of several accounts share the graph | an edge is what some state of the policies grants within the boundary |
| Policy enrichers (`native/iam.rs`, `ec2.rs`, `s3.rs`, `kms.rs`, `secretsmanager.rs`, `lambda.rs`; `resource_policy.rs`, `access_edges.rs`, `sentinel.rs`) | none of their own | list AWS, read the policy of each item, load nodes and edges | swallowed list errors, loads that fail half-way, caps, sentinels | what an enricher that ended well has read is in the graph |
| Graph loaders (`activable-graph`: `loader.rs`) | a transaction on a pooled connection; the AGE graph | `load_nodes`, `load_edges`, `load_edges_with_props(_identifying)` | MERGE in concurrent transactions without a unique constraint; failure between BEGIN and COMMIT | one vertex per resource, one edge per key; all or nothing; honest counts |
| Graph client, query builder, pool (`client.rs`, `query_builder.rs`, `pool.rs`) | pooled connections | read-only Cypher | rows are paths, LIMIT cuts rows | an answer is the reachable part of the graph |
| IAM engine (`activable-iam-engine`: evaluation and parsers) | none (pure) | Deny, SCPs, boundary, session and resource policies; effective permissions | patterns compared with patterns; precedence of Deny | a permission is effective exactly when the policies mean it; guardrails only narrow |
| Derivations (`escalation_derivation.rs`, `dangerous_actions.rs`, `abac.rs`, `federation.rs`, `policy_drift.rs`) | none | escalation edges, tag risks, weak trusts, drift between versions | combinations; versions in any order; one malformed policy among many | monotone in permissions; nothing weak is left out; steps add up |
| CloudTrail analysis (`cloudtrail.rs`) | none; the caller's events | parse a batch, detect attempts, score | events out of order and in several batches; times as text | no false alarm; later events take no evidence away |
| Scoring (`activable-risk`: `scorer.rs`, `signals/`, `rule_engine.rs`, `batch_runner.rs`, `enumeration/`) | assessments written to the graph | score one principal, all, or all in rounds | queries fail; the graph grows meanwhile; cascades | every principal scored or accounted for; more power never scores less; rounds end |
| Rules, fuzzer, catalogue (`rule_loader.rs`, `fuzzing.rs`, `service_catalog.rs`) | snapshots of the catalogue | load rules, find combinations, compare snapshots | two snapshots of a moving catalogue | what the fuzzer finds is matched; no expansion of a wildcard slips by |
| Score resolvers (`resolvers/risk.rs`) | the assessment on a Principal node | `riskScore`, `refreshRiskScore` | kept scores against a growing graph; concurrent requests | a score rests on permissions that the principal has |
| Account report (`resolvers/account_risks.rs`) | none | `accountRisks` | errors of single principals are swallowed | the report shows the worst |
| Access risk resolvers (`resource_policy_risks.rs`, `key_management_risks.rs`, `federation_risks.rs`) | none | one query each | several vertices of one resource | public resources and weak providers are CRITICAL |
| Traversal (`resolvers/traversal.rs`, `subgraph.rs`) | none | `walkEdges`, `blastRadius` | bounds | as for the client |
| Schema (`activable-schema`) | none | labels, ARN parser, agtype decoding | boundary cases of parsing | parse and print agree |
| Server, findings, configuration, old runtime | read once at start | wiring, HTTP, rows passed on | - | - |
| `docs`, `ops`, `tests`, `scripts`, `config` | - | - | - | used here as claims about the code |

Interaction: `trigger_ingest` inserts one row per account with the account id as dedup key; any worker of
any process claims it, calls `AccountIngestHandler::handle`, and writes the outcome to the row; the reaper
of any process puts back rows whose heartbeat is stale. The handler calls the loaders, whose only contact
is the shared graph; nothing prevents two attempts of one job, or jobs of two accounts that name the same
resource, from loading at once. Scores and resolvers read the graph with one query after the other while
ingestion goes on writing to it, and write assessments back to its Principal nodes.

## 2. Modules

| Module | Models | Correspondence |
|---|---|---|
| `JobLifecycle` | what a caller of the queue may rely on: status and number of attempts of each job | abstract specification, no code of its own |
| `JobStore` | the jobs table | one action per SQL statement of `store.rs`; a statement is one autocommit statement and so one step. `StoreSpec` lets any client issue any statement at any time |
| `IngestTrigger` | the ingest resolvers on `JobStore` | one action per account of a request; `ingest_status` and `ingest_jobs` are operators, the answers they would give in a state |
| `JobQueue` | processes, each with workers and a reaper, on `JobStore` | worker loop, heartbeat task, reaper tick, start, drain; a step is one statement or one local decision, so what a task read may be stale when it acts on it |
| `GraphLoad` | the loaders | one action per statement of a transaction; `vertices` and `edges` are what is committed, `task[l].vs` and `.es` what an open transaction has written |
| `IngestRun` | one attempt of `account_ingest` | one action per page, per end or failure of a listing, per enricher and per rule |
| `ResourceNodes` | the nodes that the fetchers write | one operator per fetcher |
| `PermissionEdges` | `fetch_iam_roles`, `fetch_iam_users` and the permissions enricher, on a graph that the jobs of several accounts share, while policies change in AWS | one action per kind of call of a fetch, one per load; the enricher's query and computation are one step |
| `RiskCache` | `riskScore` and `refreshRiskScore` on that graph | one action per query of a request |
| `Wildcard`, `PolicyParser`, `PolicyEvaluation`, `PolicyFindings` | matchers; parsers; evaluation; derivations of the IAM engine | pure operators, one per function, each module extending the one before |
| `PolicyEngine` | the policies about one principal while they are edited | one action per edit of an argument; what the engine answers is computed in each state |
| `AuditTrail` | `cloudtrail.rs` | batches are delivered, records parsed one by one; the four patterns and the score are operators on the log |
| `AccessGraph` | the policy enrichers, in their order | begin (with sentinels), one step per item read, one per load, and their failures; owners edit policies in between |
| `AccessRisks` | the access risk resolvers on that graph | one operator per resolver: the answers it may give |
| `RiskRules`, `RiskScore`, `RiskCatalog`, `GraphQueries` | rules and fuzzer; signals and score; catalogue snapshots; the reading queries | pure operators |
| `RiskRuns` | batch, iterative and account scoring on a growing graph, and the snapshots | one action per query of a run, each of which may fail |
| `JobStoreProofs`, `GraphLoadProofs`, `IngestRunProofs`, `RiskCacheProofs`, `AccessProofs`, `RiskRunsProofs` | theorems about the module that the name says (`AccessProofs` about `AccessRisks` and, under it, `AccessGraph`) | |
| `JobClientsProofs`, `IamEngineProofs` | theorems about `IngestTrigger` and `JobQueue`; about `PolicyEngine` and `AuditTrail` | the two modules of each are clients of one module and share lemmas, or parts of one crate |
| `MCIngestTrigger`, `MCJobQueue`, `MCGraphLoad`, `MCIngestRun`, `MCRiskCache`, `MCPolicyEngine`, `MCAuditTrail`, `MCAccess`, `MCRiskRuns` | values of the constants for TLC | |

`JobQueue` extends `JobStore`: its actions are built from the statements, and the property `StoreSpec` says
that a queue, whatever fails in it, only takes steps of the table; `IngestTrigger` extends it in the same way.
`JobStore` refines `JobLifecycle` (`ImplementsLifecycle`). `IngestRun` takes a load as one step, which is what
`GraphLoad!AllOrNothing` says of it, and it is what `JobQueue` abstracts to a handler that returns one of three
outcomes. `PermissionEdges`, which `RiskCache` extends, and `AccessGraph` take a load as one step for the same
reason. `RiskRuns` extends `RiskScore` (over `RiskRules` and `Wildcard`), `RiskCatalog` and `GraphQueries`.

A definition whose comment begins with *Mutant* is a wrong variant of the next one. It is there to show that a
property notices the difference; no specification uses it.

### Abstractions

* Time in `JobStore` is the distance of `heartbeat_at` and `next_attempt_at` from `now()`, in ticks; ages stop
  growing one past the threshold, since the code only compares with it. `created_at` is a rank.
* `claim` uses `FOR UPDATE SKIP LOCKED`: the row it takes is the best of those not locked. As statements are
  atomic here, no row is locked when it runs. What is lost is a claim that passes over a row whose lock is
  held by a statement that then rolls back; autocommit statements of this table do not roll back after they
  have taken a row except with the whole process.
* `last_error` and the payload are left out; a result is present or absent.
* A worker id belongs to one worker task of one process (the code draws a UUID), and a job id is used once.
* Handlers return. A handler that hangs is beaten for by its heartbeat task and never reaped; it is a hazard
  without a property, as `JobsFinish` would be false by design.
* `IngestTrigger` takes an account id to be well-formed or not; `over`, the jobs that had ended when a call
  began, is bookkeeping for `CoveredByAnswer` and not in the code.
* `GraphLoad` reads READ COMMITTED: a statement sees what was committed before it and its own transaction.
  Properties written by SET are left out, and chunks (`batch_size`) have no effect on the transaction.
* `RecyclingMethod::Clean` runs a statement that fails in an aborted transaction, so the pool discards such a
  connection and Postgres the transaction (`Abort`).
* `IngestRun` keeps the identity of resources and the names of what failed, not the statistics. A rule joins
  nodes by label and property as its Cypher does.
* In `PermissionEdges` a policy is a set of statements, a statement an effect and a set of pairs of an action
  and a resource, spelt as in the policy: the enricher compares pairs as strings, expands no wildcard, skips
  Deny and ignores conditions. A fetch changes only what it loads, so fetches of different principals of one
  list are independent here though the code makes them one after the other. Nodes of a principal without
  policies (stubs) are left out: they get the same edges as the others of their id. The `source` property of
  an edge is left out (the comment at `permissions.rs:120` keeps "inline", the code overwrites it). Two jobs that load
  one Permission node at once may create it twice; the pairs that its edges carry are the same.
* An assessment in `RiskCache` is the set of permissions it was computed from. Signals, rules and the score
  are in `RiskScore`; that reading them may fail is in both.
* The characters of patterns and actions in the IAM engine are strings of length one, over an alphabet small
  enough to enumerate; policies are sets of statements, since no evaluation depends on their order. Actions
  of the runs have two characters, a service and a verb.
* Condition values are compared as `deny_engine.rs` does with the default context; dates and numbers have no
  operator there and hold, as every operator that is not known.
* `AuditTrail` has well-formed UTC times only, in seconds; the digits that the code compares are computed
  from them. The success rate of a batch is left out.
* `AccessGraph` names a policy document and gives its parsed statements as a constant; a document that is no
  JSON is one of `Malformed`. Properties of nodes that no query reads are left out.
* Scores in `RiskScore` are integers (signals in thousandths, weights in hundredths). The logarithm is
  interpolated between powers of ten, which keeps its order and its values at them.
* LIMIT keeps any rows of a result, ORDER BY the ones it names; `GraphQueries` gives the set of answers there
  may be.
* In every module of a graph a record is updated with one update per entry of a function: the encoding that
  the provers use reads several updates of one entry in one EXCEPT as contradictory, and would prove anything.

## 3. Runs

### Jobs table

`store_any_client` (`JobStore.cfg`): two rows with the key of account A, one of them with a better priority
and without a second attempt, and a row of account B; one claimer, threshold 0, a backoff of 1 tick and then
the cap of 2. Any client may issue any statement on any row: `complete` on a pending row, heartbeats for a
finished one. A caller of `trigger_ingest` goes through a list of one account, of both, of none, or one with a
malformed id behind a good one; a list shows one row. Three rows are needed for deduplication and order to
meet: one that waits for a retry, one that overtakes it, one that wants its key.

* `DedupUnique`, `FirstTriesInOrder`: invariants of the table.
* `ImplementsLifecycle`: the table refines `JobLifecycle`.
* `CoveredByAnswer`: an Ok means that every account asked for has a job that had not ended when the call began,
  whatever happened between the statements.
* `ListedFirst`: what is in flight is the first line of its account, limit or not, and lines are coherent.

### Queue

All runs have two workers and at most two jobs, the first with two attempts. One process has both workers, or
two processes have one each; more processes or jobs add no new kind of conflict over one row.

| Run | Environment | Shows |
|---|---|---|
| `queue_finish` | two processes, one job; crashes, lost statements and replies, late heartbeats | `OneWorkerPerAttempt`; all steps are steps of the table (`StoreSpec`); `JobsFinish` under fairness, if one process stays up |
| `queue_lease` | one process, two jobs; the same with timely heartbeats | `LiveClaimKept`, `NoConcurrentExecution` |
| `queue_shutdown` | two processes that start and drain; no failures, late heartbeats | `RunningHasWorker`, `ShutdownEnds` |
| `queue_reapers` (violation) | two processes, timely heartbeats | a reaper works on a list that the other reaper has dealt with, and takes a live claim |

`Timely` says that a live worker's heartbeat, or its final statement, reaches the database before the
threshold runs out. It is what the ratio of `heartbeat_interval` to `reap_threshold_seconds` is for.

### Loaders

`graph_load`: the loaders of one job, two fetch tasks (a page of principals; a page of buckets that names a
bucket twice, or an empty one) and a loader of edges, lenient or strict, one of them to a node that is never
loaded. Loads interleave, each loader has two, any statement or reply fails. Loading again changes nothing
(`OneVertexPerId`, `OneEdgePerKey`), a load is atomic (`AllOrNothing`), and its counts are true (`OkMeansLoaded`).

Two runs of each loader are what a retry is; a duplicate needs two loads of one node, so a third adds nothing.
The loaders of the run share no node and no edge, as the fetch tasks of one job do not; that two loads of one
node, of two jobs or of an attempt and its retry, may both create it is the reason for the assumption
`Exclusive \/ NodesApart` of the theorem below.

### Ingest run

`ingest_run`: instances, which Cloud Control lists in two pages, a VPC, which the SDK lists behind an empty
page, and groups, of which there are none; two permits, two enrichers, and three rules of which one has a name
that is refused. Three types on two permits make one wait; two pages let a listing fail before, between and
after. Everything may fail; Cloud Control lists every type. `LossRecorded` says that whatever node, enricher or
rule's edge is missing at the end is recorded, `RunEnds` that the run ends.

### Permissions and scores

`risk_cache`: a role with a boundary at all times, whose policies and boundary may change once while it is
fetched, a user about whom any call may fail, three permissions, one job and one client, at most two nodes. Two
nodes are what it takes for one principal to have an old and a new node, or two principals to be kept apart;
one change puts a fetch between two moments; a third permission is one that no boundary of the role allows. One
job interleaves with fetches and requests; the theorems cover any number of jobs and clients. Calls, loads and
queries fail. Properties: `EdgesGranted`, `EnrichedWhole`, `BoundaryKept`, `LoadShows`, `AssessmentsHold`.
`BoundaryKept` has the premise that no call about the principal fails, and `LoadShows` that a boundary was
fetched; section 5 says what happens without them.

### IAM engine

`iam_policies` (`PolicyEngine.cfg`): eleven identity documents (with NotAction, NotResource, wildcards of both
kinds, mixed case, conditions, and four that the parser refuses), four guardrails for SCPs (two levels) and
boundary, three session policies, three resource policies, three trust policies, two roles; at most three
versions and four edits. Four edits are what a comparison of versions with a guardrail on either side takes.

* `EffectiveExact`: for requests that an identity policy spells out, matchers, parser and the layers of
  evaluation together give what the policies mean (`Denotes` is a definition of a pattern without recursion).
* `GuardrailsOnlyNarrow`: adding a Deny, an SCP level, a boundary or a session policy gives nothing.
* `HistoryExplains`: the steps of the drift analysis account for the difference between the first and the
  current version.
* `WeakTrustsFound`: an analysis that answers has left out no weak trust.

### Audit trail

`audit_trail`: events shortly before and after a full hour and two later ones, a batch with an unreadable
record, one that is no batch; at most five events and two quarantined. Five events are one more than a window
of rapid changes needs; an hour's boundary is where digits and seconds part. `NoFalseAlarm` compares with
seconds, `EvidenceAccumulates` with the log before.

### Access

`access`: an account with a role, an instance, a bucket, a key, two secrets and a function. The cap on the
principals of one statement is 2 instead of 50, and one policy has three. Two runs of the enrichers, two edits
and two failures: one failure before and one during the loads, or an edit between the runs.

* `GrantsShown`, `SecretsEncrypted`: what an enricher that ended well has read is in the graph.
* `GrantableHasAccess`: at every moment, whatever failed, a grant edge has its access edge.
* `PublicNotMissed`, `WeakProviderReported`: the resolvers report what the enrichers have read, with the premises
  that there is one row, and that the account's vertex is there.

### Scoring

`risk_runs`: a graph of four principals, one of them with two vertices and one of another account, to which two
edges are added while one batch, iterative run or account report is under way with at most one failed query; the
bundled kind of rules with a cascade, or a directory with files that do not parse. Limits are scaled so that each
is met: 3 rows for LIMIT 100, one top principal for ten, three rounds. One vertex set has `is_admin`, so that
the signal is exercised, though in production nothing sets it (section 5).

* `PowerRaisesRisk`: over all assessments that are kept or in a run, whoever can do as much scores as much; and what the
  fuzzer finds is found in principals.
* `AllAccountedFor`: nobody is left out without a word, apart from what an iterative run skips.
* `RoundsPayOff`: rounds are bounded by what there is to find.
* `ReportTellsWorst`: top list, categories and cascade score show the worst.
* `NothingSlipsBy`: every action that AWS publishes for a wildcard is warned of at the next snapshot.
* `QueriesAgree`: count, subgraph, paths and walks agree with reachability.

Deadlock checking is off in the runs of the loaders, of the ingest run and from `risk_cache` on: a run ends,
loaders use up their loads, and with every bound reached nothing need be left to do.

### Fairness

* `JobQueue!FairSpec`: tasks are scheduled (weak fairness of a worker's check, poll and final statement and of
  a reaper's query: each stays enabled until it is taken, and tokio polls every ready task); handlers return;
  time passes. Claiming and reaping have strong fairness: another worker may take the row, or the statement
  may fail and be retried at the next poll, but a database that errs does not err for ever on the same
  statement. No fairness is assumed of crashes, starts, drains, clients or heartbeats.
* `IngestRun!Spec`: weak fairness of `Next`. The run is one future that the worker awaits; every call it awaits
  returns (the SDK and the pool have timeouts), and no step goes back, so any step taken again and again ends it.

The other specifications state safety only: nothing in the code promises that a request for a score or a batch is
retried.

## 4. Proofs

TLC checks the instances above; the theorems hold for every value of the constants that satisfies the named
assumptions of the modules.

* `JobStoreProofs`. Every statement changes one row in one of a few ways (`RowStep`, lemma `EveryRowSteps`);
  types, `AttemptsBounded`, `RowConsistent` and `NoResurrection` follow row by row. `DedupUnique` is inductive
  with the conflict check of the insertion. `FirstTriesInOrder` is not: it needs that an untried row waits
  without delay and that `created_at` grows with every insertion (`OrderInv`). `ImplementsLifecycle` maps
  every statement to a life-cycle step or a stutter.
* `JobClientsProofs`, resolvers. `TriggersUseStore`: a request only takes steps of the table, and so inherits its
  theorems (`TriggersInheritStore`). `CoveredByAnswer` needs `CoverInv`: each account that the loop has passed has a job
  that was not over when the call began, and what was over is over. `ListedFirst` rests on `NewestInv`: rows were
  created at different moments, and an active row is the newest of its type and key, as the deduplication let no
  later one in. Lines are counted off with it: the line at a position is the row with as many newer ones.
* `JobClientsProofs`, queue. `QueueUsesStore` makes every theorem of the table one of the queue, whatever fails.
  `OneWorkerPerAttempt` needs `AttemptInv`: a busy worker's attempt number is never ahead of its row's.
  `LiveClaimKept` and `NoConcurrentExecution` are proved under `Timely` and one reaper per job type; without the
  second they are false (`queue_reapers`), without the first any claim grows stale. `LeaseInv` says
  that a row in a reaper's list is held by nobody and left alone. `RunningHasWorker` is proved for
  no crashes and no failing statements (`RunInv`).
* `GraphLoadProofs`. `OneVertexPerId` under stable properties (`StableNodes`) and either no overlapping loads
  (`Exclusive`) or loaders that share no node (`NodesApart`). The invariant `NodeInv` extends uniqueness to
  what open transactions have written, which a commit then publishes. `OneEdgePerKey` likewise (`EdgeInv`).
  `OkMeansLoaded` and `AllOrNothing` hold without such assumptions, by `LoadInv`: an open load has counted what it
  sees (`Counted`), has published nothing, and marks all it writes as its own, while nothing bears the mark of
  a load still to come (`Stamped`). There is one lemma (`AfterMergeNode`, `AfterMergeEdge`, ...) for what each
  kind of step does to a loader.
* `IngestRunProofs`. `WithinLimit` needs only that one task at a time enters (`FlightStep`); `NodesBeforeEdges`
  is strengthened to all phases but `fetch`; `LossRecorded` is proved under `FullListing` (both sources list
  the same resources, no page is empty, every type has a fallback; the shipped `resource_types.yaml` gives one
  to each), with `LossInv` stating what each task has written so far and that a count of zero at the end of a
  listing means an empty inventory.
* `RiskCacheProofs`. `EdgesGranted` holds because an enricher's work is granted by nodes that stay (`WorkGranted`;
  lemma `GraphGrows`: nothing is taken from the graph); `EnrichedWhole` by what an enricher has done at each step
  (`WorkCovers`, `PermissionsThere`, `SeenStay`). `BoundaryKept` follows from `EdgesGranted` once every fetch and
  every node of a principal that always has a boundary is known to have one of them (`FetchBounded`,
  `VerticesBounded`). `AssessmentsHold` and `RefreshFresh` use that permissions only grow under a request
  (`RequestInv`). `LoadShows` is proved step by step from the MERGE pattern.
* `IamEngineProofs`, policies. `GuardrailsOnlyNarrow` holds whatever the matchers do: it only needs that Deny grows with
  the policy (`DenyGrows`), SCPs narrow with each level (`LevelsNarrow`), so that tighter arguments narrow the
  effective permissions (`TighterNarrows`), and that what is derived from them is monotone (`DetectedGrows`,
  `EdgesGrow`). `WeakTrustsFound` follows role by role.
* `IamEngineProofs`, what policies mean. A pattern matches what it denotes, for every pattern and text over any
  alphabet (`WildcardsExact`): the characters from which the rest of the text can be cut for the rest of the pattern
  solve the equation of `match_recursive` (`CutsMatch`, by `CutTail` and `CutHead`), and nothing else does
  (`MatchedOnce`, by the exception nearest to the end of the pattern). From there statements, policies and layers are
  exact in turn, provided that what the engine is handed was parsed (`ArgumentsInv`: each statement has exactly one of
  each pair of fields, a boundary or session policy is one at most). That gives `EffectiveExact`. It assumes that
  patterns and requests are words, sequences of strings (`WordsAssumption`); without it a pattern could be anything.
* `IamEngineProofs`, history. Versions are listed from the latest to the earliest (`ArgumentsInv`), so there is an order of
  creation and it begins with the last one listed (`OrderedHistory`). An action that is not spelt at first and is
  in the end becomes so at some step (`Becomes`, by the first version that spells it), and only steps that expand
  something are critical or high (`ScoreTells`). That gives `HistoryExplains`.
* `IamEngineProofs`, audit trail. Digits are never closer than seconds (`DigitsStretch`, `DigitsApart`), hence `NoFalseAlarm`;
  the log grows at its end and nowhere else (`LogGrows`), and each pattern, defined by first events, keeps what
  it found (`EvidenceStep`), hence `EvidenceAccumulates`.

* `AccessProofs`. `AccessInv` says what is settled when: the sentinels from the beginning of an enricher's turn, a
  load once the step has passed it (`Settled`: its nodes are in the graph, and its edges join every pair of
  vertices there is). It is inductive because the loads of each service are given nodes first (`NodesFirst`, by the
  shape of each of the six services' loads), because a load of grant edges comes after the one of access edges
  (`GrantsOnlyAt`) and because no vertex is taken away. From it follow, for any account, documents, edits and failures,
  `GrantableHasAccess` (inductive with it), `GrantsShown` and `SecretsEncrypted`, and, through the queries of the
  resolvers, `PublicNotMissed` and `WeakProviderReported`. Assumed are the enrichers there are
  (`EnrichersAssumption`), that only roles have trust policies (`DocumentsAssumption`), that functions
  were loaded by their fetch task (`FunctionsAssumption`), and that a `"*"` in the AWS form of a principal stands
  first (`StatementsAssumption`: the resolvers read the one principal of a statement that the enricher wrote first).
* `RiskRunsProofs`, runs. `RunOK` holds of each run by itself: whoever was listed is still to do, in progress, held,
  scored, failed, bare or skipped, as its phase has it (`Accounted`, `BareApart`), and the counts of an iterative
  run fit what it has seen (`RoundsCounted`, `RoundsRepeat`: after a round all rules of a principal are seen unless
  it failed, so that later rounds find nothing new in it). `KeptInv` joins runs: whatever replaced a score that
  a run gave was given by a run too. `Moves` says what one step does to its run and to the graph; `Inv`
  (`RunsInvariant`) gives `AllAccountedFor` and `RoundsPayOff` for any number of runs and any failures.
* `RiskRunsProofs`, scores. Every score comes from `Assessment` (`Made`), so `PowerRaisesRisk` is about operators:
  rules match more with more permissions, cascades too, since the first pass does (`MatchAllGrows`); the
  interpolated logarithm is monotone (`LogGrows`) and with it each of the five signals (`SignalsGrow`); scores
  are monotone in them (`ScoreGrows`). Weights and thresholds of cascades are taken not to be negative
  (`FilesAssumption`). `ReportTellsWorst` needs that a sorted list exists (`SortedExists`), and that the harmonic mean
  of integers, which is rounded twice, still lies between the least and the greatest score (`MeanBetween`).
* `RiskRunsProofs`, catalogue. `CatalogInv`: what holders of a wildcard were warned of covers the last snapshot,
  and the last comparison is true. An impact's severity bounds the score from below, the new actions of a service
  the total (`UnionBound`).
* `RiskRunsProofs`, queries. The query for paths of variable length finds every path that uses no edge twice and no
  other (`TrailsExact`, length by length); what it leads to is what can be reached hop by hop (`TrailsReach`: where the next
  edge is already on a path, that path's beginning leads there in fewer hops). So counts bound the reachable
  vertices, answers lie in them, and the shortest path has the least number of hops (`AnswersReach`), in every
  finite graph (`GraphInv`). That gives `QueriesAgree`.

The sums in these properties are folds over sets, which the library defines by recursion and states no facts about.
`Total` of a function with a finite domain is the value that such a recursion must have: it exists for
larger and larger subsets (`SumsExist`), is unique (`SolvedOnce`), and does not depend on the order of picking
(`SumsPick`); from there it is monotone and bounded. Induction is by the least counterexample (`Least`, from
the well-foundedness of < on numbers), which needs no operator as a parameter.

Four properties became more exact when they were proved. With several runs a kept score may be one that another run
gave, or left from an iterative run that could not write its later one (`AllAccountedFor`). And who does as
much as another has as many permissions for each of its actions, or alone a permission for everything
(`MayAsMuch` in `PowerRaisesRisk`): the signal for the surface counts permissions, and not what they cover.
The drift score is kept as thousandths and a number of steps (`DriftScore`): divided in integers, as an earlier
version of the model did, it would be zero for one expansion in a history of more than 700 steps, which the code's
floating point tells from zero. And `QueriesAgree` compared one hop with a walk of the same limit, which the resolvers
do not allow for the limits of the code (100 rows and 10 results); it now says what a walk of any allowed limit answers.

The type invariants of the table, the queue, the loaders, the ingest run and the scores are proved with the first
theorem of each module (`StoreTypeCorrect`, `TypeCorrect`). `AttemptsBounded`, `RowConsistent`, `NoResurrection`, `WithinLimit`,
`NodesBeforeEdges` and `RefreshFresh` are proved and not checked again by a run.

Only model-checked: `JobsFinish`, `ShutdownEnds`, `RunEnds` (liveness under fairness is out of the prover's
reach).

## 5. Where code and documentation differ

`queue_reapers` is the run of a finding: two reapers can take a live claim, and `reaper.rs:8-11` promises
otherwise. The others below are stated in the modules and no run lists them, because a run that TLC is to find
violated answers one question. To see one, add the property to the configuration named (as an INVARIANT unless said
otherwise), with no other one, and change what is said.

| Property | Configuration | What is said and what happens |
|---|---|---|
| `ExactlyOneWins` | `QueueFinish.cfg` with `SPECIFICATION Spec`, `Procs = {p1}`, `ProcOf <- OneProcess`, `Crashes` and `StoreErrors` FALSE; a PROPERTY | `store_test.rs:324-325` and `store.rs:244`: of `complete` and `fail` one takes effect. `complete` goes by the id and overwrites a failure already recorded |
| `OneVertexPerId` | `GraphLoad.cfg` with `LoadsOf <- StubJob`, `MaxRuns = 1`, `Exclusive = TRUE`, `Errors = FALSE` | `iam.rs:159-160` and `docs/system-architecture.md:266-267`: loading converges. A stub of a principal named by a trust policy does not match the fetched one |
| `ScoreFresh` | `RiskCache.cfg` with `Throttled = {}`, `Failures = FALSE` | `risk.rs:12-14`: a stale score is computed anew. `riskScore` (line 33) never asks for staleness |
| `EvaluatorsAgree` | `PolicyEngine.cfg` with `MaxEdits = 2` | `resource_policy_evaluator.rs:7`: an explicit Deny wins. The pair evaluator takes a NotResource the other way round (line 260, against its comment at 259) and misses Denies the engine sees |
| `FiveMinutesSeen` | `AuditTrail.cfg` | `cloudtrail.rs:254`: more than three writes within five minutes are reported. Times are compared by their digits (line 495), so 300 is three minutes, and less across a full hour |
| `WildcardGrantReported` | `Access.cfg` | `key_management_risks.rs:207`: a grant to anyone is HIGH. The sentinel is a WildcardPrincipal (`sentinel.rs:22`), and the query (line 30) collects only those labelled Principal |
| `AdminIsNear` | `RiskRuns.cfg` | `path_to_admin.rs:4-6`: an administrator is who may do everything. The query asks for `is_admin`, which nothing writes |

Further facts that the models rest on or that premises of properties exclude:

* Ingestion. `LossRecorded` assumes that both sources list the same: when Cloud Control lists nothing of a type and
  the SDK then fails, the type is missing from `errors[]` (`handler.rs:151-152` says that it is recorded). A page
  without resources ends a listing even with a token for the next (`cloud_control.rs:49`). No fetcher writes
  `role_arn`, `vpc_id` or `security_group_id` on a Resource node, so three of the four shipped rules never
  join anything (`RulesLackTheirProperties` of `MCIngestRun`). `ingest_account` never returns Err, so the
  mapping of its errors to retries is never used.
* Permissions. `BoundaryKept` assumes that no call fails: when the boundary's document cannot be fetched the
  principal is loaded as one without a boundary (`native_fallback.rs:345`), unmasked, and nothing is recorded.
  `LoadShows` assumes a boundary: after a boundary was removed in AWS, the pattern of the MERGE, which leaves
  None out, matches the earlier node with the boundary, and the graph goes on showing masked permissions. If
  instead a policy changed, there is a second node, and edges of both. Edges only grow (`permissions.rs:60`): a
  permission that was revoked keeps its edge, and no property says otherwise. The inline policies of users are
  not fetched at all.
* Evaluation. Boundaries and SCPs pass over their Deny statements (`boundary_evaluator.rs:44`): a guardrail
  that allows everything and denies one action restricts nothing, where AWS would deny the action. A Deny
  narrower than a wildcard Allow neither removes nor splits it. `EffectiveExact` compares with the meaning
  without those Denies, and for requests spelt out.
* Resolvers of ingestion. The status filter of `ingest_jobs` is compared with the column (`pending`, `running`)
  and not with what is shown (`RUNNING`). An explicit empty list of accounts is an Ok without ids, empty
  defaults are an error. When an account cannot be enqueued, the ids of those before it are not returned.
* Access. `PublicNotMissed` assumes one row: an edited policy leaves the vertex of the earlier one, and the first
  row is answered. `WeakProviderReported` assumes that the account's vertex was loaded, whose failure is not heard
  (`iam.rs:179`).
* Queries. `blast_radius` cuts rows, which are paths, at 100, so that "all nodes within max_hops"
  (`client.rs:255`) need not be among them. Nothing writes `HasPrincipal`; the accounts of the report are always
  found by ARN. `path_finder` returns no path.
* Scores. `log_normalize` has no upper bound. A cascade counts matches of any scope. A principal with several
  vertices is scored several times by a batch. An account report for which every principal fails shows no
  principals and a cascade score of zero; the harmonic mean leaves zeros out. An iterative run never reads
  permissions again, so its later rounds can only find what an earlier failure hid (`RoundsPayOff`); with a
  threshold of one or more its test for two quiet rounds never decides anything. The actions of a service that
  is new in a snapshot count in the total and are no impact on a `*`.
* Scheduler. The shutdown flags of the pool are never set back: `start` after `shutdown` on one `Scheduler` object
  (line 75) gives workers that end at once. The processes of `JobQueue` start with a new object.

## 6. Not modelled

* The registry of handlers, the configuration and the old runtime are read once at start and hold no state after.
* `activable-schema` (tables, parsers, serde) is text to values, and the server, `findings` and the node and
  health queries pass rows on.
* Of the engine: `principal_matches` and the accessors of principals, which no evaluation uses, the kinds of
  parse errors, and the loading of the registry of dangerous actions. Of the fetchers of principals: groups.
  Of the resolvers: the listings of statements beside a severity.
* Pure I/O and text: AWS client configuration, Cypher escaping, telemetry, HTTP, deployment.

## 7. Plan

1. `IngestRun` on `GraphLoad` under `JobQueue`, with a job that is retried while its first attempt still runs, and
   the refinement of `IngestRun`'s atomic load by `GraphLoad`.
2. `SchedulerLifecycle`: the facade object across repeated `start` and `shutdown`, with the registry.
3. Groups in `PermissionEdges`, and the parser of ARNs and edge end points of `activable-schema` as operators.
4. `RunEnds` and `JobsFinish` step by step, as far as safety carries (a measure that no step raises); the fairness part
   stays with TLC.
