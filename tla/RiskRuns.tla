------------------------------ MODULE RiskRuns ------------------------------
(***************************************************************************)
(* The three ways in which activable-risk scores many principals, on a     *)
(* graph to which ingestion adds edges meanwhile: batch_score_all          *)
(* (batch_runner.rs), run_iterative_scoring (enumeration/*.rs) and the     *)
(* query account_risks of activable-graphql; and the catalogue of AWS      *)
(* actions, which AWS extends and snapshots are taken of.                  *)
(*                                                                         *)
(* A run has one step for each query it waits for, and each may fail.      *)
(***************************************************************************)
EXTENDS RiskScore, RiskCatalog, GraphQueries, SequencesExt

CONSTANTS
    Runs,
    Weights,            \* the signal weights of the configuration file
    RuleFiles,          \* the sets of rule files to run with
    Categories,         \* categorize_rule: the account categories of rule ids
    FirstEdges,
    LaterEdges,
    Admins,             \* the ids whose vertices have is_admin
    FirstCatalog,
    LaterActions,       \* pairs of a service and an action that AWS publishes
    Threshold,          \* convergence_threshold
    MaxIterations,
    TopLimit,           \* 10
    FuzzFamilies,       \* service_families
    MaxEdits,
    MaxFailures

ASSUME LimitsAssumption ==
    /\ RowLimit \in Nat \ {0} /\ MaxWalkResults \in Nat /\ MaxEdgeTypes \in Nat /\ MaxDepth \in Nat
    /\ Threshold \in Nat /\ MaxIterations \in Nat \ {0}
    /\ TopLimit \in Nat /\ MaxEdits \in Nat /\ MaxFailures \in Nat

\* Weights and the counts of cascades are not negative in the files of the repository.
ASSUME FilesAssumption ==
    /\ \A name \in DOMAIN Weights : Weights[name] \in Nat
    /\ \A files \in RuleFiles : /\ IsFiniteSet(files)
                               /\ \A file \in files : \A t \in file.trigger : t.match_count \in Nat

ASSUME FirstAssumption ==
    /\ IsFiniteSet(FirstEdges)
    /\ IsFiniteSet(DOMAIN FirstCatalog)
    /\ \A service \in DOMAIN FirstCatalog : IsFiniteSet(FirstCatalog[service])

VARIABLES
    edges,              \* the graph
    kept,               \* risk_assessment_json of the principals
    rules,              \* the rules loaded
    run,                \* the runs
    catalog, snapshot,  \* the actions of AWS, and the last snapshot of them
    warned,             \* pairs of a principal and an action that impacts named
    news,               \* the last comparison: its impacts, total_new_actions and score
    edits, failures     \* bounded by MaxEdits and MaxFailures

awsVars == <<catalog, snapshot, warned, news>>

vars == <<edges, kept, rules, run, awsVars, edits, failures>>

-----------------------------------------------------------------------------
(* The graph *)

\* f, with y for x.
With(f, x, y) == [z \in DOMAIN f \cup {x} |-> IF z = x THEN y ELSE f[z]]

Principal == {v \in Vertices : v.label = "Principal"}

\* get_effective_permissions: a row for each edge, from whichever vertex of the principal.
PermissionRows(id) ==
    {[action |-> e.to.id, to |-> e.to, from |-> e.from] :
        e \in {f \in edges : f.type = "HasEffectivePermission" /\ f.from.id = id}}

\* list_principal_ids: a row for each vertex; the account's principals are distinct ids.
PrincipalRows == {[id |-> v.id, number |-> v.number] : v \in Principal}

AccountRows(account) == {[id |-> v.id, number |-> 1] : v \in {w \in Principal : w.account = account}}

\* shortest_path_to_admin: the least distance to a principal marked as one.
AdminDistance(id) ==
    LET lengths == UNION {PathLengths(edges, id, admin, 8) : admin \in Admins}
    IN  IF lengths = {} THEN {} ELSE {Min(lengths)}

\* cross_account_hop_count: the other accounts that roles can be assumed in.
CrossAccounts(id) ==
    LET account == {v.account : v \in {w \in Principal : w.id = id}}
    IN  Cardinality({Target(t).account :
            t \in {u \in Trails(OfTypes(edges, {"CanAssume"}), id, 10) :
                       Target(u).account \notin account}})

AddEdge(e) ==
    /\ edits < MaxEdits
    /\ e \notin edges
    /\ edges' = edges \cup {e}
    /\ edits' = edits + 1
    /\ UNCHANGED <<kept, rules, run, awsVars, failures>>

-----------------------------------------------------------------------------
(* Runs *)

NoRead == [reach |-> 0, distance |-> {}, hops |-> 0]

\* now: the rows whose principal is in progress, one or none.  held: the permissions read
\* by row, which an iterative run keeps.  seen: its pairs of a principal and a rule; fresh:
\* how many the round found; rounds: new_edges_per_iteration.  failed: the principals that
\* errors or the log name, skipped: those passed over without a word, unkept: those whose
\* score could not be written.
Idle == [kind |-> "none", pc |-> "idle", todo |-> {}, now |-> {}, held |-> << >>,
         read |-> NoRead, done |-> {}, failed |-> {}, skipped |-> {}, unkept |-> {}, bare |-> {},
         rounds |-> << >>, fresh |-> 0, seen |-> {}, converged |-> FALSE, account |-> "none",
         listed |-> {}]

Loaded(files) ==
    {LoadDirectory(files)} \cup (IF EmbeddedLoads(files) THEN {LoadEmbedded(files)} ELSE {})

\* No rule in a directory is an error, and nothing runs.
Init ==
    /\ edges = FirstEdges
    /\ kept = [id \in {v.id : v \in Principal} |-> {}]
    /\ rules \in {loaded \in UNION {Loaded(files) : files \in RuleFiles} : loaded # {}}
    /\ run = [r \in Runs |-> Idle]
    /\ catalog = FirstCatalog
    /\ snapshot = FirstCatalog
    /\ warned = {}
    /\ news = [impacts |-> {}, total |-> 0, score |-> 0]
    /\ edits = 0
    /\ failures = 0

Becomes(r, state) ==
    /\ run' = [run EXCEPT ![r] = state]
    /\ UNCHANGED <<edges, rules, awsVars, edits>>

Calm == UNCHANGED failures

Fail == failures < MaxFailures /\ failures' = failures + 1

Now(r) == CHOOSE row \in run[r].now : TRUE

\* Rows are taken in an order that the table has, whichever that is.
First(r) == CHOOSE row \in run[r].todo : TRUE

Start(r, kind, account) ==
    /\ run[r].pc = "idle"
    /\ Becomes(r, [Idle EXCEPT !.pc = "list", !.kind = kind, !.account = account])
    /\ Calm /\ UNCHANGED kept

\* Nothing to score is the end, and for an account an error.
List(r) ==
    /\ run[r].pc = "list"
    /\ LET rows == IF run[r].kind = "account" THEN AccountRows(run[r].account) ELSE PrincipalRows
       IN  Becomes(r, [run[r] EXCEPT !.pc = "permissions", !.todo = rows,
                                     !.listed = {row.id : row \in rows}])
    /\ Calm /\ UNCHANGED kept

\* The run ends with one error.
ListFails(r) ==
    /\ run[r].pc = "list"
    /\ Becomes(r, [run[r] EXCEPT !.pc = "error"])
    /\ Fail /\ UNCHANGED kept

\* An account's principal without permissions is passed over; an iterative run reads the
\* permissions of all before it scores.
ReadPermissions(r) ==
    /\ run[r].pc = "permissions" /\ run[r].todo # {}
    /\ LET row  == First(r)
           rows == PermissionRows(row.id)
           left == [run[r] EXCEPT !.todo = @ \ {row}]
       IN  Becomes(r,
             CASE run[r].kind = "account" /\ rows = {} -> [left EXCEPT !.bare = @ \cup {row.id}]
               [] run[r].kind = "iterative" -> [left EXCEPT !.held = With(@, row, rows)]
               [] OTHER -> [left EXCEPT !.pc = "reach", !.now = {row},
                                          !.held = With(<< >>, row, rows)])
    /\ Calm /\ UNCHANGED kept

\* The principal is passed over: an iterative run does not even log it.
PermissionsFail(r) ==
    /\ run[r].pc = "permissions" /\ run[r].todo # {}
    /\ LET row  == First(r)
           left == [run[r] EXCEPT !.todo = @ \ {row}]
       IN  Becomes(r, IF run[r].kind = "iterative"
                      THEN [left EXCEPT !.skipped = @ \cup {row.id}]
                      ELSE [left EXCEPT !.failed = @ \cup {row.id}])
    /\ Fail /\ UNCHANGED kept

\* Between the principals of a run.
Enter(r) ==
    /\ run[r].pc = "score" /\ run[r].todo # {}
    /\ Becomes(r, [run[r] EXCEPT !.pc = "reach", !.todo = @ \ {First(r)}, !.now = {First(r)}])
    /\ Calm /\ UNCHANGED kept

ReadReach(r) ==
    /\ run[r].pc = "reach"
    /\ Becomes(r, [run[r] EXCEPT !.pc = "distance",
                                 !.read.reach = BlastCount(edges, Now(r).id, {}, 6)])
    /\ Calm /\ UNCHANGED kept

ReadDistance(r) ==
    /\ run[r].pc = "distance"
    /\ Becomes(r, [run[r] EXCEPT !.pc = "hops", !.read.distance = AdminDistance(Now(r).id)])
    /\ Calm /\ UNCHANGED kept

\* The path to an administrator cannot be asked for: it counts as none.
MissDistance(r) ==
    /\ run[r].pc = "distance" /\ Admins # {}
    /\ Becomes(r, [run[r] EXCEPT !.pc = "hops", !.read.distance = {}])
    /\ Fail /\ UNCHANGED kept

ReadHops(r) ==
    /\ run[r].pc = "hops"
    /\ Becomes(r, [run[r] EXCEPT !.pc = "keep", !.read.hops = CrossAccounts(Now(r).id)])
    /\ Calm /\ UNCHANGED kept

\* Where the next principal is taken from.
Resumed(r) == IF run[r].kind = "iterative" THEN "score" ELSE "permissions"

\* Mutant: a principal whose score fails is not mentioned.
ScoreFailsUnseen(r) ==
    /\ run[r].pc \in {"reach", "distance", "hops"}
    /\ Becomes(r, [run[r] EXCEPT !.pc = Resumed(r), !.now = {}, !.read = NoRead])
    /\ Fail /\ UNCHANGED kept

\* A signal fails and with it the score of the principal.
ScoreFails(r) ==
    /\ run[r].pc \in {"reach", "distance", "hops"}
    /\ Becomes(r, [run[r] EXCEPT !.pc = Resumed(r), !.now = {}, !.read = NoRead,
                                 !.failed = @ \cup {Now(r).id}])
    /\ Fail /\ UNCHANGED kept

Scored(r) == Assessment(Now(r).id, run[r].held[Now(r)], run[r].read, rules, Weights)

\* Mutant: a rule is new in every round.
FreshInRound(r) == Scored(r).rules

\* visited_chains: the rules that no earlier round found for the principal.
Fresh(r) == {rule \in Scored(r).rules : <<Scored(r).id, rule>> \notin run[r].seen}

\* A batch keeps an assessment for each row, an iterative run the last of each principal.
WithScore(r) ==
    LET others == IF run[r].kind = "iterative"
                  THEN {a \in run[r].done : a.id # Now(r).id} ELSE run[r].done
    IN  [run[r] EXCEPT !.pc = Resumed(r), !.now = {}, !.read = NoRead,
                       !.done = others \cup {Scored(r)},
                       !.fresh = @ + IF run[r].kind = "iterative"
                                     THEN Cardinality(Fresh(r)) ELSE 0,
                       !.seen = IF run[r].kind = "iterative"
                                THEN @ \cup ({Scored(r).id} \X Scored(r).rules) ELSE @]

Keep(r) ==
    /\ run[r].pc = "keep" /\ run[r].kind # "account"
    /\ Becomes(r, WithScore(r))
    /\ kept' = [kept EXCEPT ![Now(r).id] = {Scored(r)}]
    /\ Calm

\* The score counts nevertheless; a batch lists an error, an iterative run is silent.
KeepFails(r) ==
    /\ run[r].pc = "keep" /\ run[r].kind # "account"
    /\ Becomes(r, [WithScore(r) EXCEPT !.unkept = @ \cup {Now(r).id}])
    /\ Fail /\ UNCHANGED kept

\* account_risks writes nothing.
Count(r) ==
    /\ run[r].pc = "keep" /\ run[r].kind = "account"
    /\ Becomes(r, WithScore(r))
    /\ Calm /\ UNCHANGED kept

\* All principals of a batch or an account are through.
Finish(r) ==
    /\ run[r].pc = "permissions" /\ run[r].kind # "iterative"
    /\ run[r].todo = {}
    /\ Becomes(r, [run[r] EXCEPT
            !.pc = IF run[r].kind = "account" /\ run[r].listed = {} THEN "error" ELSE "done"])
    /\ Calm /\ UNCHANGED kept

\* The principals whose permissions could be read; without any the run has converged.
Enumerated(r) ==
    /\ run[r].pc = "permissions" /\ run[r].kind = "iterative"
    /\ run[r].todo = {}
    /\ Becomes(r, IF DOMAIN run[r].held = {}
                  THEN [run[r] EXCEPT !.pc = "done", !.converged = TRUE]
                  ELSE [run[r] EXCEPT !.pc = "score", !.todo = DOMAIN run[r].held])
    /\ Calm /\ UNCHANGED kept

Quiet(rounds) ==
    \/ Last(rounds) < Threshold
    \/ /\ Len(rounds) >= 2
       /\ rounds[Len(rounds)] = 0 /\ rounds[Len(rounds) - 1] = 0

\* The end of a round: converged, out of iterations, or the next with the same permissions.
EndRound(r) ==
    /\ run[r].pc = "score" /\ run[r].todo = {}
    /\ LET rounds == Append(run[r].rounds, run[r].fresh)
           ended  == [run[r] EXCEPT !.rounds = rounds, !.fresh = 0]
       IN  Becomes(r, CASE Quiet(rounds) -> [ended EXCEPT !.pc = "done", !.converged = TRUE]
                        [] ~Quiet(rounds) /\ Len(rounds) = MaxIterations
                              -> [ended EXCEPT !.pc = "done"]
                        [] OTHER -> [ended EXCEPT !.todo = DOMAIN run[r].held])
    /\ Calm /\ UNCHANGED kept

RunStep(r) ==
    \/ \E kind \in {"batch", "iterative"} : Start(r, kind, "none")
    \/ \E account \in {v.account : v \in Principal} : Start(r, "account", account)
    \/ List(r) \/ ListFails(r) \/ ReadPermissions(r) \/ PermissionsFail(r) \/ Enter(r)
    \/ ReadReach(r) \/ ReadDistance(r) \/ MissDistance(r) \/ ReadHops(r) \/ ScoreFails(r)
    \/ Keep(r) \/ KeepFails(r) \/ Count(r) \/ Finish(r) \/ Enumerated(r) \/ EndRound(r)

-----------------------------------------------------------------------------
(* The account's report *)

CategoryNames == {"cf_escalation", "oidc_drift", "s3_boundary", "kms_grant"}

InCategory(assessment, category) ==
    \E id \in assessment.rules : id \in DOMAIN Categories /\ Categories[id] = category

\* Scores of the report are thousandths of the greatest.
InThousandths(assessment) == assessment.score \div 100

\* The greatest score of a principal with a rule of the category.
SubScores(r) ==
    [category \in CategoryNames |->
        Max({0} \cup {InThousandths(a) : a \in {b \in run[r].done : InCategory(b, category)}})]

Cascade(r) == HarmonicMean(SubScores(r))

Higher(a, b) == a.score > b.score

\* Mutant: the least score comes first.
TopAscending(r) ==
    LET sorted == CHOOSE s \in SetToSeqs(run[r].done) :
                      \A i, j \in DOMAIN s : i < j => ~Higher(s[i], s[j])
    IN  SubSeq(sorted, 1, Min({TopLimit, Len(sorted)}))

\* Equal scores come in some order.
TopPrincipals(r) ==
    LET sorted == CHOOSE s \in SetToSeqs(run[r].done) :
                      \A i, j \in DOMAIN s : i < j => ~Higher(s[j], s[i])
    IN  SubSeq(sorted, 1, Min({TopLimit, Len(sorted)}))

-----------------------------------------------------------------------------
(* The catalogue *)

\* Whose wildcard covers a service, or everything: permissions `s:*` and `*` in the graph.
WildcardPolicies(graph) ==
    {<<e.from.id, e.to.id[1]>> :
        e \in {f \in graph : f.type = "HasEffectivePermission" /\ Last(f.to.id) = "*"}}

Publish(service, action) ==
    /\ edits < MaxEdits
    /\ service \in DOMAIN catalog => action \notin catalog[service]
    /\ catalog' = With(catalog, service,
                       {action} \cup (IF service \in DOMAIN catalog THEN catalog[service] ELSE {}))
    /\ edits' = edits + 1
    /\ UNCHANGED <<edges, kept, rules, run, snapshot, warned, news, failures>>

Retire(service, action) ==
    /\ edits < MaxEdits
    /\ action \in catalog[service]
    /\ catalog' = [catalog EXCEPT ![service] = @ \ {action}]
    /\ edits' = edits + 1
    /\ UNCHANGED <<edges, kept, rules, run, snapshot, warned, news, failures>>

\* Ten times the logarithm, in hundredths.
TenthLog(n) == Log10(n) \div 100

\* diff_catalogs from the last snapshot and assess_expansion_impact for the graph's wildcards.
TakeSnapshot ==
    /\ snapshot # catalog
    /\ snapshot' = catalog
    /\ LET diff    == Diff(snapshot, catalog)
           impacts == Impacts(diff, WildcardPolicies(edges))
       IN  /\ news' = [impacts |-> impacts, total |-> TotalNewActions(catalog, diff),
                       score |-> ExpansionScore(impacts, TenthLog)]
           /\ warned' = warned \cup UNION {{i.principal} \X i.actions : i \in impacts}
    /\ UNCHANGED <<edges, kept, rules, run, catalog, edits, failures>>

-----------------------------------------------------------------------------
(* Specification *)

Next ==
    \/ \E e \in LaterEdges : AddEdge(e)
    \/ \E pair \in LaterActions : Publish(pair[1], pair[2])
    \/ \E service \in DOMAIN catalog : \E action \in catalog[service] : Retire(service, action)
    \/ TakeSnapshot
    \/ \E r \in Runs : RunStep(r)

Spec == Init /\ [][Next]_vars

-----------------------------------------------------------------------------
(* Properties *)

Assessments == (UNION {kept[id] : id \in DOMAIN kept}) \cup (UNION {run[r].done : r \in Runs})

RowsWith(permissions, action) == Cardinality({p \in permissions : p.action = action})

\* Permissions that hold each of some actions, or everything.
Covers(permissions, actions) ==
    \A action \in actions : \E p \in permissions : p.action \in {action, AnyWord}

\* b holds every action of a on as many resources, or alone may do everything, which counts
\* for as much as the whole catalogue.
MayAsMuch(a, b) ==
    \/ \A p \in a.permissions :
          RowsWith(a.permissions, p.action) <= RowsWith(b.permissions, p.action)
    \/ /\ RowsWith(a.permissions, AnyWord) = 0 /\ RowsWith(b.permissions, AnyWord) > 0
       /\ Cardinality(a.permissions) <= CatalogSize

\* b reaches as much of the graph.
ReachesAsMuch(a, b) ==
    /\ a.read.reach <= b.read.reach /\ a.read.hops <= b.read.hops
    /\ \A d \in a.read.distance : \E c \in b.read.distance : c <= d

\* Whoever can do as much as another scores as much (rule_engine.rs, scorer.rs): no rule,
\* cascade or normalisation takes away from a score what a permission adds to it.  And what
\* the fuzzer finds is found in a principal: rules that match a combination of actions match
\* whoever holds all of them.
PowerRaisesRisk ==
    /\ \A a \in Assessments, b \in Assessments :
          /\ Covers(b.permissions, {p.action : p \in a.permissions}) => a.rules \subseteq b.rules
          /\ MayAsMuch(a, b) /\ ReachesAsMuch(a, b) => a.score <= b.score
    /\ \A r \in Runs : run[r].pc = "done" =>
          \A d \in Discoveries(rules, FuzzFamilies, 3, {}), a \in run[r].done :
             d.actions \subseteq {p.action : p \in a.permissions} => d.rules \subseteq a.rules

\* A run that ends accounts for every principal that it listed (batch_runner.rs,
\* iterative_scorer.rs, account_risks.rs): each is scored, in the errors or the log, or has no
\* permissions; only an iterative run may have skipped one whose permissions it could not
\* read.  And unless its write failed the graph has a score of it, which is one that some run
\* still gives it, or of an iterative run that could not write its later one.
AllAccountedFor ==
    \A r \in Runs : run[r].pc = "done" =>
        LET scored == {a.id : a \in run[r].done}
        IN  /\ run[r].listed = scored \cup run[r].failed \cup run[r].bare \cup run[r].skipped
            /\ scored \cap run[r].bare = {}
            /\ run[r].kind # "iterative" => run[r].skipped = {}
            /\ run[r].kind = "batch" =>
                  \A id \in scored \ run[r].unkept :
                      /\ kept[id] # {}
                      /\ \E s \in Runs : kept[id] \subseteq run[s].done \/ id \in run[s].unkept

\* Iterating is bounded by what there is to find (iterative_scorer.rs): the rounds add up to
\* the pairs of a principal and a rule, each but the last round found Threshold new ones, a
\* later round finds new ones only for principals that failed before, as the permissions are
\* those read at first, and convergence means a quiet end.
RoundsPayOff ==
    \A r \in Runs : run[r].kind = "iterative" =>
        LET rounds == run[r].rounds
        IN  /\ run[r].fresh + FoldSeq(+, 0, rounds) = Cardinality(run[r].seen)
            /\ Len(rounds) <= MaxIterations
            /\ run[r].pc # "done" => Len(rounds) * Threshold <= Cardinality(run[r].seen)
            /\ (\E i \in 2..Len(rounds) : rounds[i] > 0) => run[r].failed # {}
            /\ run[r].converged => rounds = << >> \/ Quiet(rounds)

\* An account's report shows the worst of it (account_risks.rs): nobody outside the list of
\* the top principals scores more than somebody in it, no category is rated below a principal
\* that has one of its rules, and the cascade score lies between the categories found.
ReportTellsWorst ==
    \A r \in Runs : (run[r].kind = "account" /\ run[r].pc = "done") =>
        LET top   == Range(TopPrincipals(r))
            found == {SubScores(r)[c] : c \in CategoryNames} \ {0}
        IN  /\ \A a \in run[r].done \ top : \A b \in top : a.score <= b.score
            /\ Cardinality(top) = Min({TopLimit, Cardinality(run[r].done)})
            /\ \A a \in run[r].done, c \in CategoryNames :
                  InCategory(a, c) => SubScores(r)[c] >= InThousandths(a)
            /\ found # {} => Cascade(r) \in Min(found)..Max(found)

\* The vertices within a number of hops, found hop by hop.
Within(id, types, hops) ==
    LET reached[n \in 0..hops] ==
            IF n = 0 THEN {}
            ELSE reached[n - 1] \cup
                 {e.to : e \in {f \in OfTypes(edges, types) :
                                    f.from.id = id \/ f.from \in reached[n - 1]}}
    IN  reached[hops]

AnswersReachable ==
    \A id \in {v.id : v \in Principal}, hops \in 1..3 :
        LET reached == Within(id, {}, hops)
            rows    == BlastRows(edges, id, {}, hops)
        IN  /\ BlastCount(edges, id, {}, hops) >= Min({RowLimit, Cardinality(reached)})
            /\ \A answer \in Subgraph(edges, id, hops) \cup BlastWithin(edges, id, hops) :
                  /\ answer \subseteq reached
                  /\ Cardinality(rows) <= RowLimit => answer = reached
            /\ \A v \in Principal :
                  LET lengths == PathLengths(edges, id, v.id, hops)
                  IN  lengths # {} =>
                        Min(lengths) = Min({n \in 1..hops : \E w \in Within(id, {}, n) : w.id = v.id})
            /\ hops = 1 =>
                  \A limit \in 0..MaxWalkResults :
                      \A answer \in WalkEdges(edges, id, {}, "outgoing", limit) :
                          /\ {row.at : row \in answer} \subseteq reached
                          /\ Cardinality(answer) < limit => {row.at : row \in answer} = reached

\* What the graph queries answer is the reachable part of the graph (client.rs): a count of
\* rows is not below that of the vertices unless it is cut, every row of an answer can be
\* reached, all can if none is cut, a shortest path has the least number of hops, and walking
\* the outgoing edges finds what one hop reaches, all of it if there is less than was asked for.
QueriesAgree == [][edges' # edges => AnswersReachable']_edges

\* No expansion of a wildcard slips by (service_catalog.rs): however often AWS publishes and
\* retires actions between snapshots, a principal that always held a wildcard was warned of
\* every action of the last snapshot that its services did not have at first, and the total
\* and the score of a comparison are not below what it says of any one principal.
NothingSlipsBy ==
    /\ \A policy \in WildcardPolicies(FirstEdges), service \in DOMAIN FirstCatalog :
          policy[2] \in {"*", service} =>
              {policy[1]} \X (snapshot[service] \ FirstCatalog[service]) \subseteq warned
    /\ \A i \in news.impacts : Cardinality(i.actions) <= news.total
    /\ news.impacts # {} =>
          news.score >= Min({SeverityScore(i.severity) : i \in news.impacts})

\* Whoever holds everything is an administrator to path_to_admin.rs.
AdminIsNear ==
    \A a \in Assessments : (\E p \in a.permissions : p.action = AnyWord) => 0 \in a.read.distance

=============================================================================
