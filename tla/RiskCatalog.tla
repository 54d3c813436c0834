---------------------------- MODULE RiskCatalog ----------------------------
(***************************************************************************)
(* Snapshots of the AWS action catalogue and what their differences mean   *)
(* to principals with wildcard policies (service_catalog.rs).  A snapshot  *)
(* maps a service to its actions.                                          *)
(***************************************************************************)
EXTENDS Naturals, FiniteSets, FiniteSetsExt

CONSTANT KindOf     \* what the name of an action says: "critical", "write", "read" or "other"

Services(from, to) == DOMAIN from \cap DOMAIN to

\* Mutant: a service whose number of actions is the same is passed over.
DiffByCount(from, to) ==
    LET changed == {s \in Services(from, to) : Cardinality(from[s]) # Cardinality(to[s])}
    IN  [newServices     |-> DOMAIN to \ DOMAIN from,
         removedServices |-> DOMAIN from \ DOMAIN to,
         newActions      |-> [s \in {t \in changed : to[t] \ from[t] # {}} |-> to[s] \ from[s]],
         removedActions  |-> [s \in {t \in changed : from[t] \ to[t] # {}} |-> from[s] \ to[s]]]

\* diff_catalogs: actions are listed for services of both snapshots.
Diff(from, to) ==
    [newServices     |-> DOMAIN to \ DOMAIN from,
     removedServices |-> DOMAIN from \ DOMAIN to,
     newActions      |-> [s \in {t \in Services(from, to) : to[t] \ from[t] # {}} |->
                              to[s] \ from[s]],
     removedActions  |-> [s \in {t \in Services(from, to) : from[t] \ to[t] # {}} |->
                              from[s] \ to[s]]]

\* The actions of new services are counted, though not listed.
TotalNewActions(to, diff) ==
    MapThenSumSet(LAMBDA s : Cardinality(diff.newActions[s]), DOMAIN diff.newActions)
    + MapThenSumSet(LAMBDA s : Cardinality(to[s]), diff.newServices)

Severities == <<"other", "read", "write", "critical">>

\* classify_action_severity, and the most severe of a list.
Rank(action) == CHOOSE n \in DOMAIN Severities : Severities[n] = KindOf[action]

Worst(actions) == Severities[Max({Rank(action) : action \in actions})]

\* pattern: a service, whose actions all match, or "*" for all listed new actions.
Covered(diff, pattern) ==
    IF pattern = "*"
    THEN UNION {diff.newActions[s] : s \in DOMAIN diff.newActions}
    ELSE IF pattern \in DOMAIN diff.newActions THEN diff.newActions[pattern] ELSE {}

\* assess_expansion_impact.  policies: pairs of a principal and a pattern.
Impacts(diff, policies) ==
    {[principal |-> p[1], pattern |-> p[2], actions |-> Covered(diff, p[2]),
      severity |-> Worst(Covered(diff, p[2]))] :
        p \in {q \in policies : Covered(diff, q[2]) # {}}}

\* In hundredths.
SeverityScore(severity) ==
    CASE severity = "critical" -> 40
      [] severity = "write"    -> 20
      [] severity = "read"     -> 10
      [] OTHER                 -> 5

\* Log(n): ten times the logarithm of n, in hundredths.
ExpansionScore(impacts, Log(_)) ==
    IF impacts = {}
    THEN 0
    ELSE Min({100, MapThenSumSet(LAMBDA i : SeverityScore(i.severity) + Log(Cardinality(i.actions)),
                                 impacts) \div Cardinality(impacts)})

=============================================================================
