--------------------------- MODULE PolicyFindings ---------------------------
(***************************************************************************)
(* What activable-iam-engine derives from policies: dangerous actions and  *)
(* escalation edges (dangerous_actions.rs, escalation_derivation.rs), tag  *)
(* manipulation (abac.rs), drift between versions of a policy              *)
(* (policy_drift.rs) and federation trusts (federation.rs).                *)
(***************************************************************************)
EXTENDS PolicyEvaluation, Sequences

CONSTANTS
    Registry,           \* config/dangerous-actions.yaml
    PassRole,           \* the action iam:PassRole
    IamAll,             \* the pattern iam:*
    DriftActions,       \* the actions that is_dangerous_action lists
    TagActions          \* TAG_MANIPULATION_ACTIONS

ASSUME RegistryAssumption ==
    \A d \in Registry : d.tier \in 1..3 /\ d.combo \in BOOLEAN /\ d.passes \in BOOLEAN

-----------------------------------------------------------------------------
(* Escalation *)

HasAction(permissions, action) == \E p \in permissions : PrefixMatches(p[1], action)

\* detect_dangerous_actions: a combo needs all its actions, anything else one.  Whoever has
\* the permission `*` is matched with everything.
Detected(permissions) ==
    IF \E p \in permissions : p[1] = AnyWord
    THEN Registry
    ELSE {d \in Registry :
            IF d.combo
            THEN \A action \in d.actions : HasAction(permissions, action)
            ELSE \E action \in d.actions : HasAction(permissions, action)}

\* The roles that PassRole is granted for, under its own name only.
PassRoleTargets(permissions) == {p[2] : p \in {q \in permissions : q[1] = PassRole}}

\* derive_escalation_edges.  d.passes: the id starts with "pass-role".
EscalationEdges(principal, permissions) ==
    {[from |-> principal, to |-> principal, reason |-> d.id] :
        d \in {e \in Detected(permissions) : e.tier = 1 /\ ~e.combo}}
    \cup
    {[from |-> principal, to |-> role, reason |-> d.id] :
        d \in {e \in Detected(permissions) : e.passes /\ (e.combo \/ e.id = "pass-role")},
        role \in PassRoleTargets(permissions)}

-----------------------------------------------------------------------------
(* Tags *)

TagKinds == {"aws:PrincipalTag", "aws:ResourceTag", "aws:RequestTag"}

\* extract_tag_dependencies: keys are compared in lower case.
TagDependencies(statements) ==
    {[kind |-> c.key.kind, tag |-> Lower(c.key.tag)] :
        c \in {d \in UNION {s.conditions : s \in statements} : d.key.kind \in TagKinds}}

\* A statement about the action with a condition on the request's tags, be it Allow or Deny.
Guards(stmt, action) ==
    /\ \E p \in stmt.actions : ActionMatches(p, action)
    /\ \E c \in stmt.conditions : c.key.kind = "aws:RequestTag"

\* detect_unguarded_tag_manipulation
Unguarded(actions, statements) ==
    {t \in TagActions :
        /\ \E a \in actions : ActionMatches(a, t)
        /\ ~ \E s \in statements : Guards(s, t)}

\* analyze_tag_manipulation_risk; the level Critical is never given.
TagRisk(actions, statements) ==
    LET unguarded == Unguarded(actions, statements)
        depends   == TagDependencies(statements)
    IN  [canSelfTag |-> unguarded # {},
         dependsOn |-> {d.tag : d \in depends},
         exploitable |-> IF unguarded = {} THEN {}
                         ELSE {d.tag : d \in {e \in depends : e.kind # "aws:RequestTag"}},
         level |-> IF unguarded = {} THEN "None" ELSE IF depends = {} THEN "Medium" ELSE "High"]

-----------------------------------------------------------------------------
(* Drift *)

\* PermissionSet::from_policy: the pairs that Allow statements spell; a statement with
\* NotAction or NotResource has none, and Deny is passed over.
PermissionSet(policy) ==
    UNION {s.actions \X s.resources : s \in {t \in policy : t.effect = "Allow"}}

\* is_dangerous_action
IsDangerous(action) ==
    \/ Lower(action) \in {AnyWord, Lower(IamAll)}
    \/ \E d \in DriftActions : ActionMatches(d, action)

Severity(added, removed) ==
    IF \E pair \in added : IsDangerous(pair[1])
    THEN IF \E pair \in added : pair[1] \in {AnyWord, IamAll} THEN "Critical" ELSE "High"
    ELSE IF added # {} THEN "Medium" ELSE IF removed # {} THEN "Low" ELSE "None"

\* diff_policies
Diff(from, to) ==
    LET added   == PermissionSet(to) \ PermissionSet(from)
        removed == PermissionSet(from) \ PermissionSet(to)
    IN  [actionsAdded |-> {pair[1] : pair \in added},
         actionsRemoved |-> {pair[1] : pair \in removed},
         resourcesAdded |-> {pair[2] : pair \in added},
         resourcesRemoved |-> {pair[2] : pair \in removed},
         expanded |-> added # {},
         severity |-> Severity(added, removed)]

\* Mutant: the versions are compared in the order they came in.
UnsortedHistory(versions) ==
    [i \in 1..Len(versions) - 1 |-> Diff(versions[i].policy, versions[i + 1].policy)]

\* analyze_version_history: versions are put in order of creation first; no two are created at once.
VersionHistory(versions) ==
    LET sorted == CHOOSE s \in [DOMAIN versions -> Range(versions)] :
                      /\ Range(s) = Range(versions)
                      /\ \A i, j \in DOMAIN s : i < j => s[i].created < s[j].created
    IN  [i \in 1..Len(versions) - 1 |-> Diff(sorted[i].policy, sorted[i + 1].policy)]

\* compute_drift_score: a number of thousandths, to be divided by that of the steps.  It is at
\* most 1 without the clamp, and nothing without steps.
DriftScore(diffs) ==
    LET Count(Test(_)) == Cardinality({i \in DOMAIN diffs : Test(diffs[i])})
    IN  [thousandths |-> 700 * Count(LAMBDA d : d.expanded)
                           + 300 * Count(LAMBDA d : d.severity = "Critical")
                           + 150 * Count(LAMBDA d : d.severity = "High"),
         steps |-> Len(diffs)]

-----------------------------------------------------------------------------
(* Federation *)

Federated(text) == text.spelt \in {"saml", "oidc"}

\* extract_federation_principals: of an object only the key Federated counts.
FederatedIn(value) ==
    {text \in (IF value.is = "object"
               THEN IF "Federated" \in DOMAIN value.keys THEN Items(value.keys["Federated"]) ELSE {}
               ELSE Items(value)) : Federated(text)}

\* Mutant: a condition whose values cannot be read is kept.
UnreadConditions(raw) ==
    {c \in raw.conditions : raw.condition = "block" /\ c.key.kind \in {"aud", "sub", "oid", "namequalifier"}}

\* extract_federation_conditions: whatever is malformed is passed over.
FederationConditions(raw) ==
    {c \in raw.conditions :
        /\ raw.condition = "block" /\ c.operator # "other"
        /\ c.key.kind \in {"aud", "sub", "oid", "namequalifier"}
        /\ Items(c.values) # {}}

\* detect_weakness
Weakness(conditions) ==
    LET audience == \E c \in conditions : c.key.kind = "aud"
        subject  == \E c \in conditions : c.key.kind \in {"sub", "namequalifier"}
    IN  IF conditions = {} THEN "NoConditions"
        ELSE CASE ~audience /\ ~subject -> "MissingAudienceAndSubject"
               [] ~audience /\ subject -> "MissingAudience"
               [] audience /\ ~subject -> "MissingSubject"
               [] OTHER -> "none"

\* extract_federation_trusts: an Effect that is missing counts as Allow.
FederationTrusts(document, role) ==
    UNION {{[provider |-> text, role |-> role, weakness |-> Weakness(FederationConditions(raw))] :
               text \in FederatedIn(raw.principal)} :
             raw \in {s \in document.statements : s.effect \in {"Allow", "absent"}}}

\* find_weak_federation_trusts: one trust policy that cannot be read fails the whole analysis.
\* The result is the set of the answer, or empty on an error.
WeakTrusts(documents) ==
    IF \E role \in DOMAIN documents : documents[role].form = "other"
    THEN {}
    ELSE {{t \in UNION {FederationTrusts(documents[role], role) : role \in DOMAIN documents} :
             t.weakness # "none"}}
=============================================================================
