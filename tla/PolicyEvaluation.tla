-------------------------- MODULE PolicyEvaluation --------------------------
(***************************************************************************)
(* How activable-iam-engine evaluates parsed policies: conditions, Deny,   *)
(* service control policies, permission boundaries, session policies,      *)
(* effective permissions, and pairs of an identity and a resource policy.  *)
(* A policy is a set of statements, an optional policy a set of at most    *)
(* one policy.  An SCP chain is a sequence of policies, one per level.     *)
(***************************************************************************)
EXTENDS PolicyParser

CONSTANT Cidrs      \* the address blocks that parse, and the addresses in each

\* ipnet: the addresses of a block; a text that does not parse has none.
IpsIn(cidr) == IF cidr \in DOMAIN Cidrs THEN Cidrs[cidr] ELSE {}

-----------------------------------------------------------------------------
(* Conditions *)

\* The default context, and the value that a condition reads; no other key has a value.
NoContext == [region |-> << >>, sourceIp |-> << >>, sourceArn |-> << >>, secure |-> "false"]

ContextValue(key, context) ==
    CASE key.kind = "aws:RequestedRegion" -> context.region
      [] key.kind = "aws:SourceIp" -> context.sourceIp
      [] key.kind = "aws:SourceArn" -> context.sourceArn
      [] key.kind = "aws:SecureTransport" -> <<context.secure>>
      [] OTHER -> << >>

\* evaluate_condition: the operators come in pairs of which one negates the other, apart from
\* the last three.  An operator that is not known holds.  The first value of Null counts; there
\* is one at most.
ConditionHolds(operator, values, actual) ==
    LET Equal == \E v \in values : Lower(v) = Lower(actual)
        Like  == \E v \in values : ActionMatches(v, actual)
        Arn   == \E v \in values : ResourceMatches(v, actual)
        Ip    == \E v \in values : actual \in IpsIn(v)
    IN  CASE operator \in {"StringEquals", "Bool"} -> Equal
          [] operator = "StringNotEquals" -> ~Equal
          [] operator = "StringLike" -> Like
          [] operator = "StringNotLike" -> ~Like
          [] operator = "ArnLike" -> Arn
          [] operator = "ArnNotLike" -> ~Arn
          [] operator = "IpAddress" -> Ip
          [] operator = "NotIpAddress" -> ~Ip
          [] operator = "Null" -> (values = {<<"true">>}) <=> (actual = << >>)
          [] OTHER -> TRUE

ConditionsHold(stmt, context) ==
    \A c \in stmt.conditions :
        ConditionHolds(c.operator, c.values, ContextValue(c.key, context))

-----------------------------------------------------------------------------
(* Statements and the layers of policies *)

\* NotAction goes before Action; a statement with neither concerns every action.
ConcernsAction(stmt, action) ==
    IF stmt.notActions # {}
    THEN ~ \E p \in stmt.notActions : ActionMatches(p, action)
    ELSE stmt.actions = {} \/ \E p \in stmt.actions : ActionMatches(p, action)

ConcernsResource(stmt, resource) ==
    IF stmt.notResources # {}
    THEN ~ \E p \in stmt.notResources : ResourceMatches(p, resource)
    ELSE stmt.resources = {} \/ \E p \in stmt.resources : ResourceMatches(p, resource)

Concerns(stmt, action, resource) ==
    ConcernsAction(stmt, action) /\ ConcernsResource(stmt, resource)

\* evaluate_deny_with_context: some Deny statement applies, with all its conditions.
ExplicitDeny(statements, action, resource, context) ==
    \E stmt \in statements :
        /\ stmt.effect = "Deny"
        /\ Concerns(stmt, action, resource)
        /\ ConditionsHold(stmt, context)

\* evaluate_deny
EvaluateDeny(statements, action, resource) ==
    ExplicitDeny(statements, action, resource, NoContext)

\* statement_slice_allows and the loops of the same shape: some Allow statement concerns the
\* pair.  Deny statements and conditions are passed over.
SliceAllows(statements, action, resource) ==
    \E stmt \in statements : stmt.effect = "Allow" /\ Concerns(stmt, action, resource)

\* Mutant: one level that allows is enough.
SomeLevelAllows(chain, action, resource) ==
    chain = << >> \/ \E i \in DOMAIN chain : SliceAllows(chain[i], action, resource)

\* Every level of the chain has to allow.
ScpAllows(chain, action, resource) ==
    \A i \in DOMAIN chain : SliceAllows(chain[i], action, resource)

\* A boundary without statements is no restriction.
BoundaryAllows(statements, action, resource) ==
    statements = {} \/ SliceAllows(statements, action, resource)

\* evaluate_with_boundary
BoundaryResult(statements, action, resource) ==
    IF statements = {} THEN "NoBoundary"
    ELSE IF BoundaryAllows(statements, action, resource) THEN "Allowed" ELSE "NotInBoundary"

\* A session policy without statements allows nothing.
SessionAllows(session, action, resource) ==
    IF session = {} THEN "Unconstrained"
    ELSE IF \E policy \in session : SliceAllows(policy, action, resource)
         THEN "Allowed" ELSE "Constrained"

-----------------------------------------------------------------------------
(* Effective permissions *)

\* The pairs an Allow statement spells; NotAction and NotResource count as `*`.
Spelt(patterns, notPatterns) ==
    IF patterns # {} THEN patterns ELSE IF notPatterns # {} THEN {AnyWord} ELSE {}

Candidates(statements) ==
    UNION {Spelt(s.actions, s.notActions) \X Spelt(s.resources, s.notResources) :
             s \in {t \in statements : t.effect = "Allow"}}

\* Each pair of patterns is looked up as if it were an action and a resource.  The context and
\* the conditions of the Allow statements are not looked at.
EffectivePermissions(identity, boundary, chain) ==
    {pair \in Candidates(identity) :
        /\ ~EvaluateDeny(identity, pair[1], pair[2])
        /\ ScpAllows(chain, pair[1], pair[2])
        /\ \A policy \in boundary : BoundaryAllows(policy, pair[1], pair[2])}

\* effective_permissions_with_session
WithSession(permissions, session) ==
    IF session = {}
    THEN permissions
    ELSE {pair \in permissions : SessionAllows(session, pair[1], pair[2]) = "Allowed"}

-----------------------------------------------------------------------------
(* Pairs of an identity and a resource policy *)

\* resource_matches of resource_policy_evaluator.rs: a target that matches a NotResource
\* pattern counts as concerned.
PairResource(stmt, resource) ==
    IF stmt.resources # {}
    THEN \E p \in stmt.resources : PrefixMatches(p, resource)
    ELSE stmt.notResources = {} \/ \E p \in stmt.notResources : PrefixMatches(p, resource)

\* stmt_matches_action_and_resource: here Action goes before NotAction, a statement with
\* neither concerns no action, and conditions are passed over.
PairConcerns(stmt, action, resource) ==
    /\ IF stmt.actions # {}
       THEN \E p \in stmt.actions : ActionMatches(p, action)
       ELSE /\ stmt.notActions # {}
            /\ ~ \E p \in stmt.notActions : ActionMatches(p, action)
    /\ PairResource(stmt, resource)

\* has_deny_statement and has_allow_statement; those for a principal do not look at it.
HasStatement(effect, statements, action, resource) ==
    \E stmt \in statements : stmt.effect = effect /\ PairConcerns(stmt, action, resource)

\* evaluate_resource_policy_pair
PairDecision(action, resource, identity, resourcePolicy, sameAccount) ==
    LET Identity(effect) == HasStatement(effect, identity, action, resource)
        Resource(effect) == \E p \in resourcePolicy : HasStatement(effect, p, action, resource)
    IN  IF Identity("Deny") \/ Resource("Deny")
        THEN "Deny"
        ELSE IF \/ Identity("Allow") /\ Resource("Allow")
                \/ sameAccount /\ (Identity("Allow") \/ Resource("Allow"))
             THEN "Allow"
             ELSE "ImplicitDeny"
=============================================================================
