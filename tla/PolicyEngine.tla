---------------------------- MODULE PolicyEngine ----------------------------
(***************************************************************************)
(* The policies about one principal, as they are edited, and what the      *)
(* engine answers about them after each edit.  An edit hands a document to *)
(* a parser; a document that the parser rejects changes nothing.  The      *)
(* engine keeps no state of its own: the variables are the arguments that  *)
(* its caller passes.                                                      *)
(***************************************************************************)
EXTENDS PolicyFindings

CONSTANTS
    IdentityDocs, GuardDocs, SessionDocs, ResourceDocs, TrustDocs,
    Roles,          \* roles with trust policies
    Principal,      \* the principal
    Requests,       \* pairs of an action and a resource without wildcards
    MaxLevels,      \* bound on the SCP chain
    MaxVersions,    \* bound on the versions of the identity policy
    MaxEdits        \* bound on the edits

ASSUME BoundsAssumption == MaxLevels \in Nat /\ MaxVersions \in Nat /\ MaxEdits \in Nat

Words == Seq(STRING)

\* Patterns, actions and resources are words.
ASSUME WordsAssumption ==
    /\ Requests \subseteq Words \X Words
    /\ \A document \in IdentityDocs \cup GuardDocs \cup SessionDocs : \A raw \in document.statements :
          UNION {Items(value) : value \in {raw.action, raw.notAction, raw.resource, raw.notResource}}
            \subseteq Words

VARIABLES
    versions,       \* of the identity policy, newest first, as AWS lists them
    chain,          \* the SCP chain
    boundary,
    session,
    resourcePolicy,
    trusts,         \* the trust policy of each role
    edits

vars == <<versions, chain, boundary, session, resourcePolicy, trusts, edits>>

Identity == IF versions = << >> THEN {} ELSE Head(versions).policy

\* What the engine answers.
Base == EffectivePermissions(Identity, boundary, chain)

Effective == WithSession(Base, session)

Edges == EscalationEdges(Principal, Effective)

TagActionsLeft == Unguarded({pair[1] : pair \in Effective}, Identity)

TagRiskLeft == TagRisk({pair[1] : pair \in Effective}, Identity)

Init ==
    /\ versions = << >>
    /\ chain = << >>
    /\ boundary = {} /\ session = {} /\ resourcePolicy = {}
    /\ trusts = [role \in Roles |-> [form |-> "policy", statements |-> {}]]
    /\ edits = 0

Edit == edits < MaxEdits /\ edits' = edits + 1

PutVersion(document) ==
    /\ Edit
    /\ Len(versions) < MaxVersions
    /\ \E policy \in ParsePolicy(document) :
          versions' = <<[created |-> edits, policy |-> policy]>> \o versions
    /\ UNCHANGED <<chain, boundary, session, resourcePolicy, trusts>>

AttachScp(document) ==
    /\ Edit
    /\ Len(chain) < MaxLevels
    /\ \E policy \in ParsePolicy(document) : chain' = Append(chain, policy)
    /\ UNCHANGED <<versions, boundary, session, resourcePolicy, trusts>>

SetBoundary(document) ==
    /\ Edit
    /\ ParsePolicy(document) # {}
    /\ boundary' = ParsePolicy(document)
    /\ UNCHANGED <<versions, chain, session, resourcePolicy, trusts>>

AssumeRole(document) ==
    /\ Edit
    /\ ParsePolicy(document) # {}
    /\ session' = ParsePolicy(document)
    /\ UNCHANGED <<versions, chain, boundary, resourcePolicy, trusts>>

PutResourcePolicy(document) ==
    /\ Edit
    /\ ParseResourcePolicy(document) # {}
    /\ resourcePolicy' = {parsed.statements : parsed \in ParseResourcePolicy(document)}
    /\ UNCHANGED <<versions, chain, boundary, session, trusts>>

\* A trust policy is kept as it is spelt: federation.rs reads it without the parser.
PutTrust(role, document) ==
    /\ Edit
    /\ trusts' = [trusts EXCEPT ![role] = document]
    /\ UNCHANGED <<versions, chain, boundary, session, resourcePolicy>>

Next ==
    \/ \E document \in IdentityDocs : PutVersion(document)
    \/ \E document \in GuardDocs : AttachScp(document) \/ SetBoundary(document)
    \/ \E document \in SessionDocs : AssumeRole(document)
    \/ \E document \in ResourceDocs : PutResourcePolicy(document)
    \/ \E role \in Roles, document \in TrustDocs : PutTrust(role, document)

Spec == Init /\ [][Next]_vars

-----------------------------------------------------------------------------
(* Properties *)

\* The reference: what a statement says of a request, by what its patterns denote.
DenotesAction(stmt, action) ==
    IF stmt.notActions = {}
    THEN \E p \in stmt.actions : Denotes(Lower(p), Lower(action))
    ELSE \A p \in stmt.notActions : ~Denotes(Lower(p), Lower(action))

DenotesResource(stmt, resource) ==
    IF stmt.notResources = {}
    THEN \E p \in stmt.resources : Denotes(p, resource)
    ELSE \A p \in stmt.notResources : ~Denotes(p, resource)

Says(effect, policy, request) ==
    \E s \in policy :
        /\ s.effect = effect
        /\ DenotesAction(s, request[1]) /\ DenotesResource(s, request[2])
        /\ effect = "Deny" => ConditionsHold(s, NoContext)

Authorized(request) ==
    /\ ~Says("Deny", Identity, request)
    /\ \A i \in DOMAIN chain : Says("Allow", chain[i], request)
    /\ \A policy \in boundary : policy # {} => Says("Allow", policy, request)
    /\ \A policy \in session : Says("Allow", policy, request)

\* A request that an identity policy spells out without wildcards is an effective permission
\* exactly when no Deny denotes it and every SCP level, the boundary and the session policy
\* have an Allow that denotes it, however they spell that (the matchers, the parser and the
\* four layers of effective_permissions and session_policy together).  What the boundary's own
\* result keeps out is not effective.
EffectiveExact ==
    \A request \in Requests \cap Candidates(Identity) :
        /\ request \in Effective <=> Authorized(request)
        /\ (\E policy \in boundary : BoundaryResult(policy, request[1], request[2]) = "NotInBoundary")
              => request \notin Effective

\* One set of arguments is tighter than another: it has more Deny statements, more SCP levels,
\* a boundary or a session policy where the other has none.
Tightens ==
    /\ Identity \subseteq Identity'
    /\ \A s \in Identity' \ Identity : s.effect = "Deny"
    /\ \A i \in DOMAIN chain : i \in DOMAIN chain' /\ chain'[i] = chain[i]
    /\ boundary # {} => boundary' = boundary
    /\ session # {} => session' = session

\* A guardrail that is added, of whatever kind and spelt however, takes permissions away and
\* gives none: no effective permission, no escalation edge no unguarded tag action and
\* no tag risk is there after the edit that was not there before.  The lookup of patterns as if they were
\* actions is monotone although it is not exact.
GuardrailsOnlyNarrow ==
    [][Tightens =>
         /\ Effective' \subseteq Effective
         /\ Edges' \subseteq Edges
         /\ TagActionsLeft' \subseteq TagActionsLeft
         /\ TagRiskLeft.level = "None" => TagRiskLeft'.level = "None"]_vars

\* Whatever the order the versions arrive in, their history explains the current policy: each
\* action it spells is in the oldest version or added by some step, each that is gone was
\* removed by some step, and the score is zero only when no step expanded anything.
HistoryExplains ==
    versions # << >> =>
        LET diffs   == VersionHistory(versions)
            Spells(version) == {pair[1] : pair \in PermissionSet(version.policy)}
            oldest  == Spells(versions[Len(versions)])
            newest  == Spells(Head(versions))
            Steps(Changed(_)) == UNION {Changed(diffs[i]) : i \in DOMAIN diffs}
        IN  /\ newest \ oldest \subseteq Steps(LAMBDA d : d.actionsAdded)
            /\ oldest \ newest \subseteq Steps(LAMBDA d : d.actionsRemoved)
            /\ DriftScore(diffs).thousandths = 0 <=> \A i \in DOMAIN diffs : ~diffs[i].expanded

\* A role whose trust policy lets in an identity provider without a readable condition on the
\* audience is among the weak trusts, when the analysis answers at all (find_weak_federation_trusts).
WeakTrustsFound ==
    \A weak \in WeakTrusts(trusts), role \in Roles :
        \A s \in trusts[role].statements :
            (/\ s.effect \in {"Allow", "absent"}
             /\ s.condition = "block" =>
                   ~ \E c \in s.conditions :
                        c.key.kind = "aud" /\ c.operator # "other" /\ Items(c.values) # {})
                => \A text \in FederatedIn(s.principal) :
                      \E t \in weak : t.role = role /\ t.provider = text

\* The two evaluators of one crate agree on what an identity policy denies outright
\* (resource_policy_evaluator.rs:7, "Explicit Deny always wins (in either policy type)").
EvaluatorsAgree ==
    \A request \in Requests :
        EvaluateDeny(Identity, request[1], request[2])
            => PairDecision(request[1], request[2], Identity, resourcePolicy, TRUE) = "Deny"
=============================================================================
