-------------------------- MODULE IamEngineProofs --------------------------
(***************************************************************************)
(* The two halves of activable-iam-engine that answer questions over time: *)
(* the evaluation of policies as they are edited, and the analysis of      *)
(* CloudTrail as batches arrive.  They share no state.                     *)
(***************************************************************************)
EXTENDS PolicyEngine, AuditTrail, FiniteSetTheorems, SequenceTheorems, WellFoundedInduction, TLAPS

-----------------------------------------------------------------------------
(* The layers *)

\* Deny statements that are added leave the candidates as they are (effective_permissions.rs:40).
LEMMA DenyAddsNoCandidate ==
    ASSUME NEW few, NEW many,
           few \subseteq many,
           \A s \in many \ few : s.effect = "Deny"
    PROVE  Candidates(many) = Candidates(few)
<1>1. {t \in many : t.effect = "Allow"} = {t \in few : t.effect = "Allow"}
  OBVIOUS
<1>2. QED  BY <1>1 DEF Candidates

\* What few statements deny, more statements deny (deny_engine.rs:51).
LEMMA DenyGrows ==
    ASSUME NEW few, NEW many, NEW action, NEW resource,
           few \subseteq many,
           EvaluateDeny(few, action, resource)
    PROVE  EvaluateDeny(many, action, resource)
BY DEF EvaluateDeny, ExplicitDeny

\* A chain with more levels allows no more (scp_evaluator.rs:25).
LEMMA LevelsNarrow ==
    ASSUME NEW short, NEW long, NEW action, NEW resource,
           \A i \in DOMAIN short : i \in DOMAIN long /\ long[i] = short[i],
           ScpAllows(long, action, resource)
    PROVE  ScpAllows(short, action, resource)
BY DEF ScpAllows

\* The four layers together (effective_permissions.rs:32, session_policy.rs:145).
LEMMA TighterNarrows ==
    ASSUME NEW few, NEW many, NEW short, NEW long,
           NEW bound1, NEW bound2, NEW session1, NEW session2,
           few \subseteq many,
           \A s \in many \ few : s.effect = "Deny",
           \A i \in DOMAIN short : i \in DOMAIN long /\ long[i] = short[i],
           bound1 # {} => bound2 = bound1,
           session1 # {} => session2 = session1
    PROVE  WithSession(EffectivePermissions(many, bound2, long), session2)
             \subseteq WithSession(EffectivePermissions(few, bound1, short), session1)
<1>1. EffectivePermissions(many, bound2, long) \subseteq EffectivePermissions(few, bound1, short)
  <2> SUFFICES ASSUME NEW pair \in EffectivePermissions(many, bound2, long)
               PROVE  pair \in EffectivePermissions(few, bound1, short)
    OBVIOUS
  <2>1. /\ pair \in Candidates(many)
        /\ ~EvaluateDeny(many, pair[1], pair[2])
        /\ ScpAllows(long, pair[1], pair[2])
        /\ \A policy \in bound2 : BoundaryAllows(policy, pair[1], pair[2])
    BY DEF EffectivePermissions
  <2>2. pair \in Candidates(few)
    BY <2>1, DenyAddsNoCandidate
  <2>3. ~EvaluateDeny(few, pair[1], pair[2])
    BY <2>1, DenyGrows
  <2>4. ScpAllows(short, pair[1], pair[2])
    BY <2>1, LevelsNarrow
  <2>5. \A policy \in bound1 : BoundaryAllows(policy, pair[1], pair[2])
    BY <2>1
  <2>6. QED  BY <2>2, <2>3, <2>4, <2>5 DEF EffectivePermissions
<1>2. CASE session1 = {}
  BY <1>1, <1>2 DEF WithSession
<1>3. CASE session1 # {}
  BY <1>1, <1>3 DEF WithSession
<1>4. QED  BY <1>2, <1>3

-----------------------------------------------------------------------------
(* What is derived from permissions *)

\* Fewer permissions are matched with fewer dangers (dangerous_actions.rs:87).
LEMMA DetectedGrows ==
    ASSUME NEW less, NEW more, less \subseteq more
    PROVE  Detected(less) \subseteq Detected(more)
<1>1. \A action : HasAction(less, action) => HasAction(more, action)
  BY DEF HasAction
<1>2. Detected(less) \subseteq Registry
  BY DEF Detected
<1>3. CASE \E p \in more : p[1] = AnyWord
  BY <1>2, <1>3 DEF Detected
<1>4. CASE ~ \E p \in more : p[1] = AnyWord
  <2>1. ~ \E p \in less : p[1] = AnyWord
    BY <1>4
  <2>2. QED  BY <1>1, <1>4, <2>1 DEF Detected
<1>5. QED  BY <1>3, <1>4

\* Fewer permissions have fewer escalation edges (escalation_derivation.rs:34).
LEMMA EdgesGrow ==
    ASSUME NEW principal, NEW less, NEW more, less \subseteq more
    PROVE  EscalationEdges(principal, less) \subseteq EscalationEdges(principal, more)
<1>1. Detected(less) \subseteq Detected(more)
  BY DetectedGrows
<1>2. PassRoleTargets(less) \subseteq PassRoleTargets(more)
  BY DEF PassRoleTargets
<1>3. {e \in Detected(less) : e.tier = 1 /\ ~e.combo} \subseteq {e \in Detected(more) : e.tier = 1 /\ ~e.combo}
  BY <1>1
<1>4. {e \in Detected(less) : e.passes /\ (e.combo \/ e.id = "pass-role")}
        \subseteq {e \in Detected(more) : e.passes /\ (e.combo \/ e.id = "pass-role")}
  BY <1>1
<1>5. QED  BY <1>2, <1>3, <1>4 DEF EscalationEdges

\* Fewer actions under more statements have fewer unguarded tag actions (abac.rs:130).
LEMMA UnguardedShrinks ==
    ASSUME NEW less, NEW more, NEW few, NEW many, less \subseteq more, few \subseteq many
    PROVE  Unguarded(less, many) \subseteq Unguarded(more, few)
BY DEF Unguarded

-----------------------------------------------------------------------------

\* For any alphabet, documents and registry, whatever guardrail an edit adds, the edit gives no
\* effective permission, no escalation edge and no unguarded tag action.
THEOREM GuardrailsNarrow == Spec => GuardrailsOnlyNarrow
<1>1. ASSUME Tightens
      PROVE  /\ Effective' \subseteq Effective
             /\ Edges' \subseteq Edges
             /\ TagActionsLeft' \subseteq TagActionsLeft
             /\ TagRiskLeft.level = "None" => TagRiskLeft'.level = "None"
  <2>1. Effective' \subseteq Effective
    <3> DEFINE few == Identity
               many == Identity'
    <3>1. /\ few \subseteq many
          /\ \A s \in many \ few : s.effect = "Deny"
          /\ \A i \in DOMAIN chain : i \in DOMAIN chain' /\ chain'[i] = chain[i]
          /\ boundary # {} => boundary' = boundary
          /\ session # {} => session' = session
      BY <1>1 DEF Tightens
    <3> HIDE DEF few, many
    <3>2. WithSession(EffectivePermissions(many, boundary', chain'), session')
            \subseteq WithSession(EffectivePermissions(few, boundary, chain), session)
      BY <3>1, TighterNarrows
    <3>3. QED  BY <3>2 DEF Effective, Base, few, many
  <2>2. Edges' \subseteq Edges
    BY <2>1, EdgesGrow DEF Edges
  <2>3. TagActionsLeft' \subseteq TagActionsLeft
    <3>1. {pair[1] : pair \in Effective'} \subseteq {pair[1] : pair \in Effective}
      BY <2>1
    <3>2. Identity \subseteq Identity'
      BY <1>1 DEF Tightens
    <3>3. QED  BY <3>1, <3>2, UnguardedShrinks DEF TagActionsLeft
  <2>4. TagRiskLeft.level = "None" => TagRiskLeft'.level = "None"
    <3>1. (TagRiskLeft.level = "None") <=> (TagActionsLeft = {})
      BY DEF TagRiskLeft, TagActionsLeft, TagRisk
    <3>2. (TagRiskLeft'.level = "None") <=> (TagActionsLeft' = {})
      BY DEF TagRiskLeft, TagActionsLeft, TagRisk
    <3>3. QED  BY <3>1, <3>2, <2>3
  <2>5. QED  BY <2>1, <2>2, <2>3, <2>4
<1>2. QED  BY <1>1, PTL DEF GuardrailsOnlyNarrow

-----------------------------------------------------------------------------
(* Trust policies *)

\* A statement without a readable audience condition is weak (federation.rs:229, federation.rs:272).
LEMMA NoAudienceIsWeak ==
    ASSUME NEW raw,
           raw.condition = "block" =>
               ~ \E c \in raw.conditions :
                    c.key.kind = "aud" /\ c.operator # "other" /\ Items(c.values) # {}
    PROVE  Weakness(FederationConditions(raw)) # "none"
<1> DEFINE found == FederationConditions(raw)
<1>1. ~ \E c \in found : c.key.kind = "aud"
  BY DEF FederationConditions
<1> HIDE DEF found
<1>2. Weakness(found) \in {"NoConditions", "MissingAudienceAndSubject", "MissingAudience"}
  BY <1>1 DEF Weakness
<1>3. QED  BY <1>2 DEF found

\* Every role has a trust policy.
TrustsOfRoles == DOMAIN trusts = Roles

\* The invariant, from the initial state on.
LEMMA TrustsKept == Spec => []TrustsOfRoles
<1>1. Init => TrustsOfRoles
  BY DEF Init, TrustsOfRoles
<1>2. TrustsOfRoles /\ [Next]_vars => TrustsOfRoles'
  BY DEF TrustsOfRoles, Next, vars, PutVersion, AttachScp, SetBoundary, AssumeRole,
         PutResourcePolicy, PutTrust
<1>3. QED  BY <1>1, <1>2, PTL DEF Spec

\* For any trust policies, the analysis that answers leaves out no provider that a role lets in
\* without a condition on the audience.
THEOREM WeakTrustsAlwaysFound == Spec => []WeakTrustsFound
<1>1. TrustsOfRoles => WeakTrustsFound
  <2> SUFFICES ASSUME TrustsOfRoles,
                      NEW weak \in WeakTrusts(trusts), NEW role \in Roles,
                      NEW s \in trusts[role].statements,
                      s.effect \in {"Allow", "absent"},
                      s.condition = "block" =>
                          ~ \E c \in s.conditions :
                               c.key.kind = "aud" /\ c.operator # "other" /\ Items(c.values) # {},
                      NEW text \in FederatedIn(s.principal)
               PROVE  \E t \in weak : t.role = role /\ t.provider = text
    BY DEF WeakTrustsFound
  <2> DEFINE trust == [provider |-> text, role |-> role, weakness |-> Weakness(FederationConditions(s))]
  <2>1. trust \in FederationTrusts(trusts[role], role)
    BY DEF FederationTrusts
  <2>2. trust \in UNION {FederationTrusts(trusts[r], r) : r \in DOMAIN trusts}
    BY <2>1 DEF TrustsOfRoles
  <2>3. trust.weakness # "none"
    BY NoAudienceIsWeak
  <2>4. weak = {t \in UNION {FederationTrusts(trusts[r], r) : r \in DOMAIN trusts} : t.weakness # "none"}
    BY DEF WeakTrusts
  <2>5. trust \in weak
    BY <2>2, <2>3, <2>4
  <2>6. QED  BY <2>5
<1>2. QED  BY <1>1, TrustsKept, PTL

-----------------------------------------------------------------------------
(* What patterns denote *)

\* A set of numbers has a least one: induction is by the least number that is an exception.
LEMMA Least ==
    ASSUME NEW T \in SUBSET Nat, T # {}
    PROVE  \E n \in T : \A m \in T : n =< m
<1>1. PICK n \in T : \A m \in T : ~ (<<m, n>> \in OpToRel(<, Nat))
  BY NatLessThanWellFounded, WFMin
<1>2. \A m \in T : ~ (m < n)
  BY <1>1 DEF OpToRel
<1> QED
  BY <1>2

\* A cut of the text from its character t on, for the pattern from its character p on.
CutsFrom(pattern, text, p, t) ==
    {cut \in [p - 1..Len(pattern) -> 0..Len(text)] :
        /\ cut[p - 1] = t - 1
        /\ cut[Len(pattern)] = Len(text)
        /\ \A i \in p..Len(pattern) :
              IF pattern[i] = "*"
              THEN cut[i - 1] <= cut[i]
              ELSE /\ cut[i] = cut[i - 1] + 1
                   /\ pattern[i] \in {"?", text[cut[i]]}}

\* The characters of the text from which there is one.
Cut(pattern, text, p) == {t \in 1..Len(text) + 1 : CutsFrom(pattern, text, p, t) # {}}

\* A cut without its first piece is a cut for the rest of the pattern.
LEMMA CutTail ==
    ASSUME NEW C, NEW pattern \in Seq(C), NEW text \in Seq(C), NEW p \in 1..Len(pattern),
           NEW t \in 1..Len(text) + 1, NEW cut \in CutsFrom(pattern, text, p, t)
    PROVE  /\ cut[p] + 1 \in 1..Len(text) + 1
           /\ CutsFrom(pattern, text, p + 1, cut[p] + 1) # {}
           /\ IF pattern[p] = "*" THEN t <= cut[p] + 1
              ELSE cut[p] = t /\ pattern[p] \in {"?", text[t]}
<1> DEFINE L == Len(pattern)
           M == Len(text)
           rest == [i \in p..L |-> cut[i]]
<1>1. L \in Nat /\ M \in Nat
  OBVIOUS
<1> HIDE DEF L, M
<1>2. /\ cut \in [p - 1..L -> 0..M] /\ cut[p - 1] = t - 1 /\ cut[L] = M
      /\ \A i \in p..L : IF pattern[i] = "*" THEN cut[i - 1] <= cut[i]
                         ELSE /\ cut[i] = cut[i - 1] + 1
                              /\ pattern[i] \in {"?", text[cut[i]]}
  BY DEF CutsFrom, L, M
<1>3. p \in Int /\ p <= L /\ 1 <= p /\ t \in Int
  BY <1>1 DEF L, M
<1>4. cut[p] \in 0..M /\ p \in p..L /\ L \in p..L
  BY <1>1, <1>2, <1>3
<1>5. rest \in [p..L -> 0..M]
  BY <1>1, <1>2, <1>3
<1>6. /\ rest[p] = cut[p] /\ rest[L] = M
      /\ \A i \in p + 1..L : rest[i] = cut[i] /\ rest[i - 1] = cut[i - 1] /\ i \in p..L
  BY <1>1, <1>2, <1>3
<1> HIDE DEF rest
<1>7. rest \in CutsFrom(pattern, text, p + 1, cut[p] + 1)
  <2>1. (p + 1) - 1 = p /\ (cut[p] + 1) - 1 = cut[p]
    BY <1>3, <1>4
  <2> QED
    BY <1>2, <1>5, <1>6, <2>1 DEF CutsFrom, L, M
<1> QED
  BY <1>1, <1>2, <1>3, <1>4, <1>7 DEF M

\* And a first piece that fits makes a cut for the rest of the pattern longer.
LEMMA CutHead ==
    ASSUME NEW C, NEW pattern \in Seq(C), NEW text \in Seq(C), NEW p \in 1..Len(pattern),
           NEW t \in 1..Len(text) + 1, NEW next \in 1..Len(text) + 1,
           CutsFrom(pattern, text, p + 1, next) # {},
           IF pattern[p] = "*" THEN t <= next ELSE next = t + 1 /\ pattern[p] \in {"?", text[t]}
    PROVE  CutsFrom(pattern, text, p, t) # {}
<1> DEFINE L == Len(pattern)
           M == Len(text)
<1>1. L \in Nat /\ M \in Nat
  OBVIOUS
<1> HIDE DEF L, M
<1>2. p \in Int /\ p <= L /\ 1 <= p /\ t \in 1..M + 1 /\ next \in 1..M + 1
  BY <1>1 DEF L, M
<1>3. PICK rest : rest \in CutsFrom(pattern, text, p + 1, next)
  OBVIOUS
<1> DEFINE cut == [i \in p - 1..L |-> IF i = p - 1 THEN t - 1 ELSE rest[i]]
<1>4. /\ rest \in [p..L -> 0..M] /\ rest[p] = next - 1 /\ rest[L] = M
      /\ \A i \in p + 1..L : IF pattern[i] = "*" THEN rest[i - 1] <= rest[i]
                             ELSE /\ rest[i] = rest[i - 1] + 1
                                  /\ pattern[i] \in {"?", text[rest[i]]}
  <2>1. (p + 1) - 1 = p
    BY <1>2
  <2> QED
    BY <1>3, <2>1 DEF CutsFrom, L, M
<1>5. cut \in [p - 1..L -> 0..M]
  BY <1>1, <1>2, <1>4
<1>6. /\ cut[p - 1] = t - 1 /\ cut[L] = M /\ cut[p] = next - 1
      /\ \A i \in p + 1..L : cut[i] = rest[i] /\ cut[i - 1] = rest[i - 1]
  BY <1>1, <1>2, <1>4
<1> HIDE DEF cut
<1>7. \A i \in p..L : IF pattern[i] = "*" THEN cut[i - 1] <= cut[i]
                      ELSE /\ cut[i] = cut[i - 1] + 1
                           /\ pattern[i] \in {"?", text[cut[i]]}
  <2> SUFFICES ASSUME NEW i \in p..L
               PROVE  IF pattern[i] = "*" THEN cut[i - 1] <= cut[i]
                      ELSE /\ cut[i] = cut[i - 1] + 1
                           /\ pattern[i] \in {"?", text[cut[i]]}
    OBVIOUS
  <2>1. CASE i = p
    BY <1>2, <1>6, <2>1
  <2>2. CASE i # p
    <3>1. i \in p + 1..L
      BY <1>1, <1>2, <2>2
    <3> QED
      BY <1>4, <1>6, <3>1
  <2> QED
    BY <2>1, <2>2
<1>8. cut \in CutsFrom(pattern, text, p, t)
  BY <1>5, <1>6, <1>7 DEF CutsFrom, L, M
<1> QED
  BY <1>8

\* At the end of the pattern only the end of the text is left.
LEMMA CutEnd ==
    ASSUME NEW C, NEW pattern \in Seq(C), NEW text \in Seq(C), NEW t \in 1..Len(text) + 1
    PROVE  CutsFrom(pattern, text, Len(pattern) + 1, t) # {} <=> t > Len(text)
<1> DEFINE L == Len(pattern)
           M == Len(text)
<1>1. L \in Nat /\ M \in Nat /\ (L + 1) - 1 = L
  OBVIOUS
<1>2. ASSUME NEW cut \in CutsFrom(pattern, text, L + 1, t) PROVE t > M
  <2>1. cut[L] = t - 1 /\ cut[L] = M
    BY <1>1, <1>2 DEF CutsFrom
  <2> QED
    BY <1>1, <2>1
<1>3. ASSUME t > M PROVE CutsFrom(pattern, text, L + 1, t) # {}
  <2> DEFINE cut == [i \in L..L |-> M]
  <2>1. cut \in [L..L -> 0..M] /\ cut[L] = M /\ t - 1 = M
    BY <1>1, <1>3
  <2>2. ~ \E i \in L + 1..L : TRUE
    BY <1>1
  <2>3. cut \in CutsFrom(pattern, text, L + 1, t)
    <3> HIDE DEF cut
    <3> QED
      BY <1>1, <2>1, <2>2 DEF CutsFrom
  <2> QED
    BY <2>3
<1> QED
  BY <1>2, <1>3

\* The characters from which the text can be cut solve the equation of match_recursive.
LEMMA CutsMatch ==
    ASSUME NEW C, NEW pattern \in Seq(C), NEW text \in Seq(C), NEW p \in 1..Len(pattern) + 1
    PROVE  Cut(pattern, text, p) = MatchedFrom(pattern, text, p, Cut(pattern, text, p + 1))
<1> DEFINE L == Len(pattern)
           M == Len(text)
           later == Cut(pattern, text, p + 1)
<1>1. L \in Nat /\ M \in Nat
  OBVIOUS
<1>2. /\ Cut(pattern, text, p) \subseteq 1..M + 1
      /\ MatchedFrom(pattern, text, p, later) \subseteq 1..M + 1
  BY DEF Cut, MatchedFrom
<1>3. SUFFICES ASSUME NEW t \in 1..M + 1
               PROVE  t \in Cut(pattern, text, p) <=> t \in MatchedFrom(pattern, text, p, later)
  BY <1>2
<1>4. CASE p > L
  <2>1. p = L + 1
    BY <1>1, <1>4
  <2> QED
    BY <1>1, <1>3, <1>4, <2>1, CutEnd DEF Cut, MatchedFrom
<1>5. CASE ~ (p > L)
  <2>1. p \in 1..L
    BY <1>1, <1>5
  <2>2. ASSUME t \in Cut(pattern, text, p) PROVE t \in MatchedFrom(pattern, text, p, later)
    <3>1. PICK cut : cut \in CutsFrom(pattern, text, p, t)
      BY <2>2 DEF Cut
    <3>2. /\ cut[p] + 1 \in 1..M + 1
          /\ cut[p] + 1 \in later
          /\ IF pattern[p] = "*" THEN t <= cut[p] + 1
             ELSE cut[p] = t /\ pattern[p] \in {"?", text[t]}
      BY <2>1, <3>1, CutTail DEF Cut
    <3>3. CASE pattern[p] = "*"
      <4>1. cut[p] + 1 \in later /\ cut[p] + 1 >= t
        BY <1>1, <3>2, <3>3
      <4> QED
        BY <1>5, <3>2, <3>3, <4>1 DEF MatchedFrom
    <3>4. CASE pattern[p] # "*"
      <4>1. t + 1 \in 1..M + 1 /\ t + 1 \in later /\ pattern[p] \in {"?", text[t]}
        BY <3>2, <3>4
      <4>2. t <= M
        BY <1>1, <4>1
      <4> QED
        BY <1>5, <3>4, <4>1, <4>2 DEF MatchedFrom
    <3> QED
      BY <3>3, <3>4
  <2>3. ASSUME t \in MatchedFrom(pattern, text, p, later) PROVE t \in Cut(pattern, text, p)
    <3>1. IF pattern[p] = "*"
          THEN p = L \/ \E next \in later : next >= t
          ELSE t <= M /\ pattern[p] \in {"?", text[t]} /\ t + 1 \in later
      BY <1>5, <2>3 DEF MatchedFrom
    <3>2. PICK next \in 1..M + 1 :
            /\ next \in later
            /\ IF pattern[p] = "*" THEN t <= next ELSE next = t + 1 /\ pattern[p] \in {"?", text[t]}
      <4>1. CASE pattern[p] = "*" /\ p = L
        <5>1. M + 1 \in 1..M + 1 /\ M + 1 > M /\ t <= M + 1
          BY <1>1
        <5>2. M + 1 \in later
          BY <4>1, <5>1, CutEnd DEF Cut
        <5> QED
          BY <4>1, <5>1, <5>2
      <4>2. CASE pattern[p] = "*" /\ p # L
        <5>1. PICK next \in later : next >= t
          BY <3>1, <4>2
        <5>2. next \in 1..M + 1 /\ t <= next
          BY <1>1, <5>1 DEF Cut
        <5> QED
          BY <4>2, <5>1, <5>2
      <4>3. CASE pattern[p] # "*"
        <5>1. t + 1 \in 1..M + 1
          BY <1>1, <3>1, <4>3
        <5> QED
          BY <3>1, <4>3, <5>1
      <4> QED
        BY <4>1, <4>2, <4>3
    <3>3. CutsFrom(pattern, text, p + 1, next) # {}
      BY <3>2 DEF Cut
    <3>4. CutsFrom(pattern, text, p, t) # {}
      BY <2>1, <3>2, <3>3, CutHead
    <3> QED
      BY <3>4 DEF Cut
  <2> QED
    BY <2>2, <2>3
<1> QED
  BY <1>4, <1>5

\* And nothing else solves it: the exception nearest to the end of the pattern is none.
LEMMA MatchedOnce ==
    ASSUME NEW C, NEW pattern \in Seq(C), NEW text \in Seq(C), NEW from,
           from = [p \in 1..Len(pattern) + 1 |-> MatchedFrom(pattern, text, p, from[p + 1])]
    PROVE  \A p \in 1..Len(pattern) + 1 : from[p] = Cut(pattern, text, p)
<1> DEFINE L == Len(pattern)
           T == {n \in Nat : n <= L /\ from[L + 1 - n] # Cut(pattern, text, L + 1 - n)}
<1>1. L \in Nat
  OBVIOUS
<1>2. T = {}
  <2> SUFFICES ASSUME T # {} PROVE FALSE
    OBVIOUS
  <2>1. PICK n \in T : \A m \in T : n =< m
    <3> T \in SUBSET Nat
      OBVIOUS
    <3> HIDE DEF T
    <3> QED BY Least
  <2> DEFINE p == L + 1 - n
  <2>2. n \in Nat /\ n <= L /\ p \in 1..L + 1 /\ from[p] # Cut(pattern, text, p)
    BY <1>1, <2>1
  <2>3. from[p] = MatchedFrom(pattern, text, p, from[p + 1])
    BY <2>2
  <2>4. Cut(pattern, text, p) = MatchedFrom(pattern, text, p, Cut(pattern, text, p + 1))
    BY <2>2, CutsMatch
  <2>5. CASE n = 0
    <3>1. p > Len(pattern)
      BY <1>1, <2>5
    <3>2. MatchedFrom(pattern, text, p, from[p + 1])
            = MatchedFrom(pattern, text, p, Cut(pattern, text, p + 1))
      BY <3>1 DEF MatchedFrom
    <3> QED
      BY <2>2, <2>3, <2>4, <3>2
  <2>6. CASE n # 0
    <3>1. n - 1 \in Nat /\ n - 1 <= L /\ L + 1 - (n - 1) = p + 1 /\ ~ (n =< n - 1)
      BY <1>1, <2>2, <2>6
    <3>2. n - 1 \notin T
      <4> HIDE DEF T
      <4> QED  BY <2>1, <3>1
    <3>3. from[p + 1] = Cut(pattern, text, p + 1)
      BY <3>1, <3>2
    <3> QED
      BY <2>2, <2>3, <2>4, <3>3
  <2> QED
    BY <2>5, <2>6
<1> SUFFICES ASSUME NEW p \in 1..L + 1 PROVE from[p] = Cut(pattern, text, p)
  OBVIOUS
<1>3. L + 1 - p \in Nat /\ L + 1 - p <= L /\ L + 1 - (L + 1 - p) = p
  BY <1>1
<1> QED
  BY <1>2, <1>3

\* match_recursive is true of the texts that the pattern denotes, for every pattern and text
\* (action_matcher.rs).
THEOREM WildcardsExact ==
    ASSUME NEW C, NEW pattern \in Seq(C), NEW text \in Seq(C)
    PROVE  WildcardMatch(pattern, text) <=> Denotes(pattern, text)
<1> DEFINE L == Len(pattern)
           Eq(from) == [p \in 1..L + 1 |-> MatchedFrom(pattern, text, p, from[p + 1])]
           from == CHOOSE k : k = Eq(k)
           cuts == [p \in 1..L + 1 |-> Cut(pattern, text, p)]
<1>1. L \in Nat /\ 1 \in 1..L + 1 /\ 1 \in 1..Len(text) + 1
  OBVIOUS
<1>2. WildcardMatch(pattern, text) <=> 1 \in from[1]
  BY DEF WildcardMatch, MatchedFrom
<1>3. cuts = Eq(cuts)
  <2> SUFFICES ASSUME NEW p \in 1..L + 1
               PROVE  Cut(pattern, text, p) = MatchedFrom(pattern, text, p, cuts[p + 1])
    OBVIOUS
  <2>1. CASE p = L + 1
    <3>1. p > Len(pattern)
      BY <1>1, <2>1
    <3> QED
      BY <3>1, CutsMatch DEF MatchedFrom
  <2>2. CASE p # L + 1
    <3>1. p + 1 \in 1..L + 1
      BY <1>1, <2>2
    <3> QED
      BY <3>1, CutsMatch
  <2> QED
    BY <2>1, <2>2
<1>4. from = Eq(from)
  <2> HIDE DEF Eq, cuts
  <2> QED
    BY <1>3
<1> HIDE DEF from
<1>5. from[1] = Cut(pattern, text, 1)
  BY <1>1, <1>4, MatchedOnce
<1>6. 1 \in Cut(pattern, text, 1) <=> CutsFrom(pattern, text, 1, 1) # {}
  BY <1>1 DEF Cut
<1>7. CutsFrom(pattern, text, 1, 1) # {} <=> Denotes(pattern, text)
  <2>1. 1 - 1 = 0
    OBVIOUS
  <2> QED
    BY <2>1 DEF CutsFrom, Denotes
<1> QED
  BY <1>2, <1>5, <1>6, <1>7

\* A pattern without wildcards denotes itself.
LEMMA LiteralsExact ==
    ASSUME NEW C, NEW pattern \in Seq(C), NEW text \in Seq(C),
           ~HasChar(pattern, "*"), ~HasChar(pattern, "?")
    PROVE  pattern = text <=> Denotes(pattern, text)
<1> DEFINE L == Len(pattern)
           M == Len(text)
<1>1. /\ L \in Nat /\ M \in Nat /\ DOMAIN pattern = 1..L /\ DOMAIN text = 1..M
      /\ \A i \in 1..L : pattern[i] # "*" /\ pattern[i] # "?"
  BY DEF HasChar
<1>2. ASSUME pattern = text PROVE Denotes(pattern, text)
  <2> DEFINE cut == [i \in 0..L |-> i]
  <2>1. cut \in [0..L -> 0..M] /\ cut[0] = 0 /\ cut[L] = M
    BY <1>1, <1>2
  <2>2. \A i \in 1..L : cut[i] = i /\ cut[i - 1] = i - 1 /\ i = (i - 1) + 1
    BY <1>1
  <2> HIDE DEF cut
  <2>3. \A i \in 1..L : cut[i] = cut[i - 1] + 1 /\ pattern[i] \in {"?", text[cut[i]]}
    BY <1>1, <1>2, <2>2
  <2> QED
    BY <1>1, <2>1, <2>3 DEF Denotes
<1>3. ASSUME Denotes(pattern, text) PROVE pattern = text
  <2>1. PICK cut \in [0..L -> 0..M] :
            /\ cut[0] = 0
            /\ cut[L] = M
            /\ \A i \in 1..L : cut[i] = cut[i - 1] + 1 /\ pattern[i] = text[cut[i]]
    BY <1>1, <1>3 DEF Denotes
  <2> DEFINE T == {n \in Nat : n <= L /\ cut[n] # n}
  <2>2. T = {}
    <3> SUFFICES ASSUME T # {} PROVE FALSE
      OBVIOUS
    <3>1. PICK n \in T : \A m \in T : n =< m
      <4> T \in SUBSET Nat
        OBVIOUS
      <4> HIDE DEF T
      <4> QED BY Least
    <3>2. n \in 1..L /\ cut[n] # n /\ n - 1 \in Nat /\ n - 1 <= L /\ ~ (n =< n - 1)
      BY <1>1, <2>1, <3>1
    <3>3. n - 1 \notin T
      <4> HIDE DEF T
      <4> QED BY <3>1, <3>2
    <3>4. cut[n - 1] = n - 1
      BY <3>2, <3>3
    <3> QED
      BY <2>1, <3>2, <3>4
  <2>3. \A n \in 0..L : cut[n] = n
    BY <1>1, <2>2
  <2>4. L = M
    <3>1. L \in 0..L
      BY <1>1
    <3> HIDE DEF L, M
    <3> QED  BY <2>1, <2>3, <3>1
  <2>5. \A i \in 1..L : pattern[i] = text[i]
    <3>1. \A i \in 1..L : i \in 0..L
      BY <1>1
    <3> QED  BY <2>1, <2>3, <3>1
  <2>6. /\ pattern = [i \in 1..L |-> pattern[i]]
        /\ text = [i \in 1..M |-> text[i]]
    BY <1>1
  <2> QED
    BY <2>4, <2>5, <2>6
<1> QED
  BY <1>2, <1>3

\* An alphabet in lower case.
LowerChars(C) == {LowerChar(char) : char \in C}

\* Lower case leaves a word a word, and wildcards where they are.
LEMMA LowerWord ==
    ASSUME NEW C, NEW word \in Seq(C)
    PROVE  /\ Lower(word) \in Seq(LowerChars(C))
           /\ HasChar(Lower(word), "*") <=> HasChar(word, "*")
           /\ HasChar(Lower(word), "?") <=> HasChar(word, "?")
<1>1. ASSUME NEW char PROVE /\ LowerChar(char) = "*" <=> char = "*"
                            /\ LowerChar(char) = "?" <=> char = "?"
  <2>1. CASE char = "A"
    <3>1. LowerChar(char) = "a"
      BY <2>1 DEF LowerChar
    <3> QED  BY <2>1, <3>1
  <2>2. CASE char = "B"
    <3>1. LowerChar(char) = "b"
      BY <2>2 DEF LowerChar
    <3> QED  BY <2>2, <3>1
  <2>3. CASE char \notin {"A", "B"}
    <3>1. LowerChar(char) = char
      BY <2>3 DEF LowerChar
    <3> QED  BY <3>1
  <2> QED
    BY <2>1, <2>2, <2>3
<1>2. /\ DOMAIN word = 1..Len(word) /\ Len(word) \in Nat
      /\ \A i \in DOMAIN word : word[i] \in C
  OBVIOUS
<1>3. /\ DOMAIN Lower(word) = DOMAIN word
      /\ \A i \in DOMAIN word : Lower(word)[i] = LowerChar(word[i])
  BY DEF Lower
<1>4. Lower(word) = [i \in 1..Len(word) |-> LowerChar(word[i])]
  BY <1>2 DEF Lower
<1>5. Lower(word) \in Seq(LowerChars(C))
  <2>1. \A i \in 1..Len(word) : LowerChar(word[i]) \in LowerChars(C)
    BY <1>2 DEF LowerChars
  <2>2. Lower(word) \in [1..Len(word) -> LowerChars(C)]
    BY <1>4, <2>1
  <2> QED
    BY <1>2, <2>2, SeqDef
<1>6. ASSUME NEW char, \A c : LowerChar(c) = char <=> c = char
      PROVE  HasChar(Lower(word), char) <=> HasChar(word, char)
  BY <1>3, <1>6 DEF HasChar
<1>7. /\ \A c : LowerChar(c) = "*" <=> c = "*"
      /\ \A c : LowerChar(c) = "?" <=> c = "?"
  BY <1>1
<1> QED
  BY <1>5, <1>6, <1>7

\* Actions match what their patterns denote, whatever the case (action_matcher.rs).
LEMMA ActionsExact ==
    ASSUME NEW C, NEW pattern \in Seq(C), NEW action \in Seq(C)
    PROVE  ActionMatches(pattern, action) <=> Denotes(Lower(pattern), Lower(action))
<1>1. Lower(pattern) \in Seq(LowerChars(C)) /\ Lower(action) \in Seq(LowerChars(C))
  BY LowerWord
<1>2. CASE HasChar(pattern, "*") \/ HasChar(pattern, "?")
  BY <1>1, <1>2, WildcardsExact DEF ActionMatches
<1>3. CASE ~ (HasChar(pattern, "*") \/ HasChar(pattern, "?"))
  <2>1. ~HasChar(Lower(pattern), "*") /\ ~HasChar(Lower(pattern), "?")
    BY <1>3, LowerWord
  <2> QED
    BY <1>1, <1>3, <2>1, LiteralsExact DEF ActionMatches
<1> QED
  BY <1>2, <1>3

\* Resources match what their patterns denote, in their case (resource_matcher.rs).
LEMMA ResourcesExact ==
    ASSUME NEW C, NEW pattern \in Seq(C), NEW resource \in Seq(C)
    PROVE  ResourceMatches(pattern, resource) <=> Denotes(pattern, resource)
<1>1. CASE HasChar(pattern, "*") \/ HasChar(pattern, "?")
  <2>1. ASSUME pattern = AnyWord PROVE Denotes(pattern, resource)
    <3> DEFINE M == Len(resource)
               cut == [i \in 0..1 |-> IF i = 0 THEN 0 ELSE M]
    <3>1. M \in Nat /\ Len(pattern) = 1 /\ pattern[1] = "*"
      BY <2>1 DEF AnyWord
    <3>2. cut \in [0..1 -> 0..M] /\ cut[0] = 0 /\ cut[1] = M /\ 1 - 1 = 0
      BY <3>1
    <3> HIDE DEF cut
    <3>3. \A i \in 1..1 : pattern[i] = "*" /\ cut[i - 1] <= cut[i]
      BY <3>1, <3>2
    <3> QED
      BY <3>1, <3>2, <3>3 DEF Denotes
  <2> QED
    BY <1>1, <2>1, WildcardsExact DEF ResourceMatches
<1>2. CASE ~ (HasChar(pattern, "*") \/ HasChar(pattern, "?"))
  <2>1. pattern # AnyWord
    <3> SUFFICES ASSUME pattern = AnyWord PROVE HasChar(pattern, "*")
      BY <1>2
    <3>1. 1 \in DOMAIN AnyWord /\ AnyWord[1] = "*"
      BY DEF AnyWord
    <3> QED
      BY <3>1 DEF HasChar
  <2> QED
    BY <1>2, <2>1, LiteralsExact DEF ResourceMatches
<1> QED
  BY <1>1, <1>2

-----------------------------------------------------------------------------
(* What policies mean *)

\* What the parser makes of a statement: words, and exactly one of each pair of fields.
StatementRead(s) ==
    /\ s.actions \subseteq Words /\ s.notActions \subseteq Words
    /\ s.resources \subseteq Words /\ s.notResources \subseteq Words
    /\ s.actions = {} <=> s.notActions # {}
    /\ s.resources = {} <=> s.notResources # {}

\* What is parsed into the arguments of effective_permissions_with_session.
Documents == IdentityDocs \cup GuardDocs \cup SessionDocs

\* A statement that was parsed concerns what it denotes (policy_parser.rs, deny_engine.rs).
LEMMA StatementsExact ==
    ASSUME NEW s, StatementRead(s), NEW action \in Words, NEW resource \in Words
    PROVE  Concerns(s, action, resource) <=> DenotesAction(s, action) /\ DenotesResource(s, resource)
<1>1. \A p \in Words : /\ ActionMatches(p, action) <=> Denotes(Lower(p), Lower(action))
                       /\ ResourceMatches(p, resource) <=> Denotes(p, resource)
  BY ActionsExact, ResourcesExact DEF Words
<1>2. ConcernsAction(s, action) <=> DenotesAction(s, action)
  BY <1>1 DEF StatementRead, ConcernsAction, DenotesAction
<1>3. ConcernsResource(s, resource) <=> DenotesResource(s, resource)
  BY <1>1 DEF StatementRead, ConcernsResource, DenotesResource
<1> QED
  BY <1>2, <1>3 DEF Concerns

\* So policies allow and deny what they say.
LEMMA PoliciesExact ==
    ASSUME NEW policy, \A s \in policy : StatementRead(s), NEW request \in Words \X Words
    PROVE  /\ SliceAllows(policy, request[1], request[2]) <=> Says("Allow", policy, request)
           /\ EvaluateDeny(policy, request[1], request[2]) <=> Says("Deny", policy, request)
<1>1. request[1] \in Words /\ request[2] \in Words
  OBVIOUS
<1>2. \A s \in policy : Concerns(s, request[1], request[2])
                          <=> DenotesAction(s, request[1]) /\ DenotesResource(s, request[2])
  BY <1>1, StatementsExact
<1>3. SliceAllows(policy, request[1], request[2]) <=> Says("Allow", policy, request)
  BY <1>2 DEF SliceAllows, Says
<1>4. EvaluateDeny(policy, request[1], request[2]) <=> Says("Deny", policy, request)
  BY <1>2 DEF EvaluateDeny, ExplicitDeny, Says
<1> QED
  BY <1>3, <1>4

\* A document is parsed to at most one policy, all of whose statements are read.
LEMMA DocumentsParsed ==
    ASSUME NEW document \in Documents, NEW policy \in ParsePolicy(document)
    PROVE  /\ ParsePolicy(document) = {policy}
           /\ \A s \in policy : StatementRead(s)
<1>1. /\ ParsePolicy(document) = {{ParseStatement(raw) : raw \in document.statements}}
      /\ \A raw \in document.statements : StatementOk(raw)
  BY DEF ParsePolicy
<1>2. policy = {ParseStatement(raw) : raw \in document.statements}
  BY <1>1
<1>3. ASSUME NEW raw \in document.statements PROVE StatementRead(ParseStatement(raw))
  <2>1. /\ Items(raw.action) = {} <=> Items(raw.notAction) # {}
        /\ Items(raw.resource) = {} <=> Items(raw.notResource) # {}
    BY <1>1 DEF StatementOk, PairOk
  <2>2. /\ Items(raw.action) \subseteq Words /\ Items(raw.notAction) \subseteq Words
        /\ Items(raw.resource) \subseteq Words /\ Items(raw.notResource) \subseteq Words
    BY WordsAssumption DEF Documents
  <2>3. /\ ParseStatement(raw).actions = Items(raw.action)
        /\ ParseStatement(raw).notActions = Items(raw.notAction)
        /\ ParseStatement(raw).resources = Items(raw.resource)
        /\ ParseStatement(raw).notResources = Items(raw.notResource)
    BY DEF ParseStatement
  <2> QED
    BY <2>1, <2>2, <2>3 DEF StatementRead
<1> QED
  BY <1>1, <1>2, <1>3

\* What documents are parsed to.
Policies(documents) == UNION {ParsePolicy(document) : document \in documents}

\* The versions of the identity policy.
Versions == [created : Nat, policy : Policies(IdentityDocs)]

\* All arguments were parsed, an optional policy is one at most, and versions are listed from
\* the latest to the earliest.
ArgumentsInv ==
    /\ edits \in Nat
    /\ versions \in Seq(Versions)
    /\ \A i \in 1..Len(versions) : versions[i].created < edits
    /\ \A i, j \in 1..Len(versions) : i < j => versions[j].created < versions[i].created
    /\ chain \in Seq(Policies(GuardDocs))
    /\ boundary \in {{}} \cup {ParsePolicy(document) : document \in GuardDocs}
    /\ session \in {{}} \cup {ParsePolicy(document) : document \in SessionDocs}

\* Versions have times of creation, and the first listed is the head.
LEMMA VersionsTyped ==
    ASSUME versions \in Seq(Versions)
    PROVE  /\ \A i \in 1..Len(versions) : versions[i] \in Versions /\ versions[i].created \in Nat
           /\ versions # << >> => Head(versions) = versions[1] /\ 1 \in 1..Len(versions)
           /\ Len(versions) \in Nat /\ DOMAIN versions = 1..Len(versions)
<1>1. /\ \A i \in 1..Len(versions) : versions[i] \in Versions
      /\ versions # << >> => Head(versions) = versions[1] /\ 1 \in 1..Len(versions)
      /\ Len(versions) \in Nat /\ DOMAIN versions = 1..Len(versions)
  OBVIOUS
<1>2. \A v \in Versions : v.created \in Nat
  BY DEF Versions
<1> QED
  BY <1>1, <1>2

\* At first there are no arguments.
LEMMA ArgumentsAtFirst == Init => ArgumentsInv
<1>1. << >> \in Seq(Versions) /\ << >> \in Seq(Policies(GuardDocs))
      /\ Len(<< >>) = 0
  OBVIOUS
<1> QED
  BY <1>1 DEF Init, ArgumentsInv

\* An edit that is parsed adds what it says, and one that is rejected changes nothing.
LEMMA ArgumentsStep == ArgumentsInv /\ [Next]_vars => ArgumentsInv'
<1> SUFFICES ASSUME ArgumentsInv, [Next]_vars PROVE ArgumentsInv'
  OBVIOUS
<1> USE DEF ArgumentsInv
<1>1. ASSUME NEW document \in IdentityDocs, PutVersion(document) PROVE ArgumentsInv'
  <2> DEFINE n == Len(versions)
  <2>1. PICK policy \in ParsePolicy(document) :
            versions' = <<[created |-> edits, policy |-> policy]>> \o versions
    BY <1>1 DEF PutVersion
  <2>2. policy \in Policies(IdentityDocs)
    BY <2>1 DEF Policies
  <2> DEFINE v == [created |-> edits, policy |-> policy]
  <2>3. v \in Versions /\ v.created = edits
    BY <2>2 DEF Versions
  <2>4. versions \in Seq(Versions) /\ n \in Nat
    OBVIOUS
  <2> HIDE DEF v
  <2>5. /\ <<v>> \o versions \in Seq(Versions) /\ Len(<<v>> \o versions) = n + 1
        /\ (<<v>> \o versions)[1] = v
        /\ \A i \in 2..n + 1 : (<<v>> \o versions)[i] = versions[i - 1] /\ i - 1 \in 1..n
    BY <2>3, <2>4
  <2>6. /\ versions' \in Seq(Versions) /\ Len(versions') = n + 1 /\ versions'[1].created = edits
        /\ \A i \in 2..n + 1 : versions'[i] = versions[i - 1] /\ i - 1 \in 1..n
    BY <2>1, <2>3, <2>5 DEF v
  <2>7. \A i \in 1..n : versions[i].created \in Nat /\ versions[i].created < edits
    BY <2>4, VersionsTyped
  <2>8. edits' = edits + 1 /\ edits \in Nat
    BY <1>1 DEF PutVersion, Edit
  <2>9. \A i \in 1..n + 1 : versions'[i].created < edits'
    <3> SUFFICES ASSUME NEW i \in 1..n + 1 PROVE versions'[i].created < edits'
      OBVIOUS
    <3>1. CASE i = 1
      BY <2>6, <2>8, <3>1
    <3>2. CASE i # 1
      <4>1. i \in 2..n + 1
        BY <2>4, <3>2
      <4>2. versions'[i] = versions[i - 1] /\ i - 1 \in 1..n
        BY <2>6, <4>1
      <4>3. versions[i - 1].created \in Nat /\ versions[i - 1].created < edits
        BY <2>7, <4>2
      <4> QED
        BY <2>8, <4>2, <4>3
    <3> QED
      BY <3>1, <3>2
  <2>10. ASSUME NEW i \in 1..n + 1, NEW j \in 1..n + 1, i < j
         PROVE  versions'[j].created < versions'[i].created
    <3>1. j \in 2..n + 1
      BY <2>4, <2>10
    <3>2. versions'[j] = versions[j - 1] /\ j - 1 \in 1..n
      BY <2>6, <3>1
    <3>3. CASE i = 1
      BY <2>6, <2>7, <3>2, <3>3
    <3>4. CASE i # 1
      <4>1. i \in 2..n + 1
        BY <2>4, <3>4
      <4>2. versions'[i] = versions[i - 1] /\ i - 1 \in 1..n /\ i - 1 < j - 1
        BY <2>4, <2>6, <2>10, <4>1
      <4> QED
        BY <3>2, <4>2
    <3> QED
      BY <3>3, <3>4
  <2>11. UNCHANGED <<chain, boundary, session>>
    BY <1>1 DEF PutVersion
  <2> QED
    BY <2>6, <2>8, <2>9, <2>10, <2>11
<1>2. ASSUME edits \in Nat, Edit, UNCHANGED versions
      PROVE  /\ edits' \in Nat
             /\ versions' \in Seq(Versions)
             /\ \A i \in 1..Len(versions') : versions'[i].created < edits'
             /\ \A i, j \in 1..Len(versions') : i < j => versions'[j].created < versions'[i].created
  <2>1. edits' = edits + 1
    BY <1>2 DEF Edit
  <2>2. \A i \in 1..Len(versions) : versions[i].created \in Nat
    BY VersionsTyped
  <2> QED
    BY <1>2, <2>1, <2>2
<1>3. ASSUME NEW document \in GuardDocs, AttachScp(document) PROVE ArgumentsInv'
  <2>1. PICK policy \in ParsePolicy(document) : chain' = Append(chain, policy)
    BY <1>3 DEF AttachScp
  <2>2. policy \in Policies(GuardDocs)
    BY <2>1 DEF Policies
  <2>3. chain' \in Seq(Policies(GuardDocs))
    BY <2>1, <2>2
  <2> QED
    BY <1>2, <1>3, <2>3 DEF AttachScp
<1>4. ASSUME NEW document \in GuardDocs, SetBoundary(document) PROVE ArgumentsInv'
  BY <1>2, <1>4 DEF SetBoundary
<1>5. ASSUME NEW document \in SessionDocs, AssumeRole(document) PROVE ArgumentsInv'
  BY <1>2, <1>5 DEF AssumeRole
<1>6. ASSUME NEW document \in ResourceDocs, PutResourcePolicy(document) PROVE ArgumentsInv'
  BY <1>2, <1>6 DEF PutResourcePolicy
<1>7. ASSUME NEW role \in Roles, NEW document \in TrustDocs, PutTrust(role, document) PROVE ArgumentsInv'
  BY <1>2, <1>7 DEF PutTrust
<1>8. CASE UNCHANGED vars
  BY <1>8 DEF vars
<1> QED
  BY <1>1, <1>3, <1>4, <1>5, <1>6, <1>7, <1>8 DEF Next

\* Whatever is edited, the engine is handed policies that the parser made, and versions from the
\* latest to the earliest (policy_parser.rs).
THEOREM ArgumentsAlwaysRead == Spec => []ArgumentsInv
<1> QED
  BY ArgumentsAtFirst, ArgumentsStep, PTL DEF Spec

\* The layers of evaluation together mean what the policies mean.
LEMMA ReadExact == ArgumentsInv => EffectiveExact
<1> SUFFICES ASSUME ArgumentsInv, NEW request \in Requests \cap Candidates(Identity)
             PROVE  /\ request \in Effective <=> Authorized(request)
                    /\ (\E policy \in boundary : BoundaryResult(policy, request[1], request[2]) = "NotInBoundary")
                          => request \notin Effective
  BY DEF EffectiveExact
<1> DEFINE a == request[1]
           r == request[2]
<1>1. request \in Words \X Words
  BY WordsAssumption
<1>2. ASSUME NEW documents \in SUBSET Documents, NEW policy \in Policies(documents)
      PROVE  /\ SliceAllows(policy, a, r) <=> Says("Allow", policy, request)
             /\ EvaluateDeny(policy, a, r) <=> Says("Deny", policy, request)
  <2>1. \A s \in policy : StatementRead(s)
    BY <1>2, DocumentsParsed DEF Policies
  <2> QED
    BY <1>1, <2>1, PoliciesExact
<1>3. EvaluateDeny(Identity, a, r) <=> Says("Deny", Identity, request)
  <2>1. CASE versions = << >>
    BY <2>1 DEF Identity, EvaluateDeny, ExplicitDeny, Says
  <2>2. CASE versions # << >>
    <3>1. Head(versions) \in Versions
      BY <2>2, VersionsTyped DEF ArgumentsInv
    <3>2. Identity \in Policies(IdentityDocs)
      BY <2>2, <3>1 DEF Identity, Versions
    <3> QED
      BY <1>2, <3>2 DEF Documents
  <2> QED
    BY <2>1, <2>2
<1>4. ScpAllows(chain, a, r) <=> \A i \in DOMAIN chain : Says("Allow", chain[i], request)
  <2>1. \A i \in DOMAIN chain : chain[i] \in Policies(GuardDocs)
    BY DEF ArgumentsInv
  <2> QED
    BY <1>2, <2>1 DEF ScpAllows, Documents
<1>5. /\ \A policy \in boundary : policy \in Policies(GuardDocs)
      /\ \A policy \in session : session = {policy} /\ policy \in Policies(SessionDocs)
  BY DocumentsParsed DEF ArgumentsInv, Policies, Documents
<1>6. (\A policy \in boundary : BoundaryAllows(policy, a, r))
        <=> \A policy \in boundary : policy # {} => Says("Allow", policy, request)
  BY <1>2, <1>5 DEF BoundaryAllows, Documents
<1>7. (session = {} \/ SessionAllows(session, a, r) = "Allowed")
        <=> \A policy \in session : Says("Allow", policy, request)
  <2>1. \A policy \in session : SliceAllows(policy, a, r) <=> Says("Allow", policy, request)
    BY <1>2, <1>5 DEF Documents
  <2>2. CASE session = {}
    BY <2>2
  <2>3. CASE session # {}
    <3>1. SessionAllows(session, a, r) = "Allowed" <=> \E policy \in session : SliceAllows(policy, a, r)
      BY <2>3 DEF SessionAllows
    <3>2. PICK policy : session = {policy}
      BY <1>5, <2>3
    <3> QED
      BY <2>1, <2>3, <3>1, <3>2
  <2> QED
    BY <2>2, <2>3
<1>8. request \in Base <=> /\ ~EvaluateDeny(Identity, a, r)
                           /\ ScpAllows(chain, a, r)
                           /\ \A policy \in boundary : BoundaryAllows(policy, a, r)
  BY DEF Base, EffectivePermissions
<1>9. request \in Effective <=> request \in Base /\ (session = {} \/ SessionAllows(session, a, r) = "Allowed")
  BY DEF Effective, WithSession
<1>10. request \in Effective <=> Authorized(request)
  BY <1>3, <1>4, <1>6, <1>7, <1>8, <1>9 DEF Authorized
<1>11. ASSUME NEW policy \in boundary, BoundaryResult(policy, a, r) = "NotInBoundary"
       PROVE  request \notin Effective
  <2>1. ~BoundaryAllows(policy, a, r)
    BY <1>11 DEF BoundaryResult
  <2> QED
    BY <1>8, <1>9, <1>11, <2>1
<1> QED
  BY <1>10, <1>11

\* What the engine answers about a literal request is what the policies mean, for any alphabet,
\* documents and number of edits (effective_permissions.rs, session_policy.rs).
THEOREM PermissionsExact == Spec => []EffectiveExact
<1> QED
  BY ArgumentsAlwaysRead, ReadExact, PTL

-----------------------------------------------------------------------------
(* What the history of versions explains *)

\* What is not so at first and is so in the end becomes so at some step.
LEMMA Becomes ==
    ASSUME NEW n \in Nat, NEW T \in SUBSET (1..n), n \in T, 1 \notin T
    PROVE  \E i \in 1..n - 1 : i \notin T /\ i + 1 \in T
<1>1. PICK k \in T : \A m \in T : k =< m
  BY Least
<1>2. k - 1 \in 1..n - 1 /\ k - 1 \notin T /\ (k - 1) + 1 = k
  BY <1>1
<1> QED
  BY <1>1, <1>2

\* What an Allow statement of a version spells (policy_drift.rs).
SpeltBy(version) == {pair[1] : pair \in PermissionSet(version.policy)}

\* An order of the versions by their creation.
InOrder(s) ==
    /\ s \in [DOMAIN versions -> Range(versions)]
    /\ Range(s) = Range(versions)
    /\ \A i, j \in DOMAIN s : i < j => s[i].created < s[j].created

\* Versions that are listed from the latest to the earliest can be put in order, and then the
\* earliest is first and the latest last (policy_drift.rs).
LEMMA OrderedHistory ==
    ASSUME ArgumentsInv, versions # << >>
    PROVE  /\ \E s : InOrder(s)
           /\ \A s : InOrder(s) => s[1] = versions[Len(versions)] /\ s[Len(versions)] = Head(versions)
<1> DEFINE n == Len(versions)
<1>1. /\ n \in Nat /\ 1 \in 1..n /\ n \in 1..n /\ DOMAIN versions = 1..n
      /\ Head(versions) = versions[1]
      /\ \A i \in 1..n : versions[i].created \in Nat
  BY VersionsTyped DEF ArgumentsInv
<1>2. \A i, j \in 1..n : i < j => versions[j].created < versions[i].created
  BY DEF ArgumentsInv
<1>3. Range(versions) = {versions[i] : i \in 1..n}
  BY <1>1 DEF Range
<1> HIDE DEF n
<1>4. \E s : InOrder(s)
  <2> DEFINE w == [i \in 1..n |-> versions[n + 1 - i]]
  <2>1. \A i \in 1..n : n + 1 - i \in 1..n /\ n + 1 - (n + 1 - i) = i
    BY <1>1
  <2>2. w \in [1..n -> Range(versions)]
    BY <1>3, <2>1
  <2>3. Range(w) = Range(versions)
    <3>1. Range(w) = {w[i] : i \in 1..n}
      BY DEF Range
    <3>2. \A i \in 1..n : versions[i] = w[n + 1 - i]
      BY <2>1
    <3> QED
      BY <1>3, <2>1, <2>2, <3>1, <3>2
  <2>4. ASSUME NEW i \in 1..n, NEW j \in 1..n, i < j PROVE w[i].created < w[j].created
    <3>1. n + 1 - j < n + 1 - i
      BY <1>1, <2>4
    <3> QED
      BY <1>2, <2>1, <3>1
  <2>5. InOrder(w)
    <3> DOMAIN w = 1..n
      OBVIOUS
    <3> HIDE DEF w
    <3> QED BY <1>1, <2>2, <2>3, <2>4 DEF InOrder
  <2> QED
    BY <2>5
<1>5. ASSUME NEW s, InOrder(s) PROVE s[1] = versions[n] /\ s[n] = versions[1]
  <2>1. /\ DOMAIN s = 1..n /\ Range(s) = {s[i] : i \in 1..n}
        /\ \A i, j \in 1..n : i < j => s[i].created < s[j].created
    BY <1>1, <1>5 DEF InOrder, Range
  <2>2. {s[i] : i \in 1..n} = {versions[i] : i \in 1..n}
    BY <1>3, <1>5, <2>1 DEF InOrder
  <2>3. s[1] = versions[n]
    <3>1. PICK i \in 1..n : s[i] = versions[n]
      BY <1>1, <2>2
    <3>2. PICK j \in 1..n : s[1] = versions[j]
      BY <1>1, <2>2
    <3>3. i # 1 => versions[j].created < versions[n].created
      BY <1>1, <2>1, <3>1, <3>2
    <3>4. j # n => versions[n].created < versions[j].created
      BY <1>1, <1>2
    <3> QED
      BY <1>1, <3>1, <3>2, <3>3, <3>4
  <2>4. s[n] = versions[1]
    <3>1. PICK i \in 1..n : s[i] = versions[1]
      BY <1>1, <2>2
    <3>2. PICK j \in 1..n : s[n] = versions[j]
      BY <1>1, <2>2
    <3>3. i # n => versions[1].created < versions[j].created
      BY <1>1, <2>1, <3>1, <3>2
    <3>4. j # 1 => versions[j].created < versions[1].created
      BY <1>1, <1>2
    <3> QED
      BY <1>1, <3>1, <3>2, <3>3, <3>4
  <2> QED
    BY <2>3, <2>4
<1> QED
  BY <1>1, <1>4, <1>5 DEF n

\* The steps of the history are those between neighbours in the order (policy_drift.rs).
LEMMA HistorySteps ==
    ASSUME ArgumentsInv, versions # << >>
    PROVE  \E s : /\ InOrder(s)
                  /\ VersionHistory(versions)
                       = [i \in 1..Len(versions) - 1 |-> Diff(s[i].policy, s[i + 1].policy)]
<1> DEFINE s == CHOOSE t : InOrder(t)
           u == CHOOSE t \in [DOMAIN versions -> Range(versions)] :
                    /\ Range(t) = Range(versions)
                    /\ \A i, j \in DOMAIN t : i < j => t[i].created < t[j].created
<1>1. \E t : InOrder(t)
  BY OrderedHistory
<1>2. InOrder(u)
  BY <1>1 DEF InOrder
<1>3. VersionHistory(versions)
         = [i \in 1..Len(versions) - 1 |-> Diff(u[i].policy, u[i + 1].policy)]
  BY DEF VersionHistory
<1> HIDE DEF u
<1> QED
  BY <1>2, <1>3

\* What was not spelt and is, some step added, and what was and is not, some step removed.
LEMMA StepsExplain ==
    ASSUME NEW n \in Nat, n >= 1, NEW s, NEW diffs,
           diffs = [i \in 1..n - 1 |-> Diff(s[i].policy, s[i + 1].policy)]
    PROVE  /\ \A a \in SpeltBy(s[n]) \ SpeltBy(s[1]) : \E i \in 1..n - 1 : a \in diffs[i].actionsAdded
           /\ \A a \in SpeltBy(s[1]) \ SpeltBy(s[n]) : \E i \in 1..n - 1 : a \in diffs[i].actionsRemoved
<1>1. \A i \in 1..n - 1 : /\ SpeltBy(s[i + 1]) \ SpeltBy(s[i]) \subseteq diffs[i].actionsAdded
                          /\ SpeltBy(s[i]) \ SpeltBy(s[i + 1]) \subseteq diffs[i].actionsRemoved
  BY DEF Diff, SpeltBy
<1>2. ASSUME NEW a \in SpeltBy(s[n]) \ SpeltBy(s[1])
      PROVE  \E i \in 1..n - 1 : a \in diffs[i].actionsAdded
  <2> DEFINE T == {k \in 1..n : a \in SpeltBy(s[k])}
  <2>1. T \in SUBSET (1..n) /\ n \in T /\ 1 \notin T
    BY <1>2
  <2>2. PICK i \in 1..n - 1 : i \notin T /\ i + 1 \in T
    <3> HIDE DEF T
    <3> QED BY <2>1, Becomes
  <2>3. a \in SpeltBy(s[i + 1]) \ SpeltBy(s[i])
    BY <2>2
  <2>4. a \in diffs[i].actionsAdded
    BY <1>1, <2>3
  <2> QED
    BY <2>4
<1>3. ASSUME NEW a \in SpeltBy(s[1]) \ SpeltBy(s[n])
      PROVE  \E i \in 1..n - 1 : a \in diffs[i].actionsRemoved
  <2> DEFINE T == {k \in 1..n : a \notin SpeltBy(s[k])}
  <2>1. T \in SUBSET (1..n) /\ n \in T /\ 1 \notin T
    BY <1>3
  <2>2. PICK i \in 1..n - 1 : i \notin T /\ i + 1 \in T
    <3> HIDE DEF T
    <3> QED BY <2>1, Becomes
  <2>3. a \in SpeltBy(s[i]) \ SpeltBy(s[i + 1])
    BY <2>2
  <2>4. a \in diffs[i].actionsRemoved
    BY <1>1, <2>3
  <2> QED
    BY <2>4
<1> QED
  BY <1>2, <1>3

\* A change is critical or high only if it adds something, so the score counts no step that
\* expands nothing and every one that does (policy_drift.rs).
LEMMA ScoreTells ==
    ASSUME NEW n \in Nat, NEW s, NEW diffs,
           diffs = [i \in 1..n |-> Diff(s[i].policy, s[i + 1].policy)]
    PROVE  DriftScore(diffs).thousandths = 0 <=> \A i \in DOMAIN diffs : ~diffs[i].expanded
<1> DEFINE D == DOMAIN diffs
           E == {i \in D : diffs[i].expanded}
           C == {i \in D : diffs[i].severity = "Critical"}
           H == {i \in D : diffs[i].severity = "High"}
<1>1. D = 1..n
  OBVIOUS
<1>2. IsFiniteSet(1..n)
  BY FS_Interval
<1>3. E \in SUBSET D /\ C \in SUBSET D /\ H \in SUBSET D
  OBVIOUS
<1>4. /\ Cardinality(E) \in Nat /\ (Cardinality(E) = 0 <=> E = {})
      /\ Cardinality(C) \in Nat /\ (Cardinality(C) = 0 <=> C = {})
      /\ Cardinality(H) \in Nat /\ (Cardinality(H) = 0 <=> H = {})
  <2>1. IsFiniteSet(E) /\ IsFiniteSet(C) /\ IsFiniteSet(H)
    BY <1>1, <1>2, <1>3, FS_Subset
  <2> HIDE DEF E, C, H
  <2> QED
    BY <2>1, FS_CardinalityType, FS_EmptySet
<1>5. \A i \in D : diffs[i].severity \in {"Critical", "High"} => diffs[i].expanded
  BY DEF Diff, Severity
<1>6. C \subseteq E /\ H \subseteq E
  BY <1>5
<1>7. DriftScore(diffs).thousandths
         = 700 * Cardinality(E) + 300 * Cardinality(C) + 150 * Cardinality(H)
  BY DEF DriftScore
<1>8. E = {} <=> \A i \in D : ~diffs[i].expanded
  OBVIOUS
<1> HIDE DEF E, C, H
<1>9. DriftScore(diffs).thousandths = 0 <=> E = {}
  <2> DEFINE e == Cardinality(E)
             c == Cardinality(C)
             h == Cardinality(H)
  <2>1. e = 0 => c = 0 /\ h = 0
    BY <1>4, <1>6
  <2>2. e \in Nat /\ c \in Nat /\ h \in Nat /\ (e = 0 <=> E = {})
    BY <1>4
  <2>3. DriftScore(diffs).thousandths = 700 * e + 300 * c + 150 * h
    BY <1>7
  <2> HIDE DEF e, c, h
  <2> QED
    BY <2>1, <2>2, <2>3
<1> QED
  BY <1>8, <1>9

\* The history of versions explains the current one (policy_drift.rs).
LEMMA HistoryTells == ArgumentsInv => HistoryExplains
<1> SUFFICES ASSUME ArgumentsInv, versions # << >> PROVE HistoryExplains
  BY DEF HistoryExplains
<1> DEFINE n == Len(versions)
           diffs == VersionHistory(versions)
<1>1. n \in Nat /\ n >= 1 /\ n - 1 \in Nat
  BY VersionsTyped DEF ArgumentsInv
<1>2. PICK s : /\ InOrder(s)
               /\ diffs = [i \in 1..n - 1 |-> Diff(s[i].policy, s[i + 1].policy)]
  BY HistorySteps
<1>3. s[1] = versions[n] /\ s[n] = Head(versions)
  BY <1>2, OrderedHistory
<1> HIDE DEF diffs, n
<1>4. DOMAIN diffs = 1..n - 1
  BY <1>2
<1>5. /\ \A a \in SpeltBy(s[n]) \ SpeltBy(s[1]) : \E i \in 1..n - 1 : a \in diffs[i].actionsAdded
      /\ \A a \in SpeltBy(s[1]) \ SpeltBy(s[n]) : \E i \in 1..n - 1 : a \in diffs[i].actionsRemoved
  BY <1>1, <1>2, StepsExplain
<1>6. SpeltBy(s[1]) = SpeltBy(versions[n]) /\ SpeltBy(s[n]) = SpeltBy(Head(versions))
  BY <1>3
<1>7. SpeltBy(Head(versions)) \ SpeltBy(versions[n]) \subseteq UNION {diffs[i].actionsAdded : i \in DOMAIN diffs}
  BY <1>4, <1>5, <1>6
<1>8. SpeltBy(versions[n]) \ SpeltBy(Head(versions)) \subseteq UNION {diffs[i].actionsRemoved : i \in DOMAIN diffs}
  BY <1>4, <1>5, <1>6
<1>9. DriftScore(diffs).thousandths = 0 <=> \A i \in DOMAIN diffs : ~diffs[i].expanded
  BY <1>1, <1>2, ScoreTells
<1> QED
  BY <1>7, <1>8, <1>9 DEF HistoryExplains, SpeltBy, diffs, n

\* However the versions arrive, at every moment their history explains the current one
\* (policy_drift.rs).
THEOREM HistoryAlwaysExplains == Spec => []HistoryExplains
<1> QED
  BY ArgumentsAlwaysRead, HistoryTells, PTL

-----------------------------------------------------------------------------
(* Digits and seconds *)

\* The minutes, hours and days that are full stretch the digits (cloudtrail.rs:495).
LEMMA DigitsStretch ==
    ASSUME NEW time \in Nat
    PROVE  Digits(time) = time + 40 * (time \div 60) + 4000 * (time \div 3600) + 760000 * (time \div 86400)
<1>1. time % 60 = time - 60 * (time \div 60)
  OBVIOUS
<1>2. (time \div 60) % 60 = (time \div 60) - 60 * (time \div 3600)
  OBVIOUS
<1>3. (time \div 3600) % 24 = (time \div 3600) - 24 * (time \div 86400)
  OBVIOUS
<1>4. QED  BY <1>1, <1>2, <1>3 DEF Digits

\* A later time has digits that are later by at least as much.
LEMMA DigitsApart ==
    ASSUME NEW early \in Nat, NEW late \in Nat, early <= late
    PROVE  late - early <= Digits(late) - Digits(early)
<1>1. /\ early \div 60 <= late \div 60
      /\ early \div 3600 <= late \div 3600
      /\ early \div 86400 <= late \div 86400
  OBVIOUS
<1>2. QED  BY <1>1, DigitsStretch

LEMMA DigitsInt ==
    ASSUME NEW time \in Nat
    PROVE  Digits(time) \in Int
BY DigitsStretch

\* What is within a window by its digits is within it by its seconds.
LEMMA WithinIsNear ==
    ASSUME NEW a \in Nat, NEW b \in Nat, NEW window \in Nat, Within(a, b, window)
    PROVE  IF a < b THEN b - a <= window ELSE a - b <= window
<1>1. CASE a < b
  BY <1>1, DigitsApart, DigitsInt DEF Within
<1>2. CASE b <= a
  BY <1>2, DigitsApart, DigitsInt DEF Within
<1>3. QED  BY <1>1, <1>2

-----------------------------------------------------------------------------
(* What the log holds *)

Parsed == {ParseEvent(record) : record \in Records}

LogRead == log \in Seq(Parsed) /\ pending \in Seq(Records)

LEMMA LogReadStep == LogRead /\ [TrailNext]_trailVars => LogRead'
<1> SUFFICES ASSUME LogRead, [TrailNext]_trailVars PROVE LogRead'
  OBVIOUS
<1>1. ASSUME NEW batch \in Batches, Deliver(batch) PROVE LogRead'
  <2>1. batch.records \in Seq(Records)
    BY TrailAssumption
  <2>2. log' = log /\ (pending' = batch.records \/ pending' = pending)
    BY <1>1 DEF Deliver
  <2>3. QED  BY <2>1, <2>2 DEF LogRead
<1>2. ASSUME ParseNext PROVE LogRead'
  <2>1. /\ pending \in Seq(Records) /\ pending # << >>
        /\ pending' = Tail(pending)
        /\ log' = Append(log, ParseEvent(Head(pending))) \/ log' = log
    BY <1>2 DEF ParseNext, LogRead
  <2>2. Head(pending) \in Records /\ Tail(pending) \in Seq(Records)
    BY <2>1
  <2>3. ParseEvent(Head(pending)) \in Parsed
    BY <2>2 DEF Parsed
  <2>4. log \in Seq(Parsed) /\ Append(log, ParseEvent(Head(pending))) \in Seq(Parsed)
    BY <2>3 DEF LogRead
  <2>5. QED  BY <2>1, <2>2, <2>4 DEF LogRead
<1>3. ASSUME UNCHANGED trailVars PROVE LogRead'
  BY <1>3 DEF trailVars, LogRead
<1>4. QED  BY <1>1, <1>2, <1>3 DEF TrailNext

\* The log is always a sequence of events that were parsed from delivered records.
THEOREM LogAlwaysRead == TrailSpec => []LogRead
<1>1. TrailInit => LogRead
  BY DEF TrailInit, LogRead
<1>2. QED  BY <1>1, LogReadStep, PTL DEF TrailSpec

LEMMA TimesAreNat ==
    ASSUME LogRead, NEW i \in Positions
    PROVE  log[i].time \in Nat
<1>1. log[i] \in Parsed
  BY DEF LogRead, Positions
<1>2. PICK record \in Records : log[i] = ParseEvent(record)
  BY <1>1 DEF Parsed
<1>3. ParseEvent(record).time = record.time
  BY ZenonT(20) DEF ParseEvent
<1>4. QED  BY <1>2, <1>3, TrailAssumption

LEMMA NearInLog ==
    ASSUME LogRead, NEW i \in Positions, NEW j \in Positions, NEW window \in Nat,
           Within(log[i].time, log[j].time, window)
    PROVE  Apart(i, j) <= window
<1>1. log[i].time \in Nat /\ log[j].time \in Nat
  BY TimesAreNat
<1>2. QED  BY <1>1, WithinIsNear DEF Apart

-----------------------------------------------------------------------------
(* Alarms are true *)

LEMMA ReadGivesNoFalseAlarm == LogRead => NoFalseAlarm
<1> SUFFICES ASSUME LogRead PROVE NoFalseAlarm
  OBVIOUS
<1>1. ASSUME NEW pair \in DeniedThenSuccess PROVE Apart(pair[1], pair[2]) <= 3600
  <2>1. pair[1] \in Positions /\ pair[2] \in Positions /\ Repeats(pair[1], pair[2])
    BY DEF DeniedThenSuccess
  <2>2. QED  BY <2>1, NearInLog DEF Repeats
<1>2. ASSUME NEW pair \in PolicyModifyThenAssume PROVE Apart(pair[1], pair[2]) <= 3600
  <2>1. /\ pair[1] \in Positions /\ pair[2] \in Positions
        /\ Within(log[pair[1]].time, log[pair[2]].time, 3600)
    BY DEF PolicyModifyThenAssume
  <2>2. QED  BY <2>1, NearInLog
<1>3. ASSUME NEW i \in Positions, i \in Writes(log[i].principal), NEW j \in WindowFrom(i)
      PROVE  Apart(i, j) <= 300
  <2>1. /\ i \in Nat /\ j \in Nat /\ i <= j /\ j \in Positions
        /\ j \in Writes(log[i].principal)
        /\ i < j => Within(log[i].time, log[j].time, 300)
    <3>1. Positions \subseteq Nat
      BY DEF Positions, LogRead
    <3>2. j \in Positions /\ j \in Writes(log[i].principal) /\ i <= j
      BY <1>3 DEF WindowFrom, Writes
    <3>3. i < j => Within(log[i].time, log[j].time, 300)
      BY <1>3, <3>1, <3>2 DEF WindowFrom
    <3>4. QED  BY <3>1, <3>2, <3>3
  <2>2. CASE i = j
    BY <2>2, TimesAreNat DEF Apart
  <2>3. CASE i < j
    BY <2>1, <2>3, NearInLog
  <2>4. QED  BY <2>1, <2>2, <2>3
<1>4. QED  BY <1>1, <1>2, <1>3 DEF NoFalseAlarm

\* What is reported as within an hour or five minutes is so, whatever the order of delivery.
THEOREM NoAlarmIsFalse == TrailSpec => []NoFalseAlarm
BY LogAlwaysRead, ReadGivesNoFalseAlarm, PTL

-----------------------------------------------------------------------------
(* Evidence stays *)

\* Every step keeps the events and their positions (cloudtrail.rs:224).
LEMMA LogGrows ==
    ASSUME LogRead, [TrailNext]_trailVars
    PROVE  /\ Positions \subseteq Positions'
           /\ \A i \in Positions : log'[i] = log[i]
           /\ \A k \in Positions' \ Positions : \A i \in Positions : i < k
<1>1. ASSUME ParseNext
      PROVE  log' = log \/ log' = Append(log, ParseEvent(Head(pending)))
  BY <1>1 DEF ParseNext
<1>2. ASSUME NEW batch \in Batches, Deliver(batch) PROVE log' = log
  BY <1>2 DEF Deliver
<1>3. log' = log \/ log' = Append(log, ParseEvent(Head(pending)))
  BY <1>1, <1>2 DEF TrailNext, trailVars
<1>4. CASE log' = log
  BY <1>4 DEF Positions
<1>5. CASE log' = Append(log, ParseEvent(Head(pending)))
  <2>1. log \in Seq(Parsed)
    BY DEF LogRead
  <2>2. DOMAIN log = 1..Len(log) /\ Len(log) \in Nat
    BY <2>1
  <2>3. PICK e : log' = Append(log, e)
    BY <1>5
  <2>4. DOMAIN log' = 1..(Len(log) + 1) /\ \A i \in 1..Len(log) : log'[i] = log[i]
    BY <2>1, <2>2, <2>3
  <2>5. QED  BY <2>2, <2>4 DEF Positions
<1>6. QED  BY <1>3, <1>4, <1>5

LEMMA PositionsAreFinite ==
    ASSUME LogRead, [TrailNext]_trailVars
    PROVE  /\ Positions \subseteq Nat
           /\ Positions' \subseteq Nat /\ IsFiniteSet(Positions')
<1>1. LogRead'
  BY LogReadStep
<1>2. Positions' = 1..Len(log') /\ Len(log') \in Nat
  BY <1>1 DEF LogRead, Positions
<1>3. Positions \subseteq Nat
  BY DEF LogRead, Positions
<1>4. QED  BY <1>2, <1>3, FS_Interval

\* Fewer of the two counts stay fewer under a bound.
LEMMA AtMostGrows ==
    ASSUME NEW few, NEW many, few \subseteq many, IsFiniteSet(many), NEW bound \in Nat
    PROVE  AtMost(bound, few) \in Int /\ AtMost(bound, few) <= AtMost(bound, many) /\ AtMost(bound, many) \in Int
<1>1. IsFiniteSet(few) /\ Cardinality(few) <= Cardinality(many)
  BY FS_Subset
<1>2. Cardinality(few) \in Nat /\ Cardinality(many) \in Nat
  BY <1>1, FS_CardinalityType
<1>3. QED  BY <1>1, <1>2 DEF AtMost

LEMMA DenialsStay ==
    ASSUME LogRead, [TrailNext]_trailVars
    PROVE  DeniedThenSuccess \subseteq DeniedThenSuccess'
<1> SUFFICES ASSUME NEW pair \in DeniedThenSuccess PROVE pair \in DeniedThenSuccess'
  OBVIOUS
<1>1. /\ pair \in Positions \X Positions /\ Repeats(pair[1], pair[2])
      /\ \A k \in Positions : Repeats(pair[1], k) => pair[2] <= k
  BY DEF DeniedThenSuccess
<1>2. pair \in Positions' \X Positions'
  BY <1>1, LogGrows
<1>3. Repeats(pair[1], pair[2])'
  BY <1>1, LogGrows DEF Repeats
<1>4. ASSUME NEW k \in Positions', Repeats(pair[1], k)' PROVE pair[2] <= k
  <2>1. CASE k \in Positions
    <3>1. Repeats(pair[1], k)
      BY <1>1, <1>4, <2>1, LogGrows DEF Repeats
    <3>2. QED  BY <1>1, <2>1, <3>1
  <2>2. CASE k \notin Positions
    <3>1. pair[2] < k
      BY <1>1, <2>2, LogGrows
    <3>2. pair[2] \in Nat /\ k \in Nat
      BY <1>1, PositionsAreFinite
    <3>3. QED  BY <3>1, <3>2
  <2>3. QED  BY <2>1, <2>2
<1>5. QED  BY <1>2, <1>3, <1>4 DEF DeniedThenSuccess

LEMMA WindowsGrow ==
    ASSUME LogRead, [TrailNext]_trailVars, NEW i \in Positions
    PROVE  WindowFrom(i) \subseteq WindowFrom(i)'
<1>1. Writes(log[i].principal) = Writes(log[i].principal)' \cap Positions
  <2>1. log'[i].principal = log[i].principal
    BY LogGrows
  <2>2. \A k \in Positions : IamEvent(log[k], WriteNames) <=> IamEvent(log'[k], WriteNames)
    BY LogGrows
  <2>3. QED  BY <2>1, <2>2, LogGrows DEF Writes
<1> SUFFICES ASSUME NEW j \in WindowFrom(i) PROVE j \in WindowFrom(i)'
  OBVIOUS
<1>2. /\ j \in Writes(log[i].principal) /\ i <= j /\ j \in Positions
      /\ \A k \in Writes(log[i].principal) : i < k /\ k <= j => Within(log[i].time, log[k].time, 300)
  BY DEF WindowFrom, Writes
<1>3. ASSUME NEW k \in Writes(log[i].principal)', i < k, k <= j
      PROVE  Within(log'[i].time, log'[k].time, 300)
  <2>1. k \in Positions
    <3>1. SUFFICES ASSUME k \notin Positions PROVE FALSE
      OBVIOUS
    <3>2. k \in Positions' \ Positions
      BY <1>3, <3>1 DEF Writes
    <3>3. j < k
      BY <1>2, <3>2, LogGrows
    <3>4. k \in Nat /\ j \in Nat
      BY <1>2, <3>2, PositionsAreFinite
    <3>5. QED  BY <1>3, <3>3, <3>4
  <2>2. k \in Writes(log[i].principal)
    BY <1>1, <1>3, <2>1
  <2>3. log'[i] = log[i] /\ log'[k] = log[k]
    BY <2>1, LogGrows
  <2>4. QED  BY <1>2, <1>3, <2>2, <2>3
<1>4. j \in Writes(log[i].principal)'
  BY <1>1, <1>2
<1>5. QED  BY <1>2, <1>3, <1>4 DEF WindowFrom

LEMMA RapidChangesStay ==
    ASSUME LogRead, [TrailNext]_trailVars
    PROVE  RapidIamChanges \subseteq RapidIamChanges'
<1> SUFFICES ASSUME NEW principal \in RapidIamChanges PROVE principal \in RapidIamChanges'
  OBVIOUS
<1>1. PICK i \in Positions : /\ principal = log[i].principal
                             /\ i \in Writes(log[i].principal)
                             /\ Cardinality(WindowFrom(i)) > 3
  BY DEF RapidIamChanges
<1>2. i \in Positions' /\ log'[i] = log[i]
  BY LogGrows
<1>3. i \in Writes(log[i].principal)'
  BY <1>1, <1>2 DEF Writes, IamEvent
<1>4. Cardinality(WindowFrom(i)') > 3
  <2>1. WindowFrom(i) \subseteq WindowFrom(i)'
    BY WindowsGrow
  <2>2. IsFiniteSet(WindowFrom(i)')
    <3>1. IsFiniteSet(Positions')
      BY PositionsAreFinite
    <3>2. WindowFrom(i)' \subseteq Positions'
      BY DEF WindowFrom, Writes
    <3>3. QED  BY <3>1, <3>2, FS_Subset
  <2>3. /\ IsFiniteSet(WindowFrom(i))
        /\ Cardinality(WindowFrom(i)) <= Cardinality(WindowFrom(i)')
    BY <2>1, <2>2, FS_Subset
  <2>4. Cardinality(WindowFrom(i)) \in Nat /\ Cardinality(WindowFrom(i)') \in Nat
    BY <2>2, <2>3, FS_CardinalityType
  <2>5. QED  BY <1>1, <2>3, <2>4
<1>5. QED  BY <1>1, <1>2, <1>3, <1>4 DEF RapidIamChanges

LEMMA AssumptionsStay ==
    ASSUME LogRead, [TrailNext]_trailVars
    PROVE  /\ PolicyModifyThenAssume \subseteq PolicyModifyThenAssume'
           /\ CrossAccountAssumption \subseteq CrossAccountAssumption'
<1>1. ASSUME NEW pair \in PolicyModifyThenAssume PROVE pair \in PolicyModifyThenAssume'
  <2>1. pair \in Positions \X Positions /\ pair \in Positions' \X Positions'
    BY LogGrows DEF PolicyModifyThenAssume
  <2>2. log'[pair[1]] = log[pair[1]] /\ log'[pair[2]] = log[pair[2]]
    BY <2>1, LogGrows
  <2>3. QED  BY <2>1, <2>2 DEF PolicyModifyThenAssume
<1>2. ASSUME NEW i \in CrossAccountAssumption PROVE i \in CrossAccountAssumption'
  <2>1. i \in Positions /\ i \in Positions' /\ log'[i] = log[i]
    BY LogGrows DEF CrossAccountAssumption
  <2>2. QED  BY <2>1 DEF CrossAccountAssumption
<1>3. QED  BY <1>1, <1>2

LEMMA AttemptsAreFinite ==
    ASSUME LogRead, [TrailNext]_trailVars
    PROVE  /\ IsFiniteSet(DeniedThenSuccess') /\ IsFiniteSet(RapidIamChanges')
           /\ IsFiniteSet(PolicyModifyThenAssume') /\ IsFiniteSet(CrossAccountAssumption')
<1>1. IsFiniteSet(Positions') /\ IsFiniteSet(Positions' \X Positions')
  BY PositionsAreFinite, FS_Product
<1>2. /\ DeniedThenSuccess' \subseteq Positions' \X Positions'
      /\ PolicyModifyThenAssume' \subseteq Positions' \X Positions'
      /\ CrossAccountAssumption' \subseteq Positions'
  BY DEF DeniedThenSuccess, PolicyModifyThenAssume, CrossAccountAssumption
<1>3. IsFiniteSet(RapidIamChanges')
  <2> DEFINE Starts == {k \in Positions' :
                          k \in Writes(log[k].principal)' /\ Cardinality(WindowFrom(k)') > 3}
             f == [i \in Starts |-> log'[i].principal]
  <2>1. IsFiniteSet(Starts)
    BY <1>1, FS_Subset
  <2>2. f \in Surjection(Starts, RapidIamChanges')
    <3>1. RapidIamChanges' = {log'[i].principal : i \in Starts}
      BY DEF RapidIamChanges
    <3> HIDE DEF Starts
    <3>2. QED  BY <3>1 DEF Surjection
  <2>3. QED  BY <2>1, <2>2, FS_Surjection
<1>4. QED  BY <1>1, <1>2, <1>3, FS_Subset

LEMMA EvidenceStep ==
    ASSUME LogRead, [TrailNext]_trailVars
    PROVE  /\ DeniedThenSuccess \subseteq DeniedThenSuccess'
           /\ RapidIamChanges \subseteq RapidIamChanges'
           /\ PolicyModifyThenAssume \subseteq PolicyModifyThenAssume'
           /\ CrossAccountAssumption \subseteq CrossAccountAssumption'
           /\ Score <= Score'
<1>1. /\ DeniedThenSuccess \subseteq DeniedThenSuccess'
      /\ RapidIamChanges \subseteq RapidIamChanges'
      /\ PolicyModifyThenAssume \subseteq PolicyModifyThenAssume'
      /\ CrossAccountAssumption \subseteq CrossAccountAssumption'
  BY DenialsStay, RapidChangesStay, AssumptionsStay
<1>2. /\ IsFiniteSet(DeniedThenSuccess') /\ IsFiniteSet(RapidIamChanges')
      /\ IsFiniteSet(PolicyModifyThenAssume') /\ IsFiniteSet(CrossAccountAssumption')
  BY AttemptsAreFinite
<1>3. /\ AtMost(2, DeniedThenSuccess) <= AtMost(2, DeniedThenSuccess')
      /\ AtMost(2, RapidIamChanges) <= AtMost(2, RapidIamChanges')
      /\ AtMost(1, PolicyModifyThenAssume) <= AtMost(1, PolicyModifyThenAssume')
      /\ AtMost(2, CrossAccountAssumption) <= AtMost(2, CrossAccountAssumption')
  BY <1>1, <1>2, AtMostGrows
<1>4. /\ AtMost(2, DeniedThenSuccess) \in Int /\ AtMost(2, DeniedThenSuccess') \in Int
      /\ AtMost(2, RapidIamChanges) \in Int /\ AtMost(2, RapidIamChanges') \in Int
      /\ AtMost(1, PolicyModifyThenAssume) \in Int /\ AtMost(1, PolicyModifyThenAssume') \in Int
      /\ AtMost(2, CrossAccountAssumption) \in Int /\ AtMost(2, CrossAccountAssumption') \in Int
  BY <1>1, <1>2, AtMostGrows
<1>5. Score <= Score'
  BY <1>3, <1>4 DEF Score
<1>6. QED  BY <1>1, <1>5

\* Events that arrive later take no evidence away.
THEOREM EvidenceNeverLost == TrailSpec => EvidenceAccumulates
<1>1. LogRead /\ [TrailNext]_trailVars =>
        [/\ DeniedThenSuccess \subseteq DeniedThenSuccess'
         /\ RapidIamChanges \subseteq RapidIamChanges'
         /\ PolicyModifyThenAssume \subseteq PolicyModifyThenAssume'
         /\ CrossAccountAssumption \subseteq CrossAccountAssumption'
         /\ Score <= Score']_trailVars
  BY EvidenceStep
<1>2. QED  BY <1>1, LogAlwaysRead, PTL DEF TrailSpec, EvidenceAccumulates

=============================================================================
