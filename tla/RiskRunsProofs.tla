--------------------------- MODULE RiskRunsProofs ---------------------------
(***************************************************************************)
(* Proofs about RiskRuns, for every set of rules, weights, graph and       *)
(* catalogue: what a run accounts for, what its rounds are worth,          *)
(* that power raises risk, that an account's report tells the worst of it, *)
(* that no expansion of a wildcard slips by, and that the queries answer   *)
(* what can be reached.                                                    *)
(*                                                                         *)
(* Scores are sums over sets, which the library folds; the proofs go over  *)
(* to Total, for which TotalMonotone and TotalBounds hold. Induction is by *)
(* the least number that is an exception (Least).                          *)
(***************************************************************************)
EXTENDS RiskRuns, FiniteSetTheorems, SequenceTheorems, WellFoundedInduction, TLAPS

-----------------------------------------------------------------------------
(* Matching *)

\* Whoever covers the actions of another holds each action that the other holds.
LEMMA HoldsGrows ==
    ASSUME NEW P, NEW Q, Covers(Q, {p.action : p \in P}), NEW action, Holds(P, action)
    PROVE  Holds(Q, action)
<1>1. PICK p \in P : p.action = AnyWord \/ ActionMatches(p.action, action)
  BY DEF Holds
<1>2. PICK q \in Q : q.action \in {p.action, AnyWord}
  BY DEF Covers
<1> QED
  BY <1>1, <1>2 DEF Holds

\* And meets each requirement that the other meets.
LEMMA MeetsGrows ==
    ASSUME NEW P, NEW Q, Covers(Q, {p.action : p \in P}), NEW requirement, Meets(requirement, P)
    PROVE  Meets(requirement, Q)
<1>1. \A req : MeetsLeaf(req, P) => MeetsLeaf(req, Q)
  BY HoldsGrows DEF MeetsLeaf, Combines
<1>2. \A req : MeetsInner(req, P) => MeetsInner(req, Q)
  BY HoldsGrows, <1>1 DEF MeetsInner, Combines
<1> QED
  BY HoldsGrows, <1>2 DEF Meets, Combines

\* What the rules of a run have.
RulesOK(loaded) ==
    /\ IsFiniteSet(loaded)
    /\ \A rule \in loaded : rule.boost \in Nat /\ \A t \in rule.trigger : t.match_count \in Nat

\* Cascades count matches, so they grow with them.
LEMMA MatchAllGrows ==
    ASSUME NEW loaded, RulesOK(loaded), NEW P, NEW Q, Covers(Q, {p.action : p \in P})
    PROVE  MatchAll(loaded, P) \subseteq MatchAll(loaded, Q)
<1> DEFINE Primary(R) == {rule \in loaded : MatchRule(rule, R)}
           Qualifying(R, t) == {rule \in Primary(R) : rule.tier <= t.min_tier}
<1>1. \A R : MatchAll(loaded, R) =
          Primary(R) \cup {rule \in loaded : \E t \in rule.trigger :
                               Cardinality(Qualifying(R, t)) >= t.match_count}
  BY DEF MatchAll
<1>2. Primary(P) \subseteq Primary(Q)
  BY MeetsGrows DEF MatchRule
<1>3. \A t : /\ Cardinality(Qualifying(P, t)) \in Nat /\ Cardinality(Qualifying(Q, t)) \in Nat
             /\ Cardinality(Qualifying(P, t)) <= Cardinality(Qualifying(Q, t))
  <2>1. TAKE t
  <2>2. Qualifying(P, t) \subseteq Qualifying(Q, t) /\ Qualifying(Q, t) \subseteq loaded
    BY <1>2
  <2> HIDE DEF Qualifying
  <2> QED
    BY <2>2, FS_Subset, FS_CardinalityType DEF RulesOK
<1>4. ASSUME NEW rule \in loaded, NEW t \in rule.trigger,
             Cardinality(Qualifying(P, t)) >= t.match_count
      PROVE  Cardinality(Qualifying(Q, t)) >= t.match_count
  <2> HIDE DEF Qualifying
  <2>1. t.match_count \in Nat
    BY DEF RulesOK
  <2> QED
    BY <1>3, <1>4, <2>1
<1> HIDE DEF Qualifying, Primary
<1> QED
  BY <1>1, <1>2, <1>4

\* Any permissions match rules of those loaded.
LEMMA MatchesLoaded ==
    ASSUME NEW loaded, NEW P
    PROVE  MatchAll(loaded, P) \subseteq loaded
BY DEF MatchAll

\* A set of numbers has a least one: induction is by the least number that is an exception.
LEMMA Least ==
    ASSUME NEW T \in SUBSET Nat, T # {}
    PROVE  \E n \in T : \A m \in T : n =< m
<1>1. PICK n \in T : \A m \in T : ~ (<<m, n>> \in OpToRel(<, Nat))
  BY NatLessThanWellFounded, WFMin
<1>2. \A m \in T : ~ (m < n)
  BY <1>1 DEF OpToRel
<1> QED
  BY <1>2

\* The equation that a sum over the subsets of a function's domain solves.
Solves(sums, g) ==
    sums = [s \in SUBSET DOMAIN g |->
                IF s = {} THEN 0
                ELSE g[CHOOSE y \in s : TRUE] + sums[s \ {CHOOSE y \in s : TRUE}]]

SumsOf(g) == CHOOSE sums : Solves(sums, g)

Total(g) == SumsOf(g)[DOMAIN g]

UpTo(S, n) == {s \in SUBSET S : Cardinality(s) =< n}

\* It has a solution, which is built for larger and larger subsets.
LEMMA SumsExist ==
    ASSUME NEW g, IsFiniteSet(DOMAIN g)
    PROVE  Solves(SumsOf(g), g)
<1> DEFINE S == DOMAIN g
           pick(s) == CHOOSE y \in s : TRUE
           Partly(h, n) == h = [s \in UpTo(S, n) |->
                                  IF s = {} THEN 0 ELSE g[pick(s)] + h[s \ {pick(s)}]]
           T == {n \in Nat : ~ \E h : Partly(h, n)}
<1>1. T = {}
  <2> SUFFICES ASSUME T # {} PROVE FALSE
    OBVIOUS
  <2>1. PICK n \in T : \A m \in T : n =< m
    <3> T \in SUBSET Nat
      OBVIOUS
    <3> HIDE DEF T
    <3> QED BY Least
  <2>2. \A s \in SUBSET S : /\ IsFiniteSet(s) /\ Cardinality(s) \in Nat
                            /\ Cardinality(s) = 0 <=> s = {}
    BY FS_Subset, FS_CardinalityType, FS_EmptySet
  <2>3. \A s \in SUBSET S : s # {} =>
            pick(s) \in s /\ Cardinality(s \ {pick(s)}) = Cardinality(s) - 1
    <3> SUFFICES ASSUME NEW s \in SUBSET S, s # {}
                 PROVE  pick(s) \in s /\ Cardinality(s \ {pick(s)}) = Cardinality(s) - 1
      OBVIOUS
    <3>1. pick(s) \in s
      OBVIOUS
    <3>2. IsFiniteSet(s)
      BY <2>2
    <3> HIDE DEF pick
    <3> QED
      BY <3>1, <3>2, FS_RemoveElement
  <2> HIDE DEF pick
  <2>4. CASE n = 0
    <3>1. UpTo(S, 0) = {{}}
      BY <2>2 DEF UpTo
    <3>2. Partly([s \in {{}} |-> 0], 0)
      BY <3>1
    <3> QED
      BY <2>1, <2>4, <3>2
  <2>5. CASE n # 0
    <3>0. n - 1 \in Nat /\ n - 1 \notin T
      <4> n \in Nat
        BY <2>1
      <4> HIDE DEF T
      <4> QED
        BY <2>1, <2>5
    <3> HIDE DEF Partly
    <3>1. PICK h : Partly(h, n - 1)
      BY <3>0
    <3> USE DEF Partly
    <3> DEFINE k == [s \in UpTo(S, n) |-> IF s \in UpTo(S, n - 1) THEN h[s]
                                          ELSE g[pick(s)] + h[s \ {pick(s)}]]
    <3>2. \A s \in UpTo(S, n) : s # {} => s \ {pick(s)} \in UpTo(S, n - 1)
      BY <2>1, <2>2, <2>3 DEF UpTo
    <3>3. UpTo(S, n - 1) \subseteq UpTo(S, n) /\ {} \in UpTo(S, n - 1)
      BY <2>1, <2>2, <2>5 DEF UpTo
    <3>4. \A s \in UpTo(S, n) :
              k[s] = IF s = {} THEN 0 ELSE g[pick(s)] + k[s \ {pick(s)}]
      BY <3>1, <3>2, <3>3
    <3>5. Partly(k, n)
      BY <3>4
    <3> QED
      BY <2>1, <3>5
  <2> QED
    BY <2>4, <2>5
<1>2. Cardinality(S) \in Nat
  BY FS_CardinalityType
<1>3. PICK h : Partly(h, Cardinality(S))
  BY <1>1, <1>2
<1>4. UpTo(S, Cardinality(S)) = SUBSET S
  BY FS_Subset DEF UpTo
<1>5. Solves(h, g)
  BY <1>3, <1>4 DEF Solves
<1> QED
  BY <1>5 DEF SumsOf

\* Sums of numbers are numbers.
LEMMA SumsType ==
    ASSUME NEW N, N \in {Nat, Int}, NEW g, IsFiniteSet(DOMAIN g), \A x \in DOMAIN g : g[x] \in N
    PROVE  SumsOf(g) \in [SUBSET DOMAIN g -> N]
<1> DEFINE S == DOMAIN g
           sums == SumsOf(g)
           pick(s) == CHOOSE y \in s : TRUE
           T == {n \in Nat : \E s \in SUBSET S : Cardinality(s) = n /\ sums[s] \notin N}
<1>1. \A s \in SUBSET S : sums[s] = IF s = {} THEN 0 ELSE g[pick(s)] + sums[s \ {pick(s)}]
  BY SumsExist DEF Solves
<1>2. \A s \in SUBSET S : IsFiniteSet(s) /\ Cardinality(s) \in Nat
  BY FS_Subset, FS_CardinalityType
<1>3. T = {}
  <2> SUFFICES ASSUME T # {} PROVE FALSE
    OBVIOUS
  <2>1. PICK n \in T : \A m \in T : n =< m
    <3> T \in SUBSET Nat
      OBVIOUS
    <3> HIDE DEF T
    <3> QED BY Least
  <2>2. PICK s \in SUBSET S : Cardinality(s) = n /\ sums[s] \notin N
    BY <2>1
  <2>3. s # {}
    BY <1>1, <2>2
  <2>4. pick(s) \in s
    BY <2>3
  <2> DEFINE x == pick(s)
  <2>5. sums[s] = g[x] + sums[s \ {x}]
    BY <1>1, <2>3
  <2> HIDE DEF pick, x, sums
  <2>6. Cardinality(s \ {x}) = n - 1
    BY <1>2, <2>2, <2>4, FS_RemoveElement DEF x
  <2>7. n - 1 \in Nat /\ n - 1 \notin T
    BY <1>2, <2>1, <2>6
  <2>8. sums[s \ {x}] \in N
    BY <2>6, <2>7
  <2> QED
    BY <2>2, <2>4, <2>5, <2>8 DEF x
<1>4. \A s \in SUBSET S : sums[s] \in N
  BY <1>2, <1>3
<1> QED
  BY <1>4, SumsExist DEF Solves

\* Any element of a subset may be counted first.
LEMMA SumsPick ==
    ASSUME NEW g, IsFiniteSet(DOMAIN g), \A x \in DOMAIN g : g[x] \in Int,
           NEW s \in SUBSET DOMAIN g, NEW x \in s
    PROVE  SumsOf(g)[s] = g[x] + SumsOf(g)[s \ {x}]
<1> DEFINE S == DOMAIN g
           sums == SumsOf(g)
           pick(u) == CHOOSE y \in u : TRUE
           Fails(u) == \E y \in u : sums[u] # g[y] + sums[u \ {y}]
           T == {n \in Nat : \E u \in SUBSET S : Cardinality(u) = n /\ Fails(u)}
<1>1. \A u \in SUBSET S : u # {} => pick(u) \in u /\ sums[u] = g[pick(u)] + sums[u \ {pick(u)}]
  BY SumsExist DEF Solves
<1>2. \A u \in SUBSET S : IsFiniteSet(u) /\ Cardinality(u) \in Nat
  BY FS_Subset, FS_CardinalityType
<1>3. \A u \in SUBSET S : sums[u] \in Int
  BY SumsType
<1> HIDE DEF sums, pick
<1>4. T = {}
  <2> SUFFICES ASSUME T # {} PROVE FALSE
    OBVIOUS
  <2>1. PICK n \in T : \A m \in T : n =< m
    <3> T \in SUBSET Nat
      OBVIOUS
    <3> HIDE DEF T
    <3> QED BY Least
  <2>2. PICK u \in SUBSET S : Cardinality(u) = n /\ Fails(u)
    BY <2>1
  <2>3. PICK y \in u : sums[u] # g[y] + sums[u \ {y}]
    BY <2>2
  <2>4. PICK z \in u : sums[u] = g[z] + sums[u \ {z}]
    BY <1>1, <2>3
  <2>5. z # y
    BY <2>3, <2>4
  <2>6. /\ Cardinality(u \ {y}) = n - 1 /\ Cardinality(u \ {z}) = n - 1
        /\ u \ {y} \in SUBSET S /\ u \ {z} \in SUBSET S
    BY <1>2, <2>2, FS_RemoveElement
  <2>7. n - 1 \in Nat /\ n - 1 \notin T
    BY <1>2, <2>1, <2>6
  <2>8. ~ Fails(u \ {y}) /\ ~ Fails(u \ {z})
    BY <2>6, <2>7
  <2>9. /\ sums[u \ {z}] = g[y] + sums[(u \ {z}) \ {y}]
        /\ sums[u \ {y}] = g[z] + sums[(u \ {y}) \ {z}]
    BY <2>5, <2>8
  <2>10. PICK rest \in Int : rest = sums[(u \ {y}) \ {z}]
    BY <1>3
  <2>11. (u \ {z}) \ {y} = (u \ {y}) \ {z}
    OBVIOUS
  <2>12. sums[u \ {z}] = g[y] + rest /\ sums[u \ {y}] = g[z] + rest
    BY <2>9, <2>10, <2>11
  <2>13. PICK a, b \in Int : a = g[y] /\ b = g[z]
    OBVIOUS
  <2> QED
    BY <2>3, <2>4, <2>12, <2>13
<1>5. Cardinality(s) \in Nat /\ Cardinality(s) \notin T
  BY <1>2, <1>4
<1> QED
  BY <1>5 DEF sums

\* A sum over a subset is that of the function there.
LEMMA SumsRestrict ==
    ASSUME NEW g, IsFiniteSet(DOMAIN g), \A x \in DOMAIN g : g[x] \in Int,
           NEW h, DOMAIN h \subseteq DOMAIN g, \A x \in DOMAIN h : h[x] = g[x]
    PROVE  SumsOf(g)[DOMAIN h] = Total(h)
<1> DEFINE S == DOMAIN h
           T == {n \in Nat : \E u \in SUBSET S : Cardinality(u) = n /\ SumsOf(g)[u] # SumsOf(h)[u]}
<1>1. IsFiniteSet(S)
  BY FS_Subset
<1>2. \A u \in SUBSET S : IsFiniteSet(u) /\ Cardinality(u) \in Nat
  BY <1>1, FS_Subset, FS_CardinalityType
<1>3. T = {}
  <2> SUFFICES ASSUME T # {} PROVE FALSE
    OBVIOUS
  <2>1. PICK n \in T : \A m \in T : n =< m
    <3> T \in SUBSET Nat
      OBVIOUS
    <3> HIDE DEF T
    <3> QED BY Least
  <2>2. PICK u \in SUBSET S : Cardinality(u) = n /\ SumsOf(g)[u] # SumsOf(h)[u]
    BY <2>1
  <2>3. SumsOf(g)[{}] = 0 /\ SumsOf(h)[{}] = 0
    BY <1>1, SumsExist DEF Solves
  <2>4. PICK x \in u : TRUE
    BY <2>2, <2>3
  <2>5. SumsOf(g)[u] = g[x] + SumsOf(g)[u \ {x}]
    BY SumsPick
  <2>6. SumsOf(h)[u] = h[x] + SumsOf(h)[u \ {x}]
    BY <1>1, SumsPick
  <2>7. Cardinality(u \ {x}) = n - 1 /\ u \ {x} \in SUBSET S
    BY <1>2, <2>2, FS_RemoveElement
  <2>8. n - 1 \in Nat /\ n - 1 \notin T
    BY <1>2, <2>1, <2>7
  <2>9. SumsOf(g)[u \ {x}] = SumsOf(h)[u \ {x}]
    BY <2>7, <2>8
  <2> QED
    BY <2>2, <2>5, <2>6, <2>9
<1>4. Cardinality(S) \in Nat /\ Cardinality(S) \notin T
  BY <1>2, <1>3
<1> QED
  BY <1>4 DEF Total

\* And there is no other solution.
LEMMA SolvedOnce ==
    ASSUME NEW g, IsFiniteSet(DOMAIN g), NEW sums, Solves(sums, g)
    PROVE  sums[DOMAIN g] = Total(g)
<1> DEFINE S == DOMAIN g
           other == SumsOf(g)
           T == {n \in Nat : \E u \in SUBSET S : Cardinality(u) = n /\ sums[u] # other[u]}
           pick(s) == CHOOSE y \in s : TRUE
<1>1. Solves(other, g)
  BY SumsExist
<1>2. \A u \in SUBSET S : IsFiniteSet(u) /\ Cardinality(u) \in Nat
  BY FS_Subset, FS_CardinalityType
<1> HIDE DEF other
<1>3. T = {}
  <2> SUFFICES ASSUME T # {} PROVE FALSE
    OBVIOUS
  <2>1. PICK n \in T : \A m \in T : n =< m
    <3> T \in SUBSET Nat
      OBVIOUS
    <3> HIDE DEF T
    <3> QED BY Least
  <2>2. PICK u \in SUBSET S : Cardinality(u) = n /\ sums[u] # other[u]
    BY <2>1
  <2>3. sums[{}] = 0 /\ other[{}] = 0
    BY <1>1 DEF Solves
  <2>4. pick(u) \in u
    BY <2>2, <2>3
  <2>5. /\ sums[u] = g[pick(u)] + sums[u \ {pick(u)}]
        /\ other[u] = g[pick(u)] + other[u \ {pick(u)}]
    BY <1>1, <2>4 DEF Solves
  <2> HIDE DEF pick
  <2>6. Cardinality(u \ {pick(u)}) = n - 1 /\ u \ {pick(u)} \in SUBSET S
    BY <1>2, <2>2, <2>4, FS_RemoveElement
  <2>7. n - 1 \in Nat /\ n - 1 \notin T
    BY <1>2, <2>1, <2>6
  <2>8. sums[u \ {pick(u)}] = other[u \ {pick(u)}]
    BY <2>6, <2>7
  <2> QED
    BY <2>2, <2>5, <2>8
<1>4. Cardinality(S) \in Nat /\ Cardinality(S) \notin T
  BY <1>2, <1>3
<1> QED
  BY <1>4 DEF other, Total

\* The sum of numbers is a number.
LEMMA TotalType ==
    ASSUME NEW N, N \in {Nat, Int}, NEW g, IsFiniteSet(DOMAIN g), \A x \in DOMAIN g : g[x] \in N
    PROVE  Total(g) \in N
<1>1. SumsOf(g) \in [SUBSET DOMAIN g -> N]
  BY SumsType, ZenonT(60)
<1>2. DOMAIN g \in SUBSET DOMAIN g
  OBVIOUS
<1> QED
  BY <1>1, <1>2 DEF Total

\* An empty sum is zero.
LEMMA TotalOfNone ==
    ASSUME NEW g, DOMAIN g = {}
    PROVE  Total(g) = 0
<1>1. IsFiniteSet(DOMAIN g)
  BY FS_EmptySet
<1>2. SumsOf(g)[{}] = 0
  BY <1>1, SumsExist DEF Solves
<1> QED
  BY <1>2 DEF Total

\* Any term can be taken out of a sum.
LEMMA TotalPick ==
    ASSUME NEW g, IsFiniteSet(DOMAIN g), \A x \in DOMAIN g : g[x] \in Int, NEW x \in DOMAIN g
    PROVE  Total(g) = g[x] + Total([y \in DOMAIN g \ {x} |-> g[y]])
<1> DEFINE h == [y \in DOMAIN g \ {x} |-> g[y]]
<1>1. DOMAIN h = DOMAIN g \ {x} /\ \A y \in DOMAIN h : h[y] = g[y]
  OBVIOUS
<1> HIDE DEF h
<1>2. SumsOf(g)[DOMAIN h] = Total(h)
  BY <1>1, SumsRestrict
<1>3. Total(g) = g[x] + SumsOf(g)[DOMAIN g \ {x}]
  BY SumsPick DEF Total
<1>4. Total(g) = g[x] + Total(h)
  BY <1>1, <1>2, <1>3
<1> QED
  BY <1>4 DEF h

\* A sum grows with its terms and with further terms that are not negative.
LEMMA TotalMonotone ==
    ASSUME NEW g, NEW h, IsFiniteSet(DOMAIN h), DOMAIN g \subseteq DOMAIN h,
           \A x \in DOMAIN g : g[x] \in Nat /\ g[x] =< h[x],
           \A x \in DOMAIN h : h[x] \in Nat
    PROVE  Total(g) =< Total(h)
<1> DEFINE Less(u) == SumsOf(g)[u \cap DOMAIN g] =< SumsOf(h)[u]
           T == {n \in Nat : \E u \in SUBSET DOMAIN h : Cardinality(u) = n /\ ~ Less(u)}
<1>1. \A u \in SUBSET DOMAIN h : IsFiniteSet(u) /\ Cardinality(u) \in Nat
  BY FS_Subset, FS_CardinalityType
<1>2. IsFiniteSet(DOMAIN g)
  BY FS_Subset
<1>3. \A u \in SUBSET DOMAIN h : SumsOf(h)[u] \in Nat
  BY SumsType
<1>4. \A u \in SUBSET DOMAIN g : SumsOf(g)[u] \in Nat
  BY <1>2, SumsType
<1>5. T = {}
  <2> SUFFICES ASSUME T # {} PROVE FALSE
    OBVIOUS
  <2>1. PICK n \in T : \A m \in T : n =< m
    <3> T \in SUBSET Nat
      OBVIOUS
    <3> HIDE DEF T
    <3> QED BY Least
  <2>2. PICK u \in SUBSET DOMAIN h : Cardinality(u) = n /\ ~ Less(u)
    BY <2>1
  <2>3. SumsOf(g)[{}] = 0 /\ SumsOf(h)[{}] = 0
    BY <1>2, SumsExist DEF Solves
  <2>4. PICK x \in u : TRUE
    <3>1. {} \cap DOMAIN g = {}
      OBVIOUS
    <3>2. Less({})
      BY <2>3, <3>1
    <3> QED
      BY <2>2, <3>2
  <2>5. Cardinality(u \ {x}) = n - 1 /\ u \ {x} \in SUBSET DOMAIN h
    BY <1>1, <2>2, FS_RemoveElement
  <2>6. n - 1 \in Nat /\ n - 1 \notin T
    BY <1>1, <2>1, <2>5
  <2>7. Less(u \ {x})
    BY <2>5, <2>6
  <2> DEFINE a == SumsOf(g)[(u \ {x}) \cap DOMAIN g]
             b == SumsOf(h)[u \ {x}]
  <2>8. a \in Nat /\ b \in Nat /\ a =< b
    BY <1>3, <1>4, <2>7
  <2>9. SumsOf(h)[u] = h[x] + b
    BY SumsPick
  <2>10. CASE x \in DOMAIN g
    <3>1. (u \cap DOMAIN g) \ {x} = (u \ {x}) \cap DOMAIN g
      OBVIOUS
    <3>2. SumsOf(g)[u \cap DOMAIN g] = g[x] + a
      BY <1>2, <2>10, <3>1, SumsPick
    <3> HIDE DEF a, b
    <3> QED
      BY <2>2, <2>8, <2>9, <2>10, <3>2
  <2>11. CASE x \notin DOMAIN g
    <3>1. u \cap DOMAIN g = (u \ {x}) \cap DOMAIN g
      BY <2>11
    <3>2. SumsOf(g)[u \cap DOMAIN g] = a
      BY <3>1
    <3> HIDE DEF a, b
    <3> QED
      BY <2>2, <2>8, <2>9, <3>2
  <2> QED
    BY <2>10, <2>11
<1>6. Cardinality(DOMAIN h) \in Nat /\ Cardinality(DOMAIN h) \notin T
  BY <1>1, <1>5
<1>7. Less(DOMAIN h)
  BY <1>6
<1>8. DOMAIN h \cap DOMAIN g = DOMAIN g
  OBVIOUS
<1> QED
  BY <1>7, <1>8 DEF Total

\* A sum lies between the multiples of a bound below and a bound above of its terms.
LEMMA TotalBounds ==
    ASSUME NEW g, IsFiniteSet(DOMAIN g), NEW low \in Int, NEW high \in Int,
           \A x \in DOMAIN g : g[x] \in Int /\ low =< g[x] /\ g[x] =< high
    PROVE  /\ low * Cardinality(DOMAIN g) =< Total(g)
           /\ Total(g) =< high * Cardinality(DOMAIN g)
<1> DEFINE Lies(u) == /\ low * Cardinality(u) =< SumsOf(g)[u]
                      /\ SumsOf(g)[u] =< high * Cardinality(u)
           T == {n \in Nat : \E u \in SUBSET DOMAIN g : Cardinality(u) = n /\ ~ Lies(u)}
<1>1. \A u \in SUBSET DOMAIN g : IsFiniteSet(u) /\ Cardinality(u) \in Nat
  BY FS_Subset, FS_CardinalityType
<1>2. \A u \in SUBSET DOMAIN g : SumsOf(g)[u] \in Int
  BY SumsType
<1>3. T = {}
  <2> SUFFICES ASSUME T # {} PROVE FALSE
    OBVIOUS
  <2>1. PICK n \in T : \A m \in T : n =< m
    <3> T \in SUBSET Nat
      OBVIOUS
    <3> HIDE DEF T
    <3> QED BY Least
  <2>2. PICK u \in SUBSET DOMAIN g : Cardinality(u) = n /\ ~ Lies(u)
    BY <2>1
  <2>3. u # {}
    <3>1. SumsOf(g)[{}] = 0
      BY SumsExist DEF Solves
    <3>2. Cardinality({}) = 0
      BY FS_EmptySet
    <3>3. Lies({})
      BY <3>1, <3>2
    <3> QED
      BY <2>2, <3>3
  <2>4. PICK x \in u : TRUE
    BY <2>3
  <2>5. Cardinality(u \ {x}) = n - 1 /\ u \ {x} \in SUBSET DOMAIN g
    BY <1>1, <2>2, FS_RemoveElement
  <2>6. n - 1 \in Nat /\ n - 1 \notin T
    BY <1>1, <2>1, <2>5
  <2>7. Lies(u \ {x})
    BY <2>5, <2>6
  <2>8. SumsOf(g)[u] = g[x] + SumsOf(g)[u \ {x}]
    BY SumsPick
  <2>9. PICK a, b \in Int : a = g[x] /\ b = SumsOf(g)[u \ {x}]
    BY <1>2
  <2>10. low * (n - 1) =< b /\ b =< high * (n - 1) /\ low =< a /\ a =< high
    BY <2>5, <2>7, <2>9
  <2>11. low * (n - 1) = low * n - low /\ high * (n - 1) = high * n - high
    BY <2>6
  <2>12. low * n =< a + b /\ a + b =< high * n
    BY <2>6, <2>10, <2>11
  <2> QED
    BY <2>2, <2>8, <2>9, <2>12
<1>4. Cardinality(DOMAIN g) \in Nat /\ Cardinality(DOMAIN g) \notin T
  BY <1>1, <1>3
<1>5. Lies(DOMAIN g)
  BY <1>4
<1> QED
  BY <1>5 DEF Total

\* What a function takes a finite set to is finite and no larger.
LEMMA ImageFinite ==
    ASSUME NEW f, IsFiniteSet(DOMAIN f)
    PROVE  /\ IsFiniteSet({f[x] : x \in DOMAIN f})
           /\ Cardinality({f[x] : x \in DOMAIN f}) =< Cardinality(DOMAIN f)
<1> DEFINE S == DOMAIN f
           T == {f[x] : x \in S}
           g == [x \in S |-> f[x]]
<1>1. g \in Surjection(S, T)
  BY DEF Surjection
<1> HIDE DEF g
<1> QED
  BY <1>1, FS_Surjection

\* The largest and the least element of finitely many numbers.
LEMMA MaxOf ==
    ASSUME NEW S \in SUBSET Int, IsFiniteSet(S), S # {}
    PROVE  Max(S) \in S /\ \A x \in S : x =< Max(S)
<1> DEFINE Tops(u) == \E y \in u : \A x \in u : x =< y
           T == {n \in Nat : \E u \in SUBSET S : u # {} /\ Cardinality(u) = n /\ ~ Tops(u)}
<1>1. \A u \in SUBSET S : IsFiniteSet(u) /\ Cardinality(u) \in Nat
  BY FS_Subset, FS_CardinalityType
<1>2. T = {}
  <2> SUFFICES ASSUME T # {} PROVE FALSE
    OBVIOUS
  <2>1. PICK n \in T : \A m \in T : n =< m
    <3> T \in SUBSET Nat
      OBVIOUS
    <3> HIDE DEF T
    <3> QED BY Least
  <2>2. PICK u \in SUBSET S : u # {} /\ Cardinality(u) = n /\ ~ Tops(u)
    BY <2>1
  <2>3. PICK x \in u : TRUE
    BY <2>2
  <2>4. Cardinality(u \ {x}) = n - 1 /\ u \ {x} \in SUBSET S
    BY <1>1, <2>2, FS_RemoveElement
  <2>5. n - 1 \in Nat /\ n - 1 \notin T
    BY <1>1, <2>1, <2>4
  <2>6. CASE u \ {x} = {}
    <3>1. u = {x} /\ x \in Int
      BY <2>6
    <3> QED
      BY <2>2, <3>1
  <2>7. CASE u \ {x} # {}
    <3>1. PICK y \in u \ {x} : \A z \in u \ {x} : z =< y
      BY <2>4, <2>5, <2>7
    <3>2. x \in Int /\ y \in Int /\ u \subseteq Int
      OBVIOUS
    <3>3. CASE x =< y
      BY <2>2, <3>1, <3>2, <3>3
    <3>4. CASE y =< x
      <4>1. \A z \in u : z =< x
        BY <3>1, <3>2, <3>4
      <4> QED
        BY <2>2, <4>1
    <3> QED
      BY <3>2, <3>3, <3>4
  <2> QED
    BY <2>6, <2>7
<1>3. Cardinality(S) \in Nat /\ Cardinality(S) \notin T
  BY <1>1, <1>2
<1>4. PICK y \in S : \A x \in S : x =< y
  BY <1>3
<1> QED
  BY <1>4 DEF Max

\* A finite set of numbers has a least one.
LEMMA MinOf ==
    ASSUME NEW S \in SUBSET Int, IsFiniteSet(S), S # {}
    PROVE  Min(S) \in S /\ \A x \in S : Min(S) =< x
<1> DEFINE T == {0 - x : x \in S}
<1>1. T \in SUBSET Int /\ T # {}
  <2>1. \A x \in S : 0 - x \in Int
    OBVIOUS
  <2> QED
    BY <2>1
<1>2. IsFiniteSet(T)
  <2> DEFINE f == [x \in S |-> 0 - x]
  <2>1. DOMAIN f = S /\ T = {f[x] : x \in DOMAIN f}
    OBVIOUS
  <2> HIDE DEF f, T
  <2> QED
    BY <2>1, ImageFinite
<1> HIDE DEF T
<1>3. Max(T) \in T /\ \A x \in T : x =< Max(T)
  BY <1>1, <1>2, MaxOf
<1> USE DEF T
<1>4. PICK y \in S : Max(T) = 0 - y
  BY <1>3
<1>5. \A x \in S : 0 - x =< 0 - y
  BY <1>3, <1>4
<1>6. \A x \in S : y =< x
  BY <1>5
<1> QED
  BY <1>6 DEF Min

\* Of two numbers.
LEMMA MinOfTwo ==
    ASSUME NEW a \in Int, NEW b \in Int
    PROVE  Min({a, b}) = IF a =< b THEN a ELSE b
BY DEF Min

\* The greater of two numbers.
LEMMA MaxOfTwo ==
    ASSUME NEW a \in Int, NEW b \in Int
    PROVE  Max({a, b}) = IF a =< b THEN b ELSE a
BY DEF Max

-----------------------------------------------------------------------------
(* Logarithms *)

\* The powers of ten that Log10 interpolates between.
LEMMA Powers ==
    /\ 10^0 = 1 /\ 10^1 = 10 /\ 10^2 = 100 /\ 10^3 = 1000 /\ 10^4 = 10000 /\ 10^5 = 100000
    /\ 10^6 = 1000000 /\ 10^7 = 10000000 /\ 10^8 = 100000000
OBVIOUS

\* They are positive, and each is ten times the one before.
LEMMA TenPowers ==
    /\ \A d \in 0..8 : 10^d \in Nat \ {0}
    /\ \A d \in 0..7 : 10^(d + 1) = 10 * 10^d
<1>1. 0..8 = {0, 1, 2, 3, 4, 5, 6, 7, 8} /\ 0..7 = {0, 1, 2, 3, 4, 5, 6, 7}
  OBVIOUS
<1>2. \A d \in {0, 1, 2, 3, 4, 5, 6, 7, 8} : 10^d \in Nat \ {0}
  <2>1. /\ 10^0 \in Nat \ {0} /\ 10^1 \in Nat \ {0} /\ 10^2 \in Nat \ {0}
        /\ 10^3 \in Nat \ {0} /\ 10^4 \in Nat \ {0} /\ 10^5 \in Nat \ {0}
        /\ 10^6 \in Nat \ {0} /\ 10^7 \in Nat \ {0} /\ 10^8 \in Nat \ {0}
    BY Powers
  <2> QED
    BY <2>1, Zenon
<1>3. \A d \in {0, 1, 2, 3, 4, 5, 6, 7} : 10^(d + 1) = 10 * 10^d
  <2>1. /\ 10^(0 + 1) = 10 * 10^0 /\ 10^(1 + 1) = 10 * 10^1 /\ 10^(2 + 1) = 10 * 10^2
        /\ 10^(3 + 1) = 10 * 10^3 /\ 10^(4 + 1) = 10 * 10^4 /\ 10^(5 + 1) = 10 * 10^5
        /\ 10^(6 + 1) = 10 * 10^6 /\ 10^(7 + 1) = 10 * 10^7
    BY Powers
  <2> QED
    BY <2>1, Zenon
<1> QED
  BY <1>1, <1>2, <1>3, Zenon

\* Dividing by the same keeps the order.
LEMMA Quotients ==
    ASSUME NEW a \in Int, NEW b \in Int, a =< b, NEW c \in Nat \ {0}
    PROVE  /\ a \div c \in Int /\ b \div c \in Int /\ a \div c =< b \div c
           /\ c * (a \div c) =< a /\ a < c * (a \div c) + c
           /\ a >= 0 => a \div c >= 0
OBVIOUS

Digits(n) == Max({d \in 0..8 : 10^d =< n})

\* The greatest of them that is not above a number.
LEMMA DigitsOf ==
    ASSUME NEW n \in Nat \ {0}
    PROVE  /\ Digits(n) \in 0..8 /\ 10^Digits(n) =< n
           /\ \A d \in 0..8 : 10^d =< n => d =< Digits(n)
<1> DEFINE S == {d \in 0..8 : 10^d =< n}
<1>1. 0 \in S
  BY Powers
<1>2. IsFiniteSet(S)
  <2>1. IsFiniteSet(0..8)
    <3>1. 0 \in Int /\ 8 \in Int
      OBVIOUS
    <3> QED
      BY <3>1, FS_Interval, Zenon
  <2>2. S \in SUBSET (0..8)
    OBVIOUS
  <2> HIDE DEF S
  <2> QED
    BY <2>1, <2>2, FS_Subset
<1>3. S \in SUBSET Int
  OBVIOUS
<1>4. Max(S) \in S /\ \A d \in S : d =< Max(S)
  <2> HIDE DEF S
  <2> QED
    BY <1>1, <1>2, <1>3, MaxOf
<1> QED
  BY <1>4 DEF Digits

\* The bounds of an interpolated logarithm.
LEMMA LogOf ==
    ASSUME NEW n \in Nat \ {0}
    PROVE  /\ Log10(n) \in Nat /\ Log10(n) >= 1000 * Digits(n)
           /\ n < 10 * 10^Digits(n) => Log10(n) =< 1000 * Digits(n) + 1000
           /\ n > 1 => Log10(n) > 0
<1> DEFINE d == Digits(n)
           q == 10^d
           r == 1000 * (n - q)
<1>1. d \in 0..8 /\ q \in Nat \ {0} /\ q =< n
  BY DigitsOf, TenPowers
<1>2. Log10(n) = 1000 * d + r \div (9 * q)
  BY DEF Log10, Digits
<1> HIDE DEF d, q
<1>3. r \in Nat /\ 9 * q \in Nat \ {0}
  BY <1>1
<1>4. r \div (9 * q) \in Nat
  BY <1>3, Quotients
<1>5. n < 10 * q => r \div (9 * q) =< 1000
  <2> SUFFICES ASSUME n < 10 * q PROVE r \div (9 * q) =< 1000
    OBVIOUS
  <2>1. r =< 1000 * (9 * q)
    BY <1>1
  <2>2. (1000 * (9 * q)) \div (9 * q) = 1000
    BY <1>3
  <2> HIDE DEF r
  <2> QED
    BY <1>3, <2>1, <2>2, Quotients
<1>6. ASSUME n > 1, d = 0 PROVE r \div (9 * q) > 0
  <2>1. q = 1
    BY <1>6, Powers DEF q
  <2> QED
    BY <1>6, <2>1
<1> HIDE DEF r
<1>7. Log10(n) \in Nat /\ Log10(n) >= 1000 * d /\ (n > 1 => Log10(n) > 0)
  BY <1>1, <1>2, <1>4, <1>6
<1>8. n < 10 * q => Log10(n) =< 1000 * d + 1000
  BY <1>1, <1>2, <1>4, <1>5
<1> QED
  BY <1>7, <1>8 DEF d, q

\* It does not fall, within an interval or from one to the next.
LEMMA LogGrows ==
    ASSUME NEW m \in Nat \ {0}, NEW n \in Nat \ {0}, m =< n
    PROVE  Log10(m) =< Log10(n)
<1>1. /\ Digits(m) \in 0..8 /\ Digits(n) \in 0..8 /\ 10^Digits(m) =< m
      /\ \A d \in 0..8 : 10^d =< m => d =< Digits(m)
      /\ \A d \in 0..8 : 10^d =< n => d =< Digits(n)
  BY DigitsOf
<1>2. Digits(m) =< Digits(n)
  <2>1. 10^Digits(m) =< n
    <3> DEFINE q == 10^Digits(m)
    <3>1. q \in Nat \ {0} /\ q =< m
      BY <1>1, TenPowers, Zenon
    <3> HIDE DEF q
    <3>2. q =< n
      BY <3>1
    <3> QED
      BY <3>2 DEF q
  <2> QED
    BY <1>1, <2>1
<1>3. CASE Digits(m) = Digits(n)
  <2> DEFINE d == Digits(m)
             q == 10^d
             a == 1000 * (m - q)
             b == 1000 * (n - q)
  <2>1. /\ Log10(m) = 1000 * d + a \div (9 * q)
        /\ Log10(n) = 1000 * d + b \div (9 * q)
    BY <1>3 DEF Log10, Digits
  <2>2. d \in Nat /\ q \in Nat \ {0}
    <3>1. q \in Nat \ {0}
      BY <1>1, TenPowers, Zenon
    <3> QED
      BY <1>1, <3>1
  <2> HIDE DEF d, q
  <2>3. a \in Int /\ b \in Int /\ a =< b /\ 9 * q \in Nat \ {0}
    BY <2>2
  <2> HIDE DEF a, b
  <2>4. /\ a \div (9 * q) \in Int /\ b \div (9 * q) \in Int
        /\ a \div (9 * q) =< b \div (9 * q)
    BY <2>3, Quotients
  <2> QED
    BY <2>1, <2>2, <2>4
<1>4. CASE Digits(m) < Digits(n)
  <2> DEFINE d == Digits(m)
  <2>1. d \in 0..7 /\ d + 1 \in 0..8
    BY <1>1, <1>4
  <2>2. ~ (10^(d + 1) =< m)
    <3>1. \A e \in 0..8 : 10^e =< m => e =< d
      BY <1>1
    <3>2. ~ (d + 1 =< d)
      BY <2>1
    <3> QED
      BY <2>1, <3>1, <3>2, Zenon
  <2>3. m < 10 * 10^d
    <3>1. 10^(d + 1) = 10 * 10^d /\ 10 * 10^d \in Nat
      BY <2>1, TenPowers
    <3> QED
      BY <2>2, <3>1
  <2>4. Log10(m) =< 1000 * d + 1000 /\ Log10(m) \in Nat
    BY <2>3, LogOf
  <2>5. Log10(n) >= 1000 * Digits(n) /\ Log10(n) \in Nat
    BY LogOf
  <2> QED
    BY <1>1, <1>4, <2>4, <2>5
<1> QED
  BY <1>1, <1>2, <1>3, <1>4

-----------------------------------------------------------------------------
(* Signals *)

\* Nor does its normalisation.
LEMMA LogNormalized ==
    ASSUME NEW raw \in Nat, NEW more \in Nat, raw =< more, NEW max \in Nat \ {0}
    PROVE  /\ LogNormalize(raw, max) \in Nat /\ LogNormalize(more, max) \in Nat
           /\ LogNormalize(raw, max) =< LogNormalize(more, max)
<1> DEFINE c == Log10(max + 1)
           a == 1000 * Log10(raw + 1)
           b == 1000 * Log10(more + 1)
<1>1. c \in Nat \ {0}
  BY LogOf
<1>2. a \in Nat /\ b \in Nat /\ a =< b
  <2>1. PICK la, lb \in Nat : la = Log10(raw + 1) /\ lb = Log10(more + 1) /\ la =< lb
    <3>1. raw + 1 \in Nat \ {0} /\ more + 1 \in Nat \ {0} /\ raw + 1 =< more + 1
      OBVIOUS
    <3>2. \A n \in Nat \ {0} : Log10(n) \in Nat
      BY LogOf
    <3>3. Log10(raw + 1) =< Log10(more + 1)
      BY <3>1, LogGrows, Zenon
    <3> QED
      BY <3>1, <3>2, <3>3, Zenon
  <2> QED
    BY <2>1
<1>3. /\ LogNormalize(raw, max) = IF raw =< 0 THEN 0 ELSE a \div c
      /\ LogNormalize(more, max) = IF more =< 0 THEN 0 ELSE b \div c
  BY DEF LogNormalize
<1> HIDE DEF a, b, c
<1>4. a \div c \in Nat /\ b \div c \in Nat /\ a \div c =< b \div c
  BY <1>1, <1>2, Quotients
<1> QED
  BY <1>3, <1>4

\* Nor does a ratio that is cut at one.
LEMMA LinearCapped ==
    ASSUME NEW raw \in Nat, NEW more \in Nat, raw =< more, NEW cap \in Nat \ {0}
    PROVE  /\ LinearCap(raw, cap) \in Nat /\ LinearCap(more, cap) \in Nat
           /\ LinearCap(raw, cap) =< LinearCap(more, cap)
<1> DEFINE a == 1000 * raw
           b == 1000 * more
<1>1. /\ LinearCap(raw, cap) = Min({1000, a \div cap})
      /\ LinearCap(more, cap) = Min({1000, b \div cap})
  BY DEF LinearCap
<1>2. a \in Nat /\ b \in Nat /\ a =< b
  OBVIOUS
<1> HIDE DEF a, b
<1>3. a \div cap \in Nat /\ b \div cap \in Nat /\ a \div cap =< b \div cap
  BY <1>2, Quotients
<1> DEFINE x == a \div cap
           y == b \div cap
<1> HIDE DEF x, y
<1>4. x \in Nat /\ y \in Nat /\ x =< y
  BY <1>3 DEF x, y
<1>5. /\ Min({1000, x}) = IF 1000 =< x THEN 1000 ELSE x
      /\ Min({1000, y}) = IF 1000 =< y THEN 1000 ELSE y
  BY <1>4, MinOfTwo
<1> QED
  BY <1>1, <1>4, <1>5 DEF x, y

\* The nearer the more.
LEMMA InverseNormalized ==
    ASSUME NEW raw \in Nat, NEW less \in Nat, less =< raw
    PROVE  /\ InverseNormalize(raw, 8) \in Nat /\ InverseNormalize(less, 8) \in Nat
           /\ InverseNormalize(raw, 8) =< InverseNormalize(less, 8)
           /\ InverseNormalize(raw, 8) =< 1000
<1> DEFINE x == 1000 - (1000 * raw) \div 8
           y == 1000 - (1000 * less) \div 8
<1>1. x \in Int /\ y \in Int /\ x =< y /\ x =< 1000 /\ y =< 1000
  OBVIOUS
<1>2. /\ InverseNormalize(raw, 8) = IF raw =< 0 THEN 1000 ELSE Max({0, x})
      /\ InverseNormalize(less, 8) = IF less =< 0 THEN 1000 ELSE Max({0, y})
  BY DEF InverseNormalize
<1> HIDE DEF x, y
<1>3. /\ Max({0, x}) = IF 0 =< x THEN x ELSE 0
      /\ Max({0, y}) = IF 0 =< y THEN y ELSE 0
  BY <1>1, MaxOfTwo
<1> QED
  BY <1>1, <1>2, <1>3

\* What the signals are read from: counts, and one distance or none.
Reads == [reach : Nat, distance : {{}} \cup {{n} : n \in Nat}, hops : Nat]

\* A nearer administrator does not count for less.
LEMMA PathNearer ==
    ASSUME NEW p \in {{}} \cup {{n} : n \in Nat}, NEW q \in {{}} \cup {{n} : n \in Nat},
           \A d \in p : \E c \in q : c =< d
    PROVE  PathSignal(p) \in Nat /\ PathSignal(q) \in Nat /\ PathSignal(p) =< PathSignal(q)
<1>1. ASSUME NEW n \in Nat PROVE PathSignal({n}) = InverseNormalize(n, 8)
  <2>1. (CHOOSE d \in {n} : TRUE) = n
    OBVIOUS
  <2> QED
    BY <2>1 DEF PathSignal
<1>2. PathSignal({}) = 0
  BY DEF PathSignal
<1>3. \A n \in Nat : InverseNormalize(n, 8) \in Nat
  BY InverseNormalized
<1>4. CASE p = {}
  <2>1. CASE q = {}
    BY <1>2, <1>4, <2>1
  <2>2. ASSUME NEW n \in Nat, q = {n} PROVE PathSignal(q) \in Nat
    BY <1>1, <1>3, <2>2
  <2> QED
    BY <1>2, <1>4, <2>1, <2>2
<1>5. ASSUME NEW n \in Nat, p = {n}
      PROVE  PathSignal(p) \in Nat /\ PathSignal(q) \in Nat /\ PathSignal(p) =< PathSignal(q)
  <2>1. PICK m \in q : m =< n
    BY <1>5
  <2>2. m \in Nat /\ q = {m}
    BY <2>1
  <2>3. /\ InverseNormalize(n, 8) \in Nat /\ InverseNormalize(m, 8) \in Nat
        /\ InverseNormalize(n, 8) =< InverseNormalize(m, 8)
    BY <2>1, <2>2, InverseNormalized
  <2>4. PathSignal(p) = InverseNormalize(n, 8) /\ PathSignal(q) = InverseNormalize(m, 8)
    BY <1>1, <1>5, <2>2
  <2> QED
    BY <2>3, <2>4
<1> QED
  BY <1>4, <1>5

\* The sums of the model are totals.
LEMMA DangerTotal ==
    ASSUME NEW P
    PROVE  DangerSignal(P) = LinearCap(Total([d \in Dangers(P) |-> TierWeight(d.tier)]), 20)
<1> DEFINE S == Dangers(P)
           g == [d \in S |-> TierWeight(d.tier)]
           Eq(sums) == [s \in SUBSET S |->
                          IF s = {} THEN 0
                          ELSE TierWeight((CHOOSE y \in s : TRUE).tier)
                               + sums[s \ {CHOOSE y \in s : TRUE}]]
           sums == CHOOSE k : k = Eq(k)
<1>1. S \subseteq Registry
  BY DEF Dangers
<1>2. DOMAIN g = S /\ IsFiniteSet(S)
  BY <1>1, SignalsAssumption, FS_Subset
<1> HIDE DEF S
<1>3. MapThenSumSet(LAMBDA d : TierWeight(d.tier), S) = sums[S]
  BY DEF MapThenSumSet, MapThenFoldSet
<1>4. \A k : Solves(k, g) <=> k = Eq(k)
  BY <1>2 DEF Solves
<1>5. Solves(sums, g)
  <2> HIDE DEF Eq, g
  <2> QED
    BY <1>2, <1>4, SumsExist
<1> HIDE DEF sums
<1>6. sums[S] = Total(g)
  BY <1>2, <1>5, SolvedOnce
<1> QED
  BY <1>3, <1>6 DEF S, DangerSignal

\* The fold of the permission surface is a sum.
LEMMA SurfaceTotal ==
    ASSUME NEW P, IsFiniteSet(P)
    PROVE  SurfaceSignal(P)
               = LogNormalize(Total([p \in P |-> IF p.action = AnyWord THEN CatalogSize ELSE 1]),
                              CatalogSize)
<1> DEFINE S == P
           g == [p \in S |-> IF p.action = AnyWord THEN CatalogSize ELSE 1]
           Eq(sums) == [s \in SUBSET S |->
                          IF s = {} THEN 0
                          ELSE (IF (CHOOSE y \in s : TRUE).action = AnyWord THEN CatalogSize ELSE 1)
                               + sums[s \ {CHOOSE y \in s : TRUE}]]
           sums == CHOOSE k : k = Eq(k)
<1>1. DOMAIN g = S /\ IsFiniteSet(S)
  OBVIOUS
<1> HIDE DEF S
<1>2. MapThenSumSet(LAMBDA p : IF p.action = AnyWord THEN CatalogSize ELSE 1, S) = sums[S]
  BY DEF MapThenSumSet, MapThenFoldSet
<1>3. \A k : Solves(k, g) <=> k = Eq(k)
  BY <1>1, ZenonT(60) DEF Solves
<1>4. Solves(sums, g)
  <2> HIDE DEF Eq, g
  <2> QED
    BY <1>1, <1>3, SumsExist
<1> HIDE DEF sums
<1>5. sums[S] = Total(g)
  BY <1>1, <1>4, SolvedOnce
<1> QED
  BY <1>2, <1>5 DEF S, SurfaceSignal

\* The fold of the boosts is a sum, cut at 30.
LEMMA BoostTotal ==
    ASSUME NEW matched, IsFiniteSet(matched)
    PROVE  RuleBoost(matched) = Min({30, Total([rule \in matched |-> rule.boost])})
<1> DEFINE S == matched
           g == [rule \in S |-> rule.boost]
           Eq(sums) == [s \in SUBSET S |->
                          IF s = {} THEN 0
                          ELSE (CHOOSE y \in s : TRUE).boost
                               + sums[s \ {CHOOSE y \in s : TRUE}]]
           sums == CHOOSE k : k = Eq(k)
<1>1. DOMAIN g = S /\ IsFiniteSet(S)
  OBVIOUS
<1> HIDE DEF S
<1>2. MapThenSumSet(LAMBDA rule : rule.boost, S) = sums[S]
  BY DEF MapThenSumSet, MapThenFoldSet
<1>3. \A k : Solves(k, g) <=> k = Eq(k)
  BY <1>1, ZenonT(60) DEF Solves
<1>4. Solves(sums, g)
  <2> HIDE DEF Eq, g
  <2> QED
    BY <1>1, <1>3, SumsExist
<1> HIDE DEF sums
<1>5. sums[S] = Total(g)
  BY <1>1, <1>4, SolvedOnce
<1> QED
  BY <1>2, <1>5 DEF S, RuleBoost

\* There are five signals.
LEMMA SignalsFinite == IsFiniteSet(Signals)
<1> DEFINE names == [n \in 1..5 |-> CASE n = 1 -> "blast_radius" [] n = 2 -> "path_to_admin"
                                      [] n = 3 -> "dangerous_action_count"
                                      [] n = 4 -> "cross_account_hops"
                                      [] n = 5 -> "permission_surface"]
<1>1. Signals = {names[n] : n \in DOMAIN names}
  <2>1. 1..5 = {1, 2, 3, 4, 5}
    OBVIOUS
  <2> QED
    BY <2>1 DEF Signals
<1>2. DOMAIN names = 1..5
  OBVIOUS
<1>3. IsFiniteSet(1..5)
  <2>1. 1 \in Int /\ 5 \in Int
    OBVIOUS
  <2> QED
    BY <2>1, FS_Interval, Zenon
<1> HIDE DEF names
<1> QED
  BY <1>1, <1>2, <1>3, ImageFinite

\* The fold of the weighted signals is a sum.
LEMMA SignalsTotal ==
    ASSUME NEW weights, NEW values
    PROVE  SignalTotal(weights, values)
               = Total([name \in Signals |-> Weight(weights, name) * values[name]])
<1> DEFINE S == Signals
           g == [name \in S |-> Weight(weights, name) * values[name]]
           Eq(sums) == [s \in SUBSET S |->
                          IF s = {} THEN 0
                          ELSE Weight(weights, (CHOOSE y \in s : TRUE)) * values[(CHOOSE y \in s : TRUE)]
                               + sums[s \ {CHOOSE y \in s : TRUE}]]
           sums == CHOOSE k : k = Eq(k)
<1>1. DOMAIN g = S /\ IsFiniteSet(S)
  BY SignalsFinite
<1> HIDE DEF S
<1>2. MapThenSumSet(LAMBDA name : Weight(weights, name) * values[name], S) = sums[S]
  BY DEF MapThenSumSet, MapThenFoldSet
<1>3. \A k : Solves(k, g) <=> k = Eq(k)
  BY <1>1, ZenonT(60) DEF Solves
<1>4. Solves(sums, g)
  <2> HIDE DEF Eq, g
  <2> QED
    BY <1>1, <1>3, SumsExist
<1> HIDE DEF sums
<1>5. sums[S] = Total(g)
  BY <1>1, <1>4, SolvedOnce
<1> QED
  BY <1>2, <1>5 DEF S, SignalTotal

\* Whoever covers the actions of another has each of its dangers.
LEMMA DangersGrow ==
    ASSUME NEW P, NEW Q, Covers(Q, {p.action : p \in P})
    PROVE  Dangers(P) \subseteq Dangers(Q)
<1>1. CASE \E q \in Q : q.action = AnyWord
  BY <1>1 DEF Dangers
<1>2. CASE ~ \E q \in Q : q.action = AnyWord
  <2>1. \A p \in P : \E q \in Q : q.action = p.action
    BY <1>2 DEF Covers
  <2>2. ~ \E p \in P : p.action = AnyWord
    BY <1>2, <2>1
  <2>3. \A action : HoldsPrefix(P, action) => HoldsPrefix(Q, action)
    BY <2>1 DEF HoldsPrefix
  <2> QED
    BY <1>2, <2>2, <2>3 DEF Dangers
<1> QED
  BY <1>1, <1>2

\* So the signal of dangerous actions does not fall.
LEMMA DangerGrows ==
    ASSUME NEW P, NEW Q, Covers(Q, {p.action : p \in P})
    PROVE  /\ DangerSignal(P) \in Nat /\ DangerSignal(Q) \in Nat
           /\ DangerSignal(P) =< DangerSignal(Q)
<1> DEFINE g == [d \in Dangers(P) |-> TierWeight(d.tier)]
           h == [d \in Dangers(Q) |-> TierWeight(d.tier)]
<1>1. \A tier : TierWeight(tier) \in Nat
  BY DEF TierWeight
<1>2. Dangers(P) \subseteq Dangers(Q) /\ IsFiniteSet(Dangers(P)) /\ IsFiniteSet(Dangers(Q))
  <2>1. Dangers(P) \subseteq Registry /\ Dangers(Q) \subseteq Registry
    BY DEF Dangers
  <2> QED
    BY <2>1, DangersGrow, SignalsAssumption, FS_Subset
<1>3. /\ DOMAIN g = Dangers(P) /\ \A d \in Dangers(P) : g[d] = TierWeight(d.tier)
      /\ DOMAIN h = Dangers(Q) /\ \A d \in Dangers(Q) : h[d] = TierWeight(d.tier)
  OBVIOUS
<1>4. DangerSignal(P) = LinearCap(Total(g), 20) /\ DangerSignal(Q) = LinearCap(Total(h), 20)
  BY DangerTotal
<1> HIDE DEF g, h
<1>5. /\ DOMAIN g \subseteq DOMAIN h /\ IsFiniteSet(DOMAIN g) /\ IsFiniteSet(DOMAIN h)
      /\ \A d \in DOMAIN g : g[d] \in Nat /\ g[d] =< h[d]
      /\ \A d \in DOMAIN h : h[d] \in Nat
  BY <1>1, <1>2, <1>3
<1>6. Total(g) \in Nat /\ Total(h) \in Nat /\ Total(g) =< Total(h)
  BY <1>5, TotalType, TotalMonotone
<1> QED
  BY <1>4, <1>6, LinearCapped

\* What a permission counts for.
Surface(p) == IF p.action = AnyWord THEN CatalogSize ELSE 1

Surfaces(P) == [p \in P |-> Surface(p)]

\* Permissions which for each action are no more count for no more: pair by pair.
LEMMA SurfacesByAction ==
    ASSUME NEW P, NEW Q, IsFiniteSet(P), IsFiniteSet(Q),
           \A p \in P : RowsWith(P, p.action) =< RowsWith(Q, p.action)
    PROVE  Total(Surfaces(P)) =< Total(Surfaces(Q))
<1> DEFINE Fewer(A, B) == \A p \in A : RowsWith(A, p.action) =< RowsWith(B, p.action)
           T == {n \in Nat : \E A \in SUBSET P, B \in SUBSET Q :
                    Cardinality(A) = n /\ Fewer(A, B) /\ ~ (Total(Surfaces(A)) =< Total(Surfaces(B)))}
<1>1. \A A : (A \in SUBSET P \/ A \in SUBSET Q) =>
          /\ IsFiniteSet(A) /\ Cardinality(A) \in Nat
          /\ DOMAIN Surfaces(A) = A /\ \A p \in A : Surfaces(A)[p] = Surface(p)
          /\ Total(Surfaces(A)) \in Nat
  <2> SUFFICES ASSUME NEW A, A \in SUBSET P \/ A \in SUBSET Q
               PROVE  /\ IsFiniteSet(A) /\ Cardinality(A) \in Nat
                      /\ DOMAIN Surfaces(A) = A /\ \A p \in A : Surfaces(A)[p] = Surface(p)
                      /\ Total(Surfaces(A)) \in Nat
    OBVIOUS
  <2>1. IsFiniteSet(A) /\ Cardinality(A) \in Nat
    BY FS_Subset, FS_CardinalityType
  <2>2. DOMAIN Surfaces(A) = A /\ \A p \in A : Surfaces(A)[p] = Surface(p) /\ Surface(p) \in Nat
    BY SignalsAssumption DEF Surfaces, Surface
  <2> QED
    BY <2>1, <2>2, TotalType
<1>2. \A p : Surface(p) \in Nat
  BY SignalsAssumption DEF Surface
<1>3. \A A, p : (A \in SUBSET P \/ A \in SUBSET Q) /\ p \in A =>
          /\ Cardinality(A \ {p}) = Cardinality(A) - 1
          /\ Total(Surfaces(A)) = Surface(p) + Total(Surfaces(A \ {p}))
  <2> SUFFICES ASSUME NEW A, A \in SUBSET P \/ A \in SUBSET Q, NEW p \in A
               PROVE  /\ Cardinality(A \ {p}) = Cardinality(A) - 1
                      /\ Total(Surfaces(A)) = Surface(p) + Total(Surfaces(A \ {p}))
    OBVIOUS
  <2>1. IsFiniteSet(A) /\ DOMAIN Surfaces(A) = A /\ \A x \in A : Surfaces(A)[x] \in Int
    BY <1>1, <1>2
  <2>2. Total(Surfaces(A)) = Surfaces(A)[p] + Total([y \in A \ {p} |-> Surfaces(A)[y]])
    BY <2>1, TotalPick
  <2>3. [y \in A \ {p} |-> Surfaces(A)[y]] = Surfaces(A \ {p})
    BY DEF Surfaces
  <2> QED
    BY <1>1, <2>1, <2>2, <2>3, FS_RemoveElement
<1>4. T = {}
  <2> SUFFICES ASSUME T # {} PROVE FALSE
    OBVIOUS
  <2>1. PICK n \in T : \A m \in T : n =< m
    <3> T \in SUBSET Nat
      OBVIOUS
    <3> HIDE DEF T
    <3> QED BY Least
  <2>2. PICK A \in SUBSET P, B \in SUBSET Q :
            Cardinality(A) = n /\ Fewer(A, B) /\ ~ (Total(Surfaces(A)) =< Total(Surfaces(B)))
    BY <2>1
  <2>3. A # {}
    <3>1. CASE A = {}
      <4>1. Total(Surfaces(A)) = 0
        BY <1>1, <3>1, TotalOfNone
      <4> QED
        BY <1>1, <2>2, <4>1
    <3> QED
      BY <3>1
  <2>4. PICK p \in A : TRUE
    BY <2>3
  <2> DEFINE Of(C, action) == {x \in C : x.action = action}
  <2>5. \A C, action : (C \in SUBSET P \/ C \in SUBSET Q) =>
            /\ RowsWith(C, action) = Cardinality(Of(C, action))
            /\ IsFiniteSet(Of(C, action)) /\ RowsWith(C, action) \in Nat
            /\ RowsWith(C, action) = 0 <=> Of(C, action) = {}
    <3> SUFFICES ASSUME NEW C, NEW action, C \in SUBSET P \/ C \in SUBSET Q
                 PROVE  /\ RowsWith(C, action) = Cardinality(Of(C, action))
                        /\ IsFiniteSet(Of(C, action)) /\ RowsWith(C, action) \in Nat
                        /\ RowsWith(C, action) = 0 <=> Of(C, action) = {}
      OBVIOUS
    <3>1. RowsWith(C, action) = Cardinality(Of(C, action)) /\ Of(C, action) \in SUBSET C
      BY DEF RowsWith
    <3>2. IsFiniteSet(C)
      BY <1>1
    <3> HIDE DEF Of
    <3> QED
      BY <3>1, <3>2, FS_Subset, FS_CardinalityType, FS_EmptySet
  <2>6. PICK q \in B : q.action = p.action
    <3>1. p \in Of(A, p.action) /\ Fewer(A, B)
      BY <2>2
    <3> HIDE DEF Of
    <3>2. RowsWith(A, p.action) \in Nat /\ RowsWith(A, p.action) # 0
      BY <2>5, <3>1
    <3>3. RowsWith(B, p.action) \in Nat /\ RowsWith(A, p.action) =< RowsWith(B, p.action)
      BY <2>5, <3>1
    <3>4. RowsWith(B, p.action) # 0
      BY <3>2, <3>3
    <3>5. Of(B, p.action) # {}
      BY <2>5, <3>4
    <3> QED
      BY <3>5 DEF Of
  <2>7. ASSUME NEW C, C \in SUBSET P \/ C \in SUBSET Q, NEW x \in C, NEW action
        PROVE  RowsWith(C \ {x}, action) = RowsWith(C, action) - (IF x.action = action THEN 1 ELSE 0)
    <3>1. CASE x.action = action
      <4>1. Of(C \ {x}, action) = Of(C, action) \ {x} /\ x \in Of(C, action)
        BY <3>1
      <4>2. Cardinality(Of(C, action) \ {x}) = Cardinality(Of(C, action)) - 1
        <5> HIDE DEF Of
        <5> QED
          BY <2>5, <2>7, <4>1, FS_RemoveElement
      <4>3. RowsWith(C \ {x}, action) = Cardinality(Of(C \ {x}, action))
        BY <2>5, <2>7
      <4> HIDE DEF Of
      <4> QED
        BY <2>5, <2>7, <3>1, <4>1, <4>2, <4>3
    <3>2. CASE x.action # action
      <4>1. Of(C \ {x}, action) = Of(C, action)
        BY <3>2
      <4>2. RowsWith(C \ {x}, action) = Cardinality(Of(C \ {x}, action))
        BY <2>5, <2>7
      <4> HIDE DEF Of
      <4> QED
        BY <2>5, <2>7, <3>2, <4>1, <4>2
    <3> QED
      BY <3>1, <3>2
  <2>8. Fewer(A \ {p}, B \ {q})
    <3> SUFFICES ASSUME NEW x \in A \ {p}
                 PROVE  RowsWith(A \ {p}, x.action) =< RowsWith(B \ {q}, x.action)
      OBVIOUS
    <3>1. /\ RowsWith(A \ {p}, x.action)
               = RowsWith(A, x.action) - (IF p.action = x.action THEN 1 ELSE 0)
          /\ RowsWith(B \ {q}, x.action)
               = RowsWith(B, x.action) - (IF q.action = x.action THEN 1 ELSE 0)
      BY <2>7
    <3>2. RowsWith(A, x.action) =< RowsWith(B, x.action)
      BY <2>2
    <3>3. RowsWith(A, x.action) \in Nat /\ RowsWith(B, x.action) \in Nat
      BY <2>5
    <3> QED
      BY <2>6, <3>1, <3>2, <3>3
  <2>9. /\ Cardinality(A \ {p}) = n - 1 /\ n - 1 \in Nat
        /\ A \ {p} \in SUBSET P /\ B \ {q} \in SUBSET Q
    BY <1>1, <1>3, <2>2
  <2>10. n - 1 \notin T
    BY <2>1, <2>9
  <2>11. Total(Surfaces(A \ {p})) =< Total(Surfaces(B \ {q}))
    BY <2>8, <2>9, <2>10
  <2>12. /\ Total(Surfaces(A)) = Surface(p) + Total(Surfaces(A \ {p}))
         /\ Total(Surfaces(B)) = Surface(q) + Total(Surfaces(B \ {q}))
    BY <1>3
  <2>13. Surface(q) = Surface(p)
    BY <2>6 DEF Surface
  <2>14. PICK s, a, b \in Nat : s = Surface(p) /\ a = Total(Surfaces(A \ {p}))
                                 /\ b = Total(Surfaces(B \ {q}))
    BY <1>1, <1>2, <2>9
  <2> QED
    BY <2>2, <2>11, <2>12, <2>13, <2>14
<1>5. Cardinality(P) \in Nat /\ Cardinality(P) \notin T
  BY <1>1, <1>4
<1> QED
  BY <1>5

\* A finite set of permissions has finitely many rows of an action.
LEMMA RowsCounted ==
    ASSUME NEW P, IsFiniteSet(P), NEW action
    PROVE  /\ RowsWith(P, action) \in Nat
           /\ RowsWith(P, action) > 0 <=> \E p \in P : p.action = action
<1> DEFINE S == {p \in P : p.action = action}
<1>1. RowsWith(P, action) = Cardinality(S) /\ S \in SUBSET P
  BY DEF RowsWith
<1>2. S # {} <=> \E p \in P : p.action = action
  OBVIOUS
<1> HIDE DEF S
<1> QED
  BY <1>1, <1>2, FS_Subset, FS_CardinalityType, FS_EmptySet

\* Whoever may do as much covers the actions.
LEMMA MightCovers ==
    ASSUME NEW a, NEW b, IsFiniteSet(a.permissions), IsFiniteSet(b.permissions), MayAsMuch(a, b)
    PROVE  Covers(b.permissions, {p.action : p \in a.permissions})
<1> SUFFICES ASSUME NEW p \in a.permissions
             PROVE  \E q \in b.permissions : q.action \in {p.action, AnyWord}
  BY DEF Covers
<1>1. CASE \A r \in a.permissions :
               RowsWith(a.permissions, r.action) <= RowsWith(b.permissions, r.action)
  <2>1. RowsWith(a.permissions, p.action) \in Nat /\ RowsWith(a.permissions, p.action) > 0
    BY RowsCounted
  <2>2. RowsWith(b.permissions, p.action) \in Nat
    BY RowsCounted
  <2>3. RowsWith(b.permissions, p.action) > 0
    BY <1>1, <2>1, <2>2
  <2> QED
    BY <2>3, RowsCounted
<1>2. CASE RowsWith(b.permissions, AnyWord) > 0
  BY <1>2, RowsCounted
<1> QED
  BY <1>1, <1>2 DEF MayAsMuch

\* The permission surface is that of a sum.
LEMMA SurfaceOf ==
    ASSUME NEW P, IsFiniteSet(P)
    PROVE  /\ Total(Surfaces(P)) \in Nat
           /\ SurfaceSignal(P) = LogNormalize(Total(Surfaces(P)), CatalogSize)
           /\ DOMAIN Surfaces(P) = P
           /\ \A p \in P : Surfaces(P)[p] = Surface(p) /\ Surface(p) \in Nat
<1>1. Surfaces(P) = [p \in P |-> IF p.action = AnyWord THEN CatalogSize ELSE 1]
  BY DEF Surfaces, Surface
<1>2. DOMAIN Surfaces(P) = P /\ \A p \in P : Surfaces(P)[p] = Surface(p) /\ Surface(p) \in Nat
  BY SignalsAssumption DEF Surfaces, Surface
<1> QED
  BY <1>1, <1>2, SurfaceTotal, TotalType

\* Whoever may do as much has as much of a surface.
LEMMA SurfaceGrows ==
    ASSUME NEW a, NEW b, IsFiniteSet(a.permissions), IsFiniteSet(b.permissions), MayAsMuch(a, b)
    PROVE  /\ SurfaceSignal(a.permissions) \in Nat /\ SurfaceSignal(b.permissions) \in Nat
           /\ SurfaceSignal(a.permissions) =< SurfaceSignal(b.permissions)
<1> DEFINE P == a.permissions
           Q == b.permissions
<1> HIDE DEF P, Q
<1>1. IsFiniteSet(P) /\ IsFiniteSet(Q)
  BY DEF P, Q
<1>2. Total(Surfaces(P)) \in Nat /\ Total(Surfaces(Q)) \in Nat
  BY <1>1, SurfaceOf
<1>3. ASSUME \A p \in P : RowsWith(P, p.action) <= RowsWith(Q, p.action)
      PROVE  Total(Surfaces(P)) =< Total(Surfaces(Q))
  BY <1>1, <1>2, <1>3, SurfacesByAction
<1>4. ASSUME RowsWith(P, AnyWord) = 0, RowsWith(Q, AnyWord) > 0, Cardinality(P) <= CatalogSize
      PROVE  Total(Surfaces(P)) =< Total(Surfaces(Q))
  <2>1. ~ \E p \in P : p.action = AnyWord
    BY <1>1, <1>4, RowsCounted
  <2>2. DOMAIN Surfaces(P) = P /\ \A p \in P : Surfaces(P)[p] = 1
    BY <1>1, <2>1, SurfaceOf DEF Surface
  <2>3. Total(Surfaces(P)) =< 1 * Cardinality(P)
    BY <1>1, <2>2, TotalBounds
  <2>4. Total(Surfaces(P)) =< CatalogSize
    <3>1. Cardinality(P) \in Nat
      BY <1>1, FS_CardinalityType
    <3> QED
      BY <1>2, <1>4, <2>3, <3>1, SignalsAssumption
  <2>5. PICK q \in Q : q.action = AnyWord
    BY <1>1, <1>4, RowsCounted
  <2> DEFINE one == Surfaces({q})
  <2>6. IsFiniteSet({q})
    BY FS_Singleton
  <2>7. DOMAIN one = {q} /\ one[q] = CatalogSize
    BY <2>5 DEF Surfaces, Surface
  <2>8. Total(one) >= CatalogSize
    <3>1. Cardinality({q}) = 1
      BY FS_Singleton
    <3>2. CatalogSize * 1 = CatalogSize /\ CatalogSize \in Int
      BY SignalsAssumption
    <3>3. CatalogSize * Cardinality({q}) =< Total(one)
      <4> HIDE DEF one
      <4> QED
        BY <2>6, <2>7, <3>2, TotalBounds
    <3> QED
      BY <3>1, <3>2, <3>3
  <2>9. Total(one) =< Total(Surfaces(Q))
    <3>1. DOMAIN Surfaces(Q) = Q /\ \A p \in Q : Surfaces(Q)[p] = Surface(p) /\ Surface(p) \in Nat
      BY <1>1, SurfaceOf
    <3>2. Surface(q) = CatalogSize /\ CatalogSize \in Nat
      BY <2>5, SignalsAssumption DEF Surface
    <3> HIDE DEF one
    <3> QED
      BY <1>1, <2>7, <3>1, <3>2, TotalMonotone
  <2>10. Total(one) \in Nat
    <3>1. CatalogSize \in Nat
      BY SignalsAssumption
    <3> HIDE DEF one
    <3> QED
      BY <2>6, <2>7, <3>1, TotalType
  <2> HIDE DEF one
  <2>11. Total(Surfaces(P)) =< Total(Surfaces(Q))
    BY <1>2, <2>4, <2>8, <2>9, <2>10, SignalsAssumption
  <2> QED
    BY <2>11
<1>5. Total(Surfaces(P)) =< Total(Surfaces(Q))
  BY <1>3, <1>4 DEF MayAsMuch, P, Q
<1>6. /\ SurfaceSignal(P) = LogNormalize(Total(Surfaces(P)), CatalogSize)
      /\ SurfaceSignal(Q) = LogNormalize(Total(Surfaces(Q)), CatalogSize)
  BY <1>1, SurfaceOf
<1>7. SurfaceSignal(P) \in Nat /\ SurfaceSignal(Q) \in Nat /\ SurfaceSignal(P) =< SurfaceSignal(Q)
  BY <1>2, <1>5, <1>6, LogNormalized, SignalsAssumption
<1> QED
  BY <1>7 DEF P, Q

-----------------------------------------------------------------------------
(* Scores *)

\* More rules matched give as much of a boost.
LEMMA BoostGrows ==
    ASSUME NEW some, NEW more, some \subseteq more, IsFiniteSet(more),
           \A rule \in more : rule.boost \in Nat
    PROVE  RuleBoost(some) \in Nat /\ RuleBoost(more) \in Nat /\ RuleBoost(some) =< RuleBoost(more)
<1> DEFINE g == [rule \in some |-> rule.boost]
           h == [rule \in more |-> rule.boost]
<1>1. IsFiniteSet(some)
  BY FS_Subset
<1>2. RuleBoost(some) = Min({30, Total(g)}) /\ RuleBoost(more) = Min({30, Total(h)})
  BY <1>1, BoostTotal
<1>3. /\ DOMAIN g = some /\ \A rule \in some : g[rule] \in Nat /\ g[rule] = h[rule]
      /\ DOMAIN h = more /\ \A rule \in more : h[rule] \in Nat
  OBVIOUS
<1> HIDE DEF g, h
<1>4. \A rule \in some : g[rule] =< h[rule]
  BY <1>3
<1>5. Total(g) \in Nat /\ Total(h) \in Nat /\ Total(g) =< Total(h)
  BY <1>1, <1>3, <1>4, TotalType, TotalMonotone
<1>6. /\ Min({30, Total(g)}) = IF 30 =< Total(g) THEN 30 ELSE Total(g)
      /\ Min({30, Total(h)}) = IF 30 =< Total(h) THEN 30 ELSE Total(h)
  BY <1>5, MinOfTwo
<1> QED
  BY <1>2, <1>5, <1>6

Values == [Signals -> Nat]

\* Signals that do not fall give as much of a sum.
LEMMA SignalTotalGrows ==
    ASSUME NEW some \in Values, NEW more \in Values, \A name \in Signals : some[name] =< more[name]
    PROVE  /\ SignalTotal(Weights, some) \in Nat /\ SignalTotal(Weights, more) \in Nat
           /\ SignalTotal(Weights, some) =< SignalTotal(Weights, more)
<1> DEFINE g == [name \in Signals |-> Weight(Weights, name) * some[name]]
           h == [name \in Signals |-> Weight(Weights, name) * more[name]]
<1>1. SignalTotal(Weights, some) = Total(g) /\ SignalTotal(Weights, more) = Total(h)
  BY SignalsTotal
<1>2. \A name \in Signals : g[name] \in Nat /\ h[name] \in Nat /\ g[name] =< h[name]
  <2> SUFFICES ASSUME NEW name \in Signals
               PROVE  g[name] \in Nat /\ h[name] \in Nat /\ g[name] =< h[name]
    OBVIOUS
  <2>1. PICK w, x, y \in Nat : w = Weight(Weights, name) /\ x = some[name] /\ y = more[name] /\ x =< y
    <3>1. Weight(Weights, name) \in Nat
      BY FilesAssumption DEF Weight
    <3>2. some[name] \in Nat /\ more[name] \in Nat
      BY DEF Values
    <3> QED
      BY <3>1, <3>2
  <2>2. w * x \in Nat /\ w * y \in Nat /\ w * x =< w * y
    <3> DEFINE z == y - x
    <3>1. z \in Nat /\ y = x + z
      BY <2>1
    <3> HIDE DEF z
    <3>2. w * y = w * x + w * z /\ w * x \in Nat /\ w * y \in Nat /\ w * z \in Nat
      BY <3>1
    <3> QED
      BY <3>2
  <2> QED
    BY <2>1, <2>2
<1>3. DOMAIN g = Signals /\ DOMAIN h = Signals
  OBVIOUS
<1> HIDE DEF g, h
<1> QED
  BY <1>1, <1>2, <1>3, SignalsFinite, TotalType, TotalMonotone

\* A score is a number up to 100000.
LEMMA ScoreTyped ==
    ASSUME NEW values \in Values, NEW matched, IsFiniteSet(matched),
           \A rule \in matched : rule.boost \in Nat
    PROVE  /\ ScoreOf(Weights, values, matched) \in Nat
           /\ ScoreOf(Weights, values, matched) =< 100000
<1> DEFINE x == SignalTotal(Weights, values)
           y == RuleBoost(matched)
<1>1. x \in Nat /\ y \in Nat
  <2>1. \A name \in Signals : values[name] =< values[name]
    BY DEF Values
  <2> QED
    BY <2>1, SignalTotalGrows, BoostGrows
<1> HIDE DEF x, y
<1>2. ScoreOf(Weights, values, matched) = Min({100000, x + 1000 * y})
  BY DEF ScoreOf, x, y
<1>3. x + 1000 * y \in Nat
  BY <1>1
<1> QED
  BY <1>2, <1>3, MinOfTwo

\* The score does not fall when no signal does and no rule is lost.
LEMMA ScoreGrows ==
    ASSUME NEW some \in Values, NEW more \in Values, \A name \in Signals : some[name] =< more[name],
           NEW few, NEW many, few \subseteq many, IsFiniteSet(many), \A rule \in many : rule.boost \in Nat
    PROVE  ScoreOf(Weights, some, few) =< ScoreOf(Weights, more, many)
<1> DEFINE x == SignalTotal(Weights, some)
           y == SignalTotal(Weights, more)
           u == RuleBoost(few)
           v == RuleBoost(many)
<1>1. x \in Nat /\ y \in Nat /\ x =< y /\ u \in Nat /\ v \in Nat /\ u =< v
  BY SignalTotalGrows, BoostGrows
<1>2. /\ ScoreOf(Weights, some, few) = Min({100000, x + 1000 * u})
      /\ ScoreOf(Weights, more, many) = Min({100000, y + 1000 * v})
  BY DEF ScoreOf
<1> HIDE DEF x, y, u, v
<1>3. /\ Min({100000, x + 1000 * u}) = IF 100000 =< x + 1000 * u THEN 100000 ELSE x + 1000 * u
      /\ Min({100000, y + 1000 * v}) = IF 100000 =< y + 1000 * v THEN 100000 ELSE y + 1000 * v
  BY <1>1, MinOfTwo
<1> QED
  BY <1>1, <1>2, <1>3

\* The signals of a principal that can do and reach as much are as great.
LEMMA SignalsGrow ==
    ASSUME NEW a, NEW b, IsFiniteSet(a.permissions), IsFiniteSet(b.permissions),
           a.read \in Reads, b.read \in Reads, MayAsMuch(a, b), ReachesAsMuch(a, b)
    PROVE  /\ SignalValues(a.read, a.permissions) \in Values
           /\ SignalValues(b.read, b.permissions) \in Values
           /\ \A name \in Signals : SignalValues(a.read, a.permissions)[name]
                                       =< SignalValues(b.read, b.permissions)[name]
<1>1. /\ a.read.reach \in Nat /\ b.read.reach \in Nat /\ a.read.reach =< b.read.reach
      /\ a.read.hops \in Nat /\ b.read.hops \in Nat /\ a.read.hops =< b.read.hops
      /\ a.read.distance \in {{}} \cup {{n} : n \in Nat}
      /\ b.read.distance \in {{}} \cup {{n} : n \in Nat}
      /\ \A d \in a.read.distance : \E c \in b.read.distance : c =< d
  BY DEF Reads, ReachesAsMuch
<1>2. /\ BlastSignal(a.read.reach) \in Nat /\ BlastSignal(b.read.reach) \in Nat
      /\ BlastSignal(a.read.reach) =< BlastSignal(b.read.reach)
  BY <1>1, LogNormalized DEF BlastSignal
<1>3. /\ PathSignal(a.read.distance) \in Nat /\ PathSignal(b.read.distance) \in Nat
      /\ PathSignal(a.read.distance) =< PathSignal(b.read.distance)
  BY <1>1, PathNearer
<1>4. /\ HopsSignal(a.read.hops) \in Nat /\ HopsSignal(b.read.hops) \in Nat
      /\ HopsSignal(a.read.hops) =< HopsSignal(b.read.hops)
  BY <1>1, LinearCapped DEF HopsSignal
<1>5. /\ DangerSignal(a.permissions) \in Nat /\ DangerSignal(b.permissions) \in Nat
      /\ DangerSignal(a.permissions) =< DangerSignal(b.permissions)
  BY MightCovers, DangerGrows
<1>6. /\ SurfaceSignal(a.permissions) \in Nat /\ SurfaceSignal(b.permissions) \in Nat
      /\ SurfaceSignal(a.permissions) =< SurfaceSignal(b.permissions)
  BY SurfaceGrows
<1> QED
  BY <1>2, <1>3, <1>4, <1>5, <1>6 DEF SignalValues, Values, Signals

\* Signals are numbers.
LEMMA SignalsTyped ==
    ASSUME NEW read \in Reads, NEW P, IsFiniteSet(P)
    PROVE  SignalValues(read, P) \in Values
<1> DEFINE a == [permissions |-> P, read |-> read]
<1>1. MayAsMuch(a, a)
  BY RowsCounted DEF MayAsMuch
<1>2. ReachesAsMuch(a, a)
  BY DEF ReachesAsMuch, Reads
<1>3. a.permissions = P /\ a.read = read
  OBVIOUS
<1> HIDE DEF a
<1> QED
  BY <1>1, <1>2, <1>3, SignalsGrow

\* An assessment, from what was read.
Made(a, loaded) ==
    /\ a = Assessment(a.id, a.permissions, a.read, loaded, Weights)
    /\ IsFiniteSet(a.permissions) /\ a.read \in Reads

\* What an assessment that was made says.
LEMMA MadeOf ==
    ASSUME NEW a, NEW loaded, RulesOK(loaded), Made(a, loaded)
    PROVE  /\ a.rules = {r.id : r \in MatchAll(loaded, a.permissions)}
           /\ a.score = ScoreOf(Weights, SignalValues(a.read, a.permissions), MatchAll(loaded, a.permissions))
           /\ a.score \in Nat /\ a.score =< 100000
<1>1. /\ a.rules = {r.id : r \in MatchAll(loaded, a.permissions)}
      /\ a.score = ScoreOf(Weights, SignalValues(a.read, a.permissions), MatchAll(loaded, a.permissions))
  BY DEF Made, Assessment
<1>2. /\ IsFiniteSet(MatchAll(loaded, a.permissions))
      /\ \A rule \in MatchAll(loaded, a.permissions) : rule.boost \in Nat
  BY MatchesLoaded, FS_Subset DEF RulesOK
<1>3. SignalValues(a.read, a.permissions) \in Values
  BY SignalsTyped DEF Made
<1> QED
  BY <1>1, <1>2, <1>3, ScoreTyped

\* Two assessments compare as PowerRaisesRisk says.
LEMMA PowerCounts ==
    ASSUME NEW loaded, RulesOK(loaded), NEW a, NEW b, Made(a, loaded), Made(b, loaded)
    PROVE  /\ Covers(b.permissions, {p.action : p \in a.permissions}) => a.rules \subseteq b.rules
           /\ MayAsMuch(a, b) /\ ReachesAsMuch(a, b) => a.score <= b.score
<1>1. Covers(b.permissions, {p.action : p \in a.permissions}) =>
          MatchAll(loaded, a.permissions) \subseteq MatchAll(loaded, b.permissions)
  BY MatchAllGrows
<1>2. /\ a.rules = {r.id : r \in MatchAll(loaded, a.permissions)}
      /\ b.rules = {r.id : r \in MatchAll(loaded, b.permissions)}
  BY MadeOf
<1>3. ASSUME MayAsMuch(a, b), ReachesAsMuch(a, b) PROVE a.score <= b.score
  <2>1. Covers(b.permissions, {p.action : p \in a.permissions})
    BY <1>3, MightCovers DEF Made
  <2>2. /\ SignalValues(a.read, a.permissions) \in Values
        /\ SignalValues(b.read, b.permissions) \in Values
        /\ \A name \in Signals : SignalValues(a.read, a.permissions)[name]
                                    =< SignalValues(b.read, b.permissions)[name]
    BY <1>3, SignalsGrow DEF Made
  <2>3. /\ IsFiniteSet(MatchAll(loaded, b.permissions))
        /\ \A rule \in MatchAll(loaded, b.permissions) : rule.boost \in Nat
    BY MatchesLoaded, FS_Subset DEF RulesOK
  <2>4. ScoreOf(Weights, SignalValues(a.read, a.permissions), MatchAll(loaded, a.permissions))
          =< ScoreOf(Weights, SignalValues(b.read, b.permissions), MatchAll(loaded, b.permissions))
    BY <1>1, <2>1, <2>2, <2>3, ScoreGrows
  <2> QED
    BY <2>4, MadeOf
<1> QED
  BY <1>1, <1>2, <1>3

-----------------------------------------------------------------------------
(* Counts of the graph *)

\* The paths of one edge from the vertices with an id.
FirstTrails(E, id) == {<<e>> : e \in {f \in E : f.from.id = id}}

\* The edges that a path can be made longer with.
Follows(E, t) == {e \in E : e.from = t[Len(t)].to /\ \A i \in DOMAIN t : t[i] # e}

\* Paths made longer by an edge.
LongerTrails(E, X) == UNION {{Append(t, e) : e \in Follows(E, t)} : t \in X}

\* The paths of each length, up to the one asked for.
TrailsUpTo(h, E, id, m) ==
    h = [n \in 1..m |-> IF n = 1 THEN FirstTrails(E, id) ELSE LongerTrails(E, h[n - 1])]

\* The query finds them length by length.
LEMMA TrailsByLength ==
    ASSUME NEW E, NEW id, NEW hops \in Nat
    PROVE  \E h : /\ Trails(E, id, hops) = UNION {h[n] : n \in 1..hops}
                  /\ \A n \in 1..hops :
                        h[n] = IF n = 1 THEN FirstTrails(E, id) ELSE LongerTrails(E, h[n - 1])
<1> DEFINE first == FirstTrails(E, id)
           longer(X) == LongerTrails(E, X)
           Eq(h, m) == TrailsUpTo(h, E, id, m)
           trails == CHOOSE h : Eq(h, hops)
           T == {m \in Nat : ~ \E h : Eq(h, m)}
<1>1. Trails(E, id, hops) = UNION {trails[n] : n \in 1..hops}
  BY DEF Trails, TrailsUpTo, FirstTrails, LongerTrails, Follows
<1>2. T = {}
  <2> SUFFICES ASSUME T # {} PROVE FALSE
    OBVIOUS
  <2>1. PICK m \in T : \A n \in T : m =< n
    <3> T \in SUBSET Nat
      OBVIOUS
    <3> HIDE DEF T
    <3> QED BY Least
  <2>2. m \in Nat /\ ~ \E h : Eq(h, m)
    BY <2>1
  <2>3. CASE m = 0
    <3>1. 1..0 = {}
      OBVIOUS
    <3>2. Eq([n \in {} |-> first], 0)
      BY <3>1 DEF TrailsUpTo
    <3> QED
      BY <2>2, <2>3, <3>2
  <2>4. CASE m # 0
    <3>1. m - 1 \in Nat /\ m - 1 \notin T
      <4> HIDE DEF T
      <4> QED
        BY <2>1, <2>2, <2>4
    <3>2. PICK h : Eq(h, m - 1)
      <4> HIDE DEF Eq
      <4> QED
        BY <3>1
    <3> DEFINE g == [n \in 1..m |-> IF n = 1 THEN first
                                    ELSE IF n = m THEN longer(h[n - 1]) ELSE h[n]]
    <3>3. \A n \in 1..m : n # 1 => n - 1 \in 1..(m - 1)
      BY <2>2
    <3>4. \A n \in 1..(m - 1) : g[n] = h[n] /\ n \in 1..m
      BY <2>2, <3>2 DEF TrailsUpTo
    <3>5. \A n \in 1..m : g[n] = IF n = 1 THEN first ELSE longer(g[n - 1])
      <4> TAKE n \in 1..m
      <4>1. CASE n = 1
        BY <4>1
      <4>2. CASE n # 1 /\ n = m
        <5>1. g[n - 1] = h[n - 1]
          BY <3>3, <3>4, <4>2
        <5> QED
          BY <4>2, <5>1
      <4>3. CASE n # 1 /\ n # m
        <5>1. n \in 1..(m - 1)
          BY <2>2, <4>3
        <5>2. h[n] = longer(h[n - 1])
          BY <3>2, <4>3, <5>1 DEF TrailsUpTo
        <5>3. g[n - 1] = h[n - 1] /\ g[n] = h[n]
          BY <3>3, <3>4, <4>3, <5>1
        <5> HIDE DEF g
        <5> QED
          BY <4>3, <5>2, <5>3
      <4> QED
        BY <4>1, <4>2, <4>3
    <3>6. Eq(g, m)
      <4>1. g = [n \in 1..m |-> g[n]]
        OBVIOUS
      <4> HIDE DEF g
      <4> QED
        BY <3>5, <4>1 DEF TrailsUpTo
    <3> QED
      BY <2>2, <3>6
  <2> QED
    BY <2>3, <2>4
<1>3. Eq(trails, hops)
  <2>1. \E h : Eq(h, hops)
    BY <1>2
  <2> HIDE DEF Eq
  <2> QED
    BY <2>1
<1> HIDE DEF trails
<1>4. \A n \in 1..hops : trails[n] = IF n = 1 THEN first ELSE longer(trails[n - 1])
  BY <1>3 DEF TrailsUpTo
<1> QED
  BY <1>1, <1>4

\* In a finite graph there are finitely many paths.
LEMMA TrailsFinite ==
    ASSUME NEW E, IsFiniteSet(E), NEW id, NEW hops \in Nat
    PROVE  IsFiniteSet(Trails(E, id, hops))
<1> DEFINE first == FirstTrails(E, id)
           longer(X) == LongerTrails(E, X)
<1>1. PICK trails :
          /\ Trails(E, id, hops) = UNION {trails[n] : n \in 1..hops}
          /\ \A n \in 1..hops : trails[n] = IF n = 1 THEN first ELSE longer(trails[n - 1])
  BY TrailsByLength
<1>2. IsFiniteSet(first)
  <2> DEFINE S == {f \in E : f.from.id = id}
             g == [e \in S |-> <<e>>]
  <2>1. IsFiniteSet(S)
    BY FS_Subset
  <2>2. DOMAIN g = S /\ first = {g[e] : e \in DOMAIN g}
    BY DEF FirstTrails
  <2> HIDE DEF S, g, first
  <2> QED
    BY <2>1, <2>2, ImageFinite
<1>3. ASSUME NEW X, IsFiniteSet(X) PROVE IsFiniteSet(longer(X))
  <2> DEFINE Ends(t) == {Append(t, e) : e \in Follows(E, t)}
             k == [t \in X |-> Ends(t)]
  <2>1. ASSUME NEW t PROVE IsFiniteSet(Ends(t))
    <3> DEFINE S == Follows(E, t)
               g == [e \in S |-> Append(t, e)]
    <3>1. IsFiniteSet(S)
      <4>1. S \in SUBSET E
        BY DEF Follows
      <4> QED
        BY <4>1, FS_Subset
    <3>2. DOMAIN g = S /\ Ends(t) = {g[e] : e \in DOMAIN g}
      <4> HIDE DEF S
      <4> QED
        BY DEF S
    <3> HIDE DEF S, g, Ends
    <3> QED
      BY <3>1, <3>2, ImageFinite
  <2>2. longer(X) = UNION {Ends(t) : t \in X}
    BY DEF LongerTrails
  <2> HIDE DEF Ends, longer
  <2>3. DOMAIN k = X /\ {Ends(t) : t \in X} = {k[t] : t \in DOMAIN k}
    OBVIOUS
  <2> HIDE DEF k
  <2>4. IsFiniteSet({k[t] : t \in DOMAIN k})
    BY <1>3, <2>3, ImageFinite
  <2>5. \A F \in {Ends(t) : t \in X} : IsFiniteSet(F)
    BY <2>1
  <2> QED
    BY <2>2, <2>3, <2>4, <2>5, FS_UNION
<1> HIDE DEF first, longer
<1> DEFINE Wide == {n \in 1..hops : ~ IsFiniteSet(trails[n])}
<1>4. Wide = {}
  <2> SUFFICES ASSUME Wide # {} PROVE FALSE
    OBVIOUS
  <2>1. PICK n \in Wide : \A m \in Wide : n =< m
    <3> Wide \in SUBSET Nat
      OBVIOUS
    <3> HIDE DEF Wide
    <3> QED BY Least
  <2>2. n \in 1..hops /\ n # 1 /\ ~ IsFiniteSet(trails[n])
    BY <1>1, <1>2, <2>1
  <2>3. n - 1 \in 1..hops /\ n - 1 \notin Wide
    BY <2>1, <2>2
  <2>4. IsFiniteSet(trails[n - 1])
    BY <2>3
  <2>5. trails[n] = longer(trails[n - 1])
    BY <1>1, <2>2
  <2> QED
    BY <1>3, <2>2, <2>4, <2>5
<1>5. IsFiniteSet({trails[n] : n \in 1..hops})
  <2> DEFINE g == [n \in 1..hops |-> trails[n]]
  <2>1. DOMAIN g = 1..hops /\ {trails[n] : n \in 1..hops} = {g[n] : n \in DOMAIN g}
    OBVIOUS
  <2>2. IsFiniteSet(1..hops)
    BY FS_Interval
  <2> HIDE DEF g
  <2> QED
    BY <2>1, <2>2, ImageFinite
<1>6. \A F \in {trails[n] : n \in 1..hops} : IsFiniteSet(F)
  BY <1>4
<1> QED
  BY <1>1, <1>5, <1>6, FS_UNION

-----------------------------------------------------------------------------
(* Paths *)

\* A path that uses no edge twice, from a vertex with the id.
IsTrail(E, id, t) ==
    /\ t \in Seq(E) /\ Len(t) >= 1
    /\ t[1].from.id = id
    /\ \A i \in 2..Len(t) : t[i].from = t[i - 1].to /\ \A j \in 1..i - 1 : t[j] # t[i]

\* An edge makes one of it.
LEMMA TrailOfOne ==
    ASSUME NEW E, NEW id, NEW e \in E, e.from.id = id
    PROVE  IsTrail(E, id, <<e>>) /\ Len(<<e>>) = 1 /\ Target(<<e>>) = e.to
BY DEF IsTrail, Target

\* An edge that follows makes it longer.
LEMMA TrailGrows ==
    ASSUME NEW E, NEW id, NEW t, IsTrail(E, id, t), NEW e \in Follows(E, t)
    PROVE  /\ IsTrail(E, id, Append(t, e)) /\ Len(Append(t, e)) = Len(t) + 1
           /\ Target(Append(t, e)) = e.to
<1> DEFINE n == Len(t)
           u == Append(t, e)
<1>1. t \in Seq(E) /\ n \in Nat /\ n >= 1 /\ DOMAIN t = 1..n
  BY DEF IsTrail
<1>2. e \in E /\ e.from = t[n].to /\ \A i \in 1..n : t[i] # e
  BY <1>1 DEF Follows
<1>3. u \in Seq(E) /\ Len(u) = n + 1 /\ u[n + 1] = e /\ \A i \in 1..n : u[i] = t[i]
  BY <1>1, <1>2
<1> HIDE DEF u
<1>4. u[1].from.id = id
  BY <1>1, <1>3 DEF IsTrail
<1>5. ASSUME NEW i \in 2..n + 1 PROVE u[i].from = u[i - 1].to /\ \A j \in 1..i - 1 : u[j] # u[i]
  <2>1. CASE i = n + 1
    <3>1. u[i] = e /\ u[i - 1] = t[n] /\ \A j \in 1..i - 1 : u[j] = t[j] /\ j \in 1..n
      BY <1>1, <1>3, <2>1
    <3> QED
      BY <1>2, <3>1
  <2>2. CASE i # n + 1
    <3>1. i \in 2..n /\ i \in 1..n /\ i - 1 \in 1..n /\ \A j \in 1..i - 1 : j \in 1..n
      BY <1>1, <2>2
    <3>2. t[i].from = t[i - 1].to /\ \A j \in 1..i - 1 : t[j] # t[i]
      BY <3>1 DEF IsTrail
    <3>3. u[i] = t[i] /\ u[i - 1] = t[i - 1] /\ \A j \in 1..i - 1 : u[j] = t[j]
      BY <1>3, <3>1
    <3> QED
      BY <3>2, <3>3
  <2> QED
    BY <2>1, <2>2
<1>6. IsTrail(E, id, u)
  BY <1>1, <1>3, <1>4, <1>5 DEF IsTrail
<1> QED
  BY <1>3, <1>6 DEF Target, u

\* Its beginning.
Beginning(t, m) == SubSeq(t, 1, m)

\* The beginning of a path is one too.
LEMMA TrailBegins ==
    ASSUME NEW E, NEW id, NEW t, IsTrail(E, id, t), NEW m \in 1..Len(t)
    PROVE  /\ IsTrail(E, id, Beginning(t, m)) /\ Len(Beginning(t, m)) = m
           /\ Target(Beginning(t, m)) = t[m].to
           /\ \A i \in 1..m : Beginning(t, m)[i] = t[i]
<1> DEFINE s == Beginning(t, m)
           n == Len(t)
<1>1. t \in Seq(E) /\ n \in Nat /\ m \in Nat /\ m <= n /\ m >= 1
  BY DEF IsTrail
<1>2. s \in Seq(E) /\ Len(s) = m /\ \A i \in 1..m : s[i] = t[i]
  <2>1. \A i \in 1..m : t[i] \in E
    BY <1>1
  <2> QED
    BY <1>1, <2>1 DEF Beginning
<1> HIDE DEF s
<1>3. s[1].from.id = id
  BY <1>1, <1>2 DEF IsTrail
<1>4. ASSUME NEW i \in 2..m PROVE s[i].from = s[i - 1].to /\ \A j \in 1..i - 1 : s[j] # s[i]
  <2>1. i \in 2..n /\ i \in 1..m /\ i - 1 \in 1..m /\ \A j \in 1..i - 1 : j \in 1..m
    BY <1>1
  <2>2. t[i].from = t[i - 1].to /\ \A j \in 1..i - 1 : t[j] # t[i]
    BY <2>1 DEF IsTrail
  <2>3. s[i] = t[i] /\ s[i - 1] = t[i - 1] /\ \A j \in 1..i - 1 : s[j] = t[j]
    BY <1>2, <2>1
  <2> QED
    BY <2>2, <2>3
<1>5. IsTrail(E, id, s)
  BY <1>1, <1>2, <1>3, <1>4 DEF IsTrail
<1>6. Target(s) = t[m].to
  BY <1>1, <1>2 DEF Target
<1> QED
  BY <1>2, <1>5, <1>6 DEF s

\* What is left when its last edge is taken away, which follows.
LEMMA TrailEnds ==
    ASSUME NEW E, NEW id, NEW t, IsTrail(E, id, t), Len(t) # 1
    PROVE  LET s == Beginning(t, Len(t) - 1)
           IN  /\ IsTrail(E, id, s) /\ Len(s) = Len(t) - 1
               /\ t[Len(t)] \in Follows(E, s) /\ t = Append(s, t[Len(t)])
               /\ Target(s) = t[Len(t)].from
<1> DEFINE n == Len(t)
           e == t[n]
           s == Beginning(t, n - 1)
<1>1. t \in Seq(E) /\ n \in Nat /\ n >= 2 /\ n - 1 \in 1..n /\ n \in 2..n /\ n \in 1..n /\ e \in E
  <2>1. t \in Seq(E) /\ n >= 1 /\ n # 1
    BY DEF IsTrail
  <2>2. n \in Nat /\ \A i \in 1..n : t[i] \in E
    BY <2>1
  <2> HIDE DEF n
  <2>3. n \in Nat /\ n >= 2 /\ n - 1 \in 1..n /\ n \in 2..n /\ n \in 1..n
    BY <2>1, <2>2
  <2> QED
    BY <2>1, <2>2, <2>3
<1>2. /\ IsTrail(E, id, s) /\ Len(s) = n - 1 /\ Target(s) = t[n - 1].to
      /\ \A i \in 1..n - 1 : s[i] = t[i]
  BY <1>1, TrailBegins
<1> HIDE DEF s
<1>3. e.from = t[n - 1].to /\ \A j \in 1..n - 1 : t[j] # e
  BY <1>1 DEF IsTrail
<1>4. s \in Seq(E) /\ DOMAIN s = 1..n - 1 /\ s[Len(s)] = t[n - 1]
  BY <1>1, <1>2 DEF IsTrail
<1> HIDE DEF e
<1>5. e \in Follows(E, s)
  BY <1>1, <1>2, <1>3, <1>4 DEF Follows
<1>6. t = Append(s, e)
  <2> DEFINE u == Append(s, e)
  <2>1. u \in Seq(E) /\ Len(u) = n /\ u[n] = e /\ \A i \in 1..n - 1 : u[i] = s[i]
    BY <1>1, <1>2, <1>4
  <2> HIDE DEF u
  <2>2. \A i \in 1..n : t[i] = u[i]
    <3> TAKE i \in 1..n
    <3>1. i = n \/ i \in 1..n - 1
      BY <1>1
    <3> QED
      BY <1>2, <2>1, <3>1 DEF e
  <2>3. t = u
    BY <1>1, <2>1, <2>2, SeqEqual
  <2> QED
    BY <2>3 DEF u
<1> QED
  BY <1>2, <1>3, <1>5, <1>6 DEF e, s

\* The query for paths of variable length finds every one of them and no other.
LEMMA TrailsExact ==
    ASSUME NEW E, NEW id, NEW hops \in Nat
    PROVE  Trails(E, id, hops) = {t \in Seq(E) : IsTrail(E, id, t) /\ Len(t) <= hops}
<1> DEFINE All(n) == {t \in Seq(E) : IsTrail(E, id, t) /\ Len(t) = n}
<1>1. PICK trails :
          /\ Trails(E, id, hops) = UNION {trails[n] : n \in 1..hops}
          /\ \A n \in 1..hops : trails[n] = IF n = 1 THEN FirstTrails(E, id)
                                            ELSE LongerTrails(E, trails[n - 1])
  BY TrailsByLength
<1>2. FirstTrails(E, id) = All(1)
  <2>1. ASSUME NEW t \in FirstTrails(E, id) PROVE t \in All(1)
    <3>1. PICK e \in E : e.from.id = id /\ t = <<e>>
      BY <2>1 DEF FirstTrails
    <3> QED
      BY <3>1, TrailOfOne DEF IsTrail
  <2>2. ASSUME NEW t \in All(1) PROVE t \in FirstTrails(E, id)
    <3>1. t[1] \in E /\ t[1].from.id = id /\ t = <<t[1]>>
      BY <2>2 DEF IsTrail
    <3> QED
      BY <3>1 DEF FirstTrails
  <2> QED
    BY <2>1, <2>2
<1>3. ASSUME NEW n \in Nat, n >= 2 PROVE LongerTrails(E, All(n - 1)) = All(n)
  <2>1. ASSUME NEW u \in LongerTrails(E, All(n - 1)) PROVE u \in All(n)
    <3>1. PICK t \in All(n - 1) : \E e \in Follows(E, t) : u = Append(t, e)
      BY <2>1 DEF LongerTrails
    <3>2. PICK e \in Follows(E, t) : u = Append(t, e)
      BY <3>1
    <3>3. IsTrail(E, id, u) /\ Len(u) = n
      BY <1>3, <3>1, <3>2, TrailGrows
    <3> QED
      BY <3>3 DEF IsTrail
  <2>2. ASSUME NEW u \in All(n) PROVE u \in LongerTrails(E, All(n - 1))
    <3>1. IsTrail(E, id, u) /\ Len(u) = n /\ Len(u) # 1
      BY <1>3, <2>2
    <3> DEFINE t == Beginning(u, n - 1)
    <3>2. /\ IsTrail(E, id, t) /\ Len(t) = n - 1
          /\ u[n] \in Follows(E, t) /\ u = Append(t, u[n])
      BY <3>1, TrailEnds
    <3>3. t \in All(n - 1)
      BY <3>2 DEF IsTrail
    <3> HIDE DEF All, t
    <3> QED
      BY <3>2, <3>3 DEF LongerTrails
  <2> QED
    BY <2>1, <2>2
<1> HIDE DEF All
<1> DEFINE T == {n \in Nat : n \in 1..hops /\ trails[n] # All(n)}
<1>4. T = {}
  <2> SUFFICES ASSUME T # {} PROVE FALSE
    OBVIOUS
  <2>1. PICK n \in T : \A m \in T : n =< m
    <3> T \in SUBSET Nat
      OBVIOUS
    <3> HIDE DEF T
    <3> QED BY Least
  <2>2. n \in Nat /\ n \in 1..hops /\ trails[n] # All(n)
    BY <2>1
  <2>3. n # 1 /\ n >= 2
    BY <1>1, <1>2, <2>2
  <2>4. n - 1 \in 1..hops /\ n - 1 \in Nat /\ ~ (n =< n - 1)
    BY <2>2, <2>3
  <2>5. n - 1 \notin T
    <3> HIDE DEF T
    <3> QED BY <2>1, <2>4
  <2>6. trails[n - 1] = All(n - 1)
    BY <2>4, <2>5
  <2> QED
    BY <1>1, <1>3, <2>2, <2>3, <2>6
<1>5. \A n \in 1..hops : trails[n] = All(n)
  BY <1>4
<1>6. \A t : t \in Trails(E, id, hops) <=> \E n \in 1..hops : t \in All(n)
  BY <1>1, <1>5
<1>7. \A t \in Seq(E) : IsTrail(E, id, t) => Len(t) \in Nat /\ Len(t) >= 1
  BY DEF IsTrail
<1>8. \A t : (\E n \in 1..hops : t \in All(n)) <=> t \in Seq(E) /\ IsTrail(E, id, t) /\ Len(t) <= hops
  BY <1>7 DEF All
<1> QED
  BY <1>6, <1>8

-----------------------------------------------------------------------------
(* What a run holds *)

Ids == {v.id : v \in Principal}

Rows == PrincipalRows \cup {[id |-> v.id, number |-> 1] : v \in Principal}

Permissions ==
    {P \in SUBSET {[action |-> e.to.id, to |-> e.to, from |-> e.from] : e \in FirstEdges \cup LaterEdges} :
        IsFiniteSet(P)}

RuleIds == {rule.id : rule \in rules}

Assessed ==
    {Assessment(id, P, read, rules, Weights) : id \in Ids, P \in Permissions, read \in Reads}

RunState ==
    [kind : {"none", "batch", "iterative", "account"},
     pc : {"idle", "list", "permissions", "reach", "distance", "hops", "keep", "score", "done", "error"},
     todo : SUBSET Rows, now : SUBSET Rows,
     held : UNION {[D -> Permissions] : D \in SUBSET Rows},
     read : Reads, done : SUBSET Assessed,
     failed : SUBSET Ids, skipped : SUBSET Ids, unkept : SUBSET Ids, bare : SUBSET Ids,
     rounds : Seq(Nat), fresh : Nat, seen : SUBSET (Ids \X RuleIds), converged : BOOLEAN,
     account : {v.account : v \in Principal} \cup {"none"}, listed : SUBSET Ids]

GraphInv ==
    /\ edges \in SUBSET (FirstEdges \cup LaterEdges)
    /\ FirstEdges \subseteq edges
    /\ IsFiniteSet(edges)
    /\ RulesOK(rules)

\* What an assessment consists of.
LEMMA AssessmentOf ==
    ASSUME NEW id, NEW P, NEW read, NEW loaded,
           NEW a, a = Assessment(id, P, read, loaded, Weights)
    PROVE  /\ a.id = id /\ a.permissions = P /\ a.read = read
           /\ a.rules = {r.id : r \in MatchAll(loaded, P)}
BY DEF Assessment

\* What is assessed was made from some of the graph.
LEMMA AssessedMade ==
    ASSUME NEW a \in Assessed
    PROVE  /\ Made(a, rules) /\ a.id \in Ids
           /\ a.rules \subseteq RuleIds
<1>1. PICK id \in Ids, P \in Permissions, read \in Reads : a = Assessment(id, P, read, rules, Weights)
  BY DEF Assessed
<1>2. /\ a.id = id /\ a.permissions = P /\ a.read = read
      /\ a.rules = {r.id : r \in MatchAll(rules, P)}
  BY <1>1, AssessmentOf
<1>3. a.rules \subseteq RuleIds
  BY <1>2, MatchesLoaded DEF RuleIds
<1> QED
  BY <1>1, <1>2, <1>3 DEF Made, Permissions

\* The rows of a run are of principals.
LEMMA RowsOf ==
    /\ \A row \in Rows : row.id \in Ids
    /\ PrincipalRows \subseteq Rows
    /\ \A account : AccountRows(account) \subseteq Rows
BY DEF Rows, PrincipalRows, AccountRows, Ids

\* What the queries read.
LEMMA PermissionsRead ==
    ASSUME GraphInv, NEW id
    PROVE  PermissionRows(id) \in Permissions
<1> DEFINE S == {f \in edges : f.type = "HasEffectivePermission" /\ f.from.id = id}
           Row(e) == [action |-> e.to.id, to |-> e.to, from |-> e.from]
           g == [e \in S |-> Row(e)]
<1>1. IsFiniteSet(S)
  BY FS_Subset DEF GraphInv
<1>2. PermissionRows(id) = {Row(e) : e \in S}
  BY DEF PermissionRows
<1>3. S \subseteq FirstEdges \cup LaterEdges
  BY DEF GraphInv
<1> HIDE DEF S, Row
<1>4. DOMAIN g = S /\ {Row(e) : e \in S} = {g[e] : e \in DOMAIN g}
  OBVIOUS
<1> HIDE DEF g
<1>5. IsFiniteSet({Row(e) : e \in S})
  BY <1>1, <1>4, ImageFinite
<1>6. {Row(e) : e \in S} \subseteq {Row(e) : e \in FirstEdges \cup LaterEdges}
  BY <1>3
<1> QED
  BY <1>2, <1>5, <1>6 DEF Permissions, Row

\* The count of what is reached is a number.
LEMMA ReachRead ==
    ASSUME GraphInv, NEW id
    PROVE  BlastCount(edges, id, {}, 6) \in Nat
<1> DEFINE rows == BlastRows(edges, id, {}, 6)
<1>1. IsFiniteSet(rows)
  BY TrailsFinite DEF GraphInv, BlastRows, OfTypes
<1> HIDE DEF rows
<1>2. Cardinality(rows) \in Nat /\ RowLimit \in Nat
  BY <1>1, FS_CardinalityType, LimitsAssumption
<1>3. BlastCount(edges, id, {}, 6) = Min({RowLimit, Cardinality(rows)})
  BY DEF BlastCount, rows
<1> QED
  BY <1>2, <1>3, MinOfTwo

\* The distance to an administrator is one number or none.
LEMMA DistanceRead ==
    ASSUME NEW id
    PROVE  AdminDistance(id) \in {{}} \cup {{n} : n \in Nat}
<1> DEFINE lengths == UNION {PathLengths(edges, id, admin, 8) : admin \in Admins}
<1>1. lengths \subseteq 1..8
  BY DEF PathLengths
<1> HIDE DEF lengths
<1>2. CASE lengths = {}
  BY <1>2 DEF AdminDistance, lengths
<1>3. CASE lengths # {}
  <2>1. IsFiniteSet(1..8)
    <3>1. 1 \in Int /\ 8 \in Int
      OBVIOUS
    <3> QED
      BY <3>1, FS_Interval, Zenon
  <2>2. lengths \in SUBSET Int /\ lengths \in SUBSET Nat /\ IsFiniteSet(lengths)
    <3>1. 1..8 \subseteq Nat /\ 1..8 \subseteq Int
      OBVIOUS
    <3> QED
      BY <1>1, <2>1, <3>1, FS_Subset, Zenon
  <2>3. Min(lengths) \in Nat
    BY <1>3, <2>2, MinOf, Zenon
  <2> QED
    BY <1>3, <2>3 DEF AdminDistance, lengths
<1> QED
  BY <1>2, <1>3

\* The count of other accounts is a number.
LEMMA HopsRead ==
    ASSUME GraphInv, NEW id
    PROVE  CrossAccounts(id) \in Nat
<1> DEFINE account == {v.account : v \in {w \in Principal : w.id = id}}
           all == Trails(OfTypes(edges, {"CanAssume"}), id, 10)
           S == {u \in all : Target(u).account \notin account}
           Account(t) == Target(t).account
           g == [t \in S |-> Account(t)]
<1>1. IsFiniteSet(OfTypes(edges, {"CanAssume"}))
  BY FS_Subset DEF GraphInv, OfTypes
<1>2. IsFiniteSet(all)
  BY <1>1, TrailsFinite
<1>3. CrossAccounts(id) = Cardinality({Account(t) : t \in S})
  BY DEF CrossAccounts
<1> HIDE DEF all
<1>4. IsFiniteSet(S)
  BY <1>2, FS_Subset
<1> HIDE DEF S, Account
<1>5. DOMAIN g = S /\ {Account(t) : t \in S} = {g[t] : t \in DOMAIN g}
  OBVIOUS
<1> HIDE DEF g
<1>6. IsFiniteSet({Account(t) : t \in S})
  BY <1>4, <1>5, ImageFinite
<1> QED
  BY <1>3, <1>6, FS_CardinalityType

\* Files of rules load as rules.
LEMMA FilesLoaded ==
    ASSUME NEW files \in RuleFiles, NEW loaded \in Loaded(files)
    PROVE  RulesOK(loaded)
<1>1. PICK S \in SUBSET files : loaded = {Parsed(file) : file \in S}
  <2>1. \/ loaded = {Parsed(file) : file \in files}
        \/ loaded = {Parsed(file) : file \in {f \in files : Parses(f)}}
    BY DEF Loaded, LoadEmbedded, LoadDirectory
  <2> QED
    BY <2>1
<1> DEFINE g == [file \in S |-> Parsed(file)]
<1>2. DOMAIN g = S /\ loaded = {g[file] : file \in DOMAIN g}
  BY <1>1
<1>3. IsFiniteSet(S)
  BY FilesAssumption, FS_Subset
<1> HIDE DEF g
<1>4. IsFiniteSet(loaded)
  BY <1>2, <1>3, ImageFinite
<1>5. ASSUME NEW rule \in loaded
      PROVE  rule.boost \in Nat /\ \A t \in rule.trigger : t.match_count \in Nat
  <2>1. PICK file \in files : rule = Parsed(file)
    BY <1>1
  <2>2. \A t \in file.trigger : t.match_count \in Nat
    BY FilesAssumption
  <2>3. rule.boost = Boost(Tier(file.category)) /\ rule.trigger = file.trigger
    BY <2>1 DEF Parsed
  <2>4. \A tier : Boost(tier) \in Nat
    BY DEF Boost
  <2> QED
    BY <2>2, <2>3, <2>4
<1> QED
  BY <1>4, <1>5 DEF RulesOK

-----------------------------------------------------------------------------
(* The sum of the rounds *)

SumSeq(rounds) == FoldSeq(+, 0, rounds)

\* The fold over the rounds is a sum.
LEMMA SumSeqTotal ==
    ASSUME NEW f, IsFiniteSet(DOMAIN f)
    PROVE  SumSeq(f) = Total(f)
<1> DEFINE S == DOMAIN f
           Eq(sums) == [s \in SUBSET S |->
                          IF s = {} THEN 0
                          ELSE f[CHOOSE y \in s : TRUE] + sums[s \ {CHOOSE y \in s : TRUE}]]
           sums == CHOOSE k : k = Eq(k)
<1>2. SumSeq(f) = sums[S]
  BY DEF SumSeq, FoldSeq, FoldFunction, FoldFunctionOnSet, MapThenFoldSet
<1>3. \A k : Solves(k, f) <=> k = Eq(k)
  BY DEF Solves
<1>4. Solves(sums, f)
  <2> HIDE DEF Eq
  <2> QED
    BY <1>3, SumsExist
<1> HIDE DEF sums
<1>5. sums[S] = Total(f)
  BY <1>4, SolvedOnce
<1> QED
  BY <1>2, <1>5

\* The rounds are finitely many numbers.
LEMMA RoundsFinite ==
    ASSUME NEW rounds \in Seq(Nat)
    PROVE  /\ IsFiniteSet(DOMAIN rounds) /\ Cardinality(DOMAIN rounds) = Len(rounds)
           /\ \A i \in DOMAIN rounds : rounds[i] \in Nat
<1>1. DOMAIN rounds = 1..Len(rounds) /\ Len(rounds) \in Nat
  OBVIOUS
<1>2. 1 \in Int /\ Len(rounds) \in Int
  BY <1>1
<1>3. IsFiniteSet(1..Len(rounds))
       /\ Cardinality(1..Len(rounds)) = IF 1 > Len(rounds) THEN 0 ELSE Len(rounds) - 1 + 1
  BY <1>2, FS_Interval, Zenon
<1> QED
  BY <1>1, <1>3

\* How the sum of the rounds changes with a round, and its bound.
LEMMA SumOfRounds ==
    ASSUME NEW rounds \in Seq(Nat)
    PROVE  /\ SumSeq(rounds) \in Nat
           /\ rounds = << >> => SumSeq(rounds) = 0
           /\ \A n \in Nat : SumSeq(Append(rounds, n)) = SumSeq(rounds) + n
           /\ (\A i \in 1..Len(rounds) : rounds[i] >= Threshold) =>
                  Len(rounds) * Threshold =< SumSeq(rounds)
<1>1. /\ IsFiniteSet(DOMAIN rounds) /\ Cardinality(DOMAIN rounds) = Len(rounds)
      /\ \A i \in DOMAIN rounds : rounds[i] \in Nat
  BY RoundsFinite
<1>2. SumSeq(rounds) = Total(rounds)
  BY <1>1, SumSeqTotal
<1>3. Total(rounds) \in Nat
  BY <1>1, TotalType
<1>4. rounds = << >> => Total(rounds) = 0
  BY TotalOfNone
<1>5. ASSUME NEW n \in Nat PROVE SumSeq(Append(rounds, n)) = SumSeq(rounds) + n
  <2> DEFINE longer == Append(rounds, n)
             k == Len(rounds) + 1
             rest == [y \in DOMAIN longer \ {k} |-> longer[y]]
  <2>1. longer \in Seq(Nat) /\ k \in DOMAIN longer /\ longer[k] = n
    OBVIOUS
  <2>2. DOMAIN longer \ {k} = DOMAIN rounds /\ \A y \in DOMAIN rounds : longer[y] = rounds[y]
    <3>1. DOMAIN longer = 1..k /\ DOMAIN rounds = 1..Len(rounds) /\ Len(rounds) \in Nat
      OBVIOUS
    <3>2. \A y \in 1..Len(rounds) : longer[y] = rounds[y]
      OBVIOUS
    <3>3. (1..k) \ {k} = 1..Len(rounds)
      BY <3>1
    <3> HIDE DEF longer, k
    <3> QED
      BY <3>1, <3>2, <3>3
  <2>3. rest = rounds
    <3>1. rounds = [y \in DOMAIN rounds |-> rounds[y]]
      OBVIOUS
    <3> HIDE DEF longer, k
    <3> QED
      BY <2>2, <3>1
  <2>4. /\ IsFiniteSet(DOMAIN longer) /\ \A i \in DOMAIN longer : longer[i] \in Nat
    BY <2>1, RoundsFinite
  <2> HIDE DEF longer, k
  <2>5. Total(longer) = longer[k] + Total(rest)
    <3>1. \A i \in DOMAIN longer : longer[i] \in Int
      BY <2>4
    <3> HIDE DEF rest
    <3> QED
      BY <2>1, <2>4, <3>1, TotalPick, Zenon DEF rest
  <2>6. SumSeq(longer) = Total(longer)
    BY <2>4, SumSeqTotal
  <2>7. Total(longer) = n + Total(rounds)
    BY <2>1, <2>3, <2>5
  <2> QED
    BY <1>2, <1>3, <2>6, <2>7 DEF longer
<1>6. ASSUME \A i \in 1..Len(rounds) : rounds[i] >= Threshold
      PROVE  Len(rounds) * Threshold =< SumSeq(rounds)
  <2> DEFINE low == [i \in DOMAIN rounds |-> Threshold]
  <2>1. DOMAIN low = DOMAIN rounds /\ Threshold \in Nat /\ DOMAIN rounds = 1..Len(rounds)
    BY LimitsAssumption
  <2>2. \A i \in DOMAIN low : low[i] \in Nat /\ low[i] =< rounds[i] /\ low[i] = Threshold
    BY <1>1, <1>6, <2>1
  <2> HIDE DEF low
  <2>3. Total(low) =< Total(rounds)
    BY <1>1, <2>1, <2>2, TotalMonotone
  <2>4. Total(low) \in Nat /\ Threshold * Cardinality(DOMAIN low) =< Total(low)
    <3>1. \A i \in DOMAIN low : low[i] \in Int /\ Threshold =< low[i] /\ low[i] =< Threshold
      BY <2>1, <2>2
    <3>2. Threshold \in Int /\ IsFiniteSet(DOMAIN low)
      BY <1>1, <2>1
    <3>3. Threshold * Cardinality(DOMAIN low) =< Total(low)
      BY <3>1, <3>2, TotalBounds, Zenon
    <3>4. Total(low) \in Nat
      BY <2>2, <3>2, TotalType
    <3> QED
      BY <3>3, <3>4
  <2>5. PICK m, t, x, y \in Nat : m = Len(rounds) /\ t = Threshold /\ x = Total(low) /\ y = Total(rounds)
    <3>1. Len(rounds) \in Nat
      OBVIOUS
    <3> QED
      BY <1>3, <2>1, <2>4, <3>1
  <2>6. t * m =< y
    BY <1>1, <2>1, <2>3, <2>4, <2>5
  <2>7. m * t =< y
    BY <2>5, <2>6
  <2> QED
    BY <1>2, <2>5, <2>7
<1> QED
  BY <1>2, <1>3, <1>4, <1>5, <1>6

-----------------------------------------------------------------------------
(* What holds of a run *)

Scoring == {"reach", "distance", "hops", "keep"}

RowIds(rows) == {row.id : row \in rows}

DoneIds(s) == {a.id : a \in s.done}

\* A run that has not started has nothing, and one has a principal in progress while it scores.
Shape(s) ==
    /\ s.pc = "idle" => s = Idle
    /\ s.pc = "list" => s = [Idle EXCEPT !.pc = "list", !.kind = s.kind, !.account = s.account]
    /\ s.pc \in Scoring => \E row \in DOMAIN s.held : s.now = {row}
    /\ s.pc \notin Scoring => s.now = {}
    /\ s.pc = "done" => s.todo = {}
    /\ s.pc = "score" => s.kind = "iterative"
    /\ s.pc # "idle" => s.kind # "none"

\* Whatever is listed is somewhere.
Accounted(s) ==
    /\ s.kind # "iterative" /\ s.pc \in {"permissions", "done"} \cup Scoring =>
          /\ s.skipped = {}
          /\ s.listed = RowIds(s.todo \cup s.now) \cup DoneIds(s) \cup s.failed \cup s.bare
    /\ s.kind = "iterative" /\ s.pc = "permissions" =>
          /\ s.done = {} /\ s.failed = {}
          /\ s.listed = RowIds(s.todo \cup DOMAIN s.held) \cup s.skipped
    /\ s.kind = "iterative" /\ s.pc \in {"score", "done"} \cup Scoring =>
          /\ s.todo \cup s.now \subseteq DOMAIN s.held
          /\ s.listed = RowIds(DOMAIN s.held) \cup s.skipped
          /\ DoneIds(s) \cup s.failed \subseteq RowIds(DOMAIN s.held)
          /\ RowIds(DOMAIN s.held) \subseteq RowIds(s.todo \cup s.now) \cup DoneIds(s) \cup s.failed

\* Only an account has principals without permissions, and no principal twice.
BareApart(s) ==
    /\ s.kind # "account" => s.bare = {}
    /\ s.kind = "account" =>
          /\ s.todo \cap s.now = {}
          /\ \A x, y \in s.todo \cup s.now : x.id = y.id => x = y
          /\ DoneIds(s) \cap RowIds(s.todo \cup s.now) = {}
          /\ s.bare \cap RowIds(s.todo \cup s.now) = {}
          /\ s.bare \cap DoneIds(s) = {}

RulesOf(permissions) == {rule.id : rule \in MatchAll(rules, permissions)}

\* A round counts what it finds.
RoundsCounted(s) ==
    /\ IsFiniteSet(s.seen)
    /\ s.fresh + SumSeq(s.rounds) = Cardinality(s.seen)
    /\ Len(s.rounds) <= MaxIterations
    /\ s.pc # "done" => /\ Len(s.rounds) < MaxIterations
                        /\ \A i \in 1..Len(s.rounds) : s.rounds[i] >= Threshold
    /\ s.converged => s.pc = "done" /\ (s.rounds = << >> \/ Quiet(s.rounds))

\* After a principal's round all its rules are seen, unless it failed.
RoundsRepeat(s) ==
    /\ s.pc \in {"idle", "list", "permissions"} => s.rounds = << >>
    /\ s.pc \in {"score"} \cup Scoring =>
          \A row \in DOMAIN s.held :
              \/ s.rounds = << >> /\ row \in s.todo \cup s.now
              \/ row.id \in s.failed
              \/ {row.id} \X RulesOf(s.held[row]) \subseteq s.seen
    /\ s.fresh > 0 /\ s.rounds # << >> => s.failed # {}
    /\ \A i \in 2..Len(s.rounds) : s.rounds[i] > 0 => s.failed # {}

RunInv(s) ==
    /\ Shape(s) /\ Accounted(s) /\ BareApart(s)
    /\ s.kind = "iterative" => RoundsCounted(s) /\ RoundsRepeat(s)

RunOK(s) == s \in RunState /\ IsFiniteSet(s.done) /\ RunInv(s)

-----------------------------------------------------------------------------
(* What the steps of a run keep *)

\* A run that has not started is as it must be.
LEMMA IdleOK == RunOK(Idle)
<1>1. Idle \in RunState
  <2>1. << >> \in UNION {[D -> Permissions] : D \in SUBSET Rows}
    <3>1. << >> \in [{} -> Permissions]
      OBVIOUS
    <3> QED
      BY <3>1
  <2>2. << >> \in Seq(Nat)
    OBVIOUS
  <2>3. NoRead \in Reads
    BY DEF NoRead, Reads
  <2> QED
    BY <2>1, <2>2, <2>3 DEF Idle, RunState
<1>2. IsFiniteSet(Idle.done)
  BY FS_EmptySet DEF Idle
<1>3. Shape(Idle) /\ Accounted(Idle) /\ BareApart(Idle) /\ Idle.kind # "iterative"
  BY DEF Shape, Accounted, BareApart, Idle, Scoring
<1> QED
  BY <1>1, <1>2, <1>3 DEF RunOK, RunInv

\* Without a round nothing was found.
LEMMA NoRounds ==
    ASSUME NEW s \in RunState, s.rounds = << >>, s.fresh = 0, s.seen = {}, ~ s.converged
    PROVE  RoundsCounted(s)
<1>1. IsFiniteSet(s.seen) /\ Cardinality(s.seen) = 0
  BY FS_EmptySet
<1>2. SumSeq(s.rounds) = 0 /\ Len(s.rounds) = 0
  <2>1. s.rounds \in Seq(Nat)
    BY DEF RunState
  <2> QED
    BY <2>1, SumOfRounds
<1>3. MaxIterations \in Nat \ {0}
  BY LimitsAssumption
<1> QED
  BY <1>1, <1>2, <1>3 DEF RoundsCounted

\* Start.
LEMMA StartKeeps ==
    ASSUME NEW kind \in {"batch", "iterative", "account"},
           NEW account \in {v.account : v \in Principal} \cup {"none"},
           NEW t, t = [Idle EXCEPT !.pc = "list", !.kind = kind, !.account = account]
    PROVE  RunOK(t)
<1>1. t \in RunState
  <2>1. Idle \in RunState
    BY IdleOK DEF RunOK
  <2> QED
    BY <2>1 DEF RunState
<1>2. /\ t.pc = "list" /\ t.kind = kind /\ t.account = account /\ t.now = {} /\ t.done = {}
      /\ t.bare = {} /\ t.todo = {} /\ t.rounds = << >> /\ t.fresh = 0 /\ t.seen = {}
      /\ t.converged = FALSE /\ t.failed = {}
  BY DEF Idle
<1>3. Shape(t)
  BY <1>2 DEF Shape, Scoring
<1>4. Accounted(t) /\ BareApart(t)
  BY <1>2 DEF Accounted, BareApart, DoneIds, RowIds, Scoring
<1>5. RoundsCounted(t)
  BY <1>1, <1>2, NoRounds
<1>6. RoundsRepeat(t)
  <2>1. Len(t.rounds) = 0
    BY <1>2
  <2> QED
    BY <1>2, <2>1 DEF RoundsRepeat, Scoring
<1> QED
  BY <1>1, <1>2, <1>3, <1>4, <1>5, <1>6, FS_EmptySet DEF RunOK, RunInv

\* List.
LEMMA ListKeeps ==
    ASSUME NEW s, RunOK(s), s.pc = "list", NEW rows \in SUBSET Rows,
           s.kind = "account" => \A x, y \in rows : x.id = y.id => x = y,
           NEW t, t = [s EXCEPT !.pc = "permissions", !.todo = rows, !.listed = {row.id : row \in rows}]
    PROVE  RunOK(t)
<1>1. t \in RunState
  <2>1. {row.id : row \in rows} \in SUBSET Ids
    BY RowsOf
  <2> HIDE DEF Rows, Ids
  <2> QED
    BY <2>1, ZenonT(60) DEF RunState, RunOK
<1>2. /\ t.pc = "permissions" /\ t.kind = s.kind /\ t.now = {} /\ t.done = {} /\ t.kind # "none"
      /\ t.bare = {} /\ t.todo = rows /\ t.rounds = << >> /\ t.fresh = 0 /\ t.seen = {}
      /\ t.converged = FALSE /\ t.failed = {} /\ t.skipped = {} /\ t.listed = RowIds(rows)
      /\ t.held = << >>
  BY ZenonT(60) DEF Idle, RunOK, RunInv, Shape, RunState, RowIds
<1>3. Shape(t)
  BY <1>2 DEF Shape, Scoring
<1>4. Accounted(t) /\ BareApart(t)
  <2>1. /\ DoneIds(t) = {} /\ t.todo \cup t.now = rows /\ t.todo \cup DOMAIN t.held = rows
    BY <1>2 DEF DoneIds
  <2> QED
    BY <1>2, <2>1, ZenonT(60) DEF Accounted, BareApart, Scoring
<1>5. RoundsCounted(t)
  BY <1>1, <1>2, NoRounds
<1>6. RoundsRepeat(t)
  <2>1. Len(t.rounds) = 0
    BY <1>2
  <2> QED
    BY <1>2, <2>1 DEF RoundsRepeat, Scoring
<1> QED
  BY <1>1, <1>2, <1>3, <1>4, <1>5, <1>6, FS_EmptySet DEF RunOK, RunInv

\* ListFails.
LEMMA ListFailsKeeps ==
    ASSUME NEW s, RunOK(s), s.pc = "list", NEW t, t = [s EXCEPT !.pc = "error"]
    PROVE  RunOK(t)
<1>1. t \in RunState /\ IsFiniteSet(t.done)
  BY DEF RunState, RunOK
<1>2. /\ t.pc = "error" /\ t.kind = s.kind /\ t.now = {} /\ t.done = {} /\ t.kind # "none"
      /\ t.bare = {} /\ t.todo = {} /\ t.rounds = << >> /\ t.fresh = 0 /\ t.seen = {}
      /\ t.converged = FALSE
  BY ZenonT(60) DEF Idle, RunOK, RunInv, Shape, RunState
<1>3. Shape(t)
  BY <1>2 DEF Shape, Scoring
<1>4. Accounted(t) /\ BareApart(t)
  BY <1>2 DEF Accounted, BareApart, DoneIds, RowIds, Scoring
<1>5. RoundsCounted(t)
  BY <1>1, <1>2, NoRounds
<1>6. RoundsRepeat(t)
  <2>1. Len(t.rounds) = 0
    BY <1>2
  <2> QED
    BY <1>2, <2>1 DEF RoundsRepeat, Scoring
<1> QED
  BY <1>1, <1>2, <1>3, <1>4, <1>5, <1>6 DEF RunOK, RunInv

\* A step that leaves the rounds alone leaves what they count.
LEMMA RoundsStay ==
    ASSUME NEW s, RoundsCounted(s), s.pc # "done",
           NEW t, t.rounds = s.rounds, t.fresh = s.fresh, t.seen = s.seen, t.converged = s.converged
    PROVE  RoundsCounted(t)
BY DEF RoundsCounted

\* The principal's permissions are read, for an account or batch.
LEMMA ReadKeeps ==
    ASSUME NEW s, RunOK(s), s.pc = "permissions", s.kind # "iterative", NEW row \in s.todo,
           NEW rows \in Permissions,
           NEW t, t = [s EXCEPT !.todo = @ \ {row}, !.pc = "reach", !.now = {row},
                                !.held = With(<< >>, row, rows)]
    PROVE  RunOK(t)
<1>1. t \in RunState /\ IsFiniteSet(t.done)
  <2>1. s.todo \in SUBSET Rows /\ row \in Rows
    BY DEF RunOK, RunState
  <2>2. With(<< >>, row, rows) \in [{row} -> Permissions]
    BY DEF With
  <2>3. {row} \in SUBSET Rows
    BY <2>1
  <2>4. With(<< >>, row, rows) \in UNION {[D -> Permissions] : D \in SUBSET Rows}
    BY <2>2, <2>3
  <2> HIDE DEF Rows, Permissions
  <2> QED
    BY <2>1, <2>3, <2>4 DEF RunState, RunOK
<1>2. /\ t.pc = "reach" /\ t.kind = s.kind /\ t.now = {row} /\ t.done = s.done
      /\ t.bare = s.bare /\ t.todo = s.todo \ {row} /\ t.failed = s.failed
      /\ t.skipped = s.skipped /\ t.listed = s.listed
      /\ t.held = With(<< >>, row, rows)
  BY DEF RunOK, RunState
<1>3. Shape(t)
  <2>1. row \in DOMAIN t.held
    BY <1>2 DEF With
  <2> QED
    BY <1>2, <2>1 DEF Shape, Scoring, RunOK, RunInv
<1>4. Accounted(t) /\ BareApart(t)
  <2>1. s.todo \cup s.now = t.todo \cup t.now /\ s.now = {} /\ DoneIds(s) = DoneIds(t)
    BY <1>2 DEF DoneIds, RunOK, RunInv, Shape, Scoring
  <2> QED
    BY <1>2, <2>1, ZenonT(60) DEF Accounted, BareApart, RunOK, RunInv, Scoring
<1> QED
  BY <1>1, <1>2, <1>3, <1>4 DEF RunOK, RunInv

\* An account's principal has none.
LEMMA BareKeeps ==
    ASSUME NEW s, RunOK(s), s.pc = "permissions", s.kind = "account", NEW row \in s.todo,
           NEW t, t = [s EXCEPT !.todo = @ \ {row}, !.bare = @ \cup {row.id}]
    PROVE  RunOK(t)
<1>1. t \in RunState /\ IsFiniteSet(t.done)
  <2>1. s.todo \in SUBSET Rows /\ row.id \in Ids
    BY RowsOf DEF RunOK, RunState
  <2> HIDE DEF Rows, Ids
  <2> QED
    BY <2>1, ZenonT(60) DEF RunState, RunOK
<1>2. /\ t.pc = s.pc /\ t.kind = s.kind /\ t.now = s.now /\ t.done = s.done
      /\ t.bare = s.bare \cup {row.id} /\ t.todo = s.todo \ {row} /\ t.failed = s.failed
      /\ t.skipped = s.skipped /\ t.listed = s.listed /\ t.held = s.held
  BY DEF RunOK, RunState
<1>3. Shape(t)
  BY <1>2 DEF Shape, Scoring, RunOK, RunInv
<1>4. s.now = {} /\ DoneIds(t) = DoneIds(s) /\ RowIds(s.todo \cup s.now) = RowIds(t.todo \cup t.now) \cup {row.id}
  BY <1>2 DEF DoneIds, RowIds, RunOK, RunInv, Shape, Scoring
<1>5. Accounted(t)
  BY <1>2, <1>4 DEF Accounted, RunOK, RunInv, Scoring
<1>6. BareApart(t)
  <2>1. BareApart(s)
    BY DEF RunOK, RunInv
  <2>2. row.id \notin RowIds(t.todo \cup t.now) /\ row.id \in RowIds(s.todo \cup s.now)
    BY <1>2, <1>4, <2>1 DEF BareApart, RowIds
  <2> QED
    BY <1>2, <1>4, <2>1, <2>2 DEF BareApart
<1> QED
  BY <1>1, <1>2, <1>3, <1>5, <1>6 DEF RunOK, RunInv

\* An iterative run holds what it has read.
LEMMA HoldKeeps ==
    ASSUME NEW s, RunOK(s), s.pc = "permissions", s.kind = "iterative", NEW row \in s.todo,
           NEW rows \in Permissions,
           NEW t, t = [s EXCEPT !.todo = @ \ {row}, !.held = With(@, row, rows)]
    PROVE  RunOK(t)
<1>1. t \in RunState /\ IsFiniteSet(t.done)
  <2>1. s.todo \in SUBSET Rows /\ row \in Rows
    BY DEF RunOK, RunState
  <2>2. PICK D \in SUBSET Rows : s.held \in [D -> Permissions]
    BY DEF RunOK, RunState
  <2>3. With(s.held, row, rows) \in [D \cup {row} -> Permissions]
    BY <2>2 DEF With
  <2>4. D \cup {row} \in SUBSET Rows
    BY <2>1
  <2>5. With(s.held, row, rows) \in UNION {[C -> Permissions] : C \in SUBSET Rows}
    BY <2>3, <2>4
  <2> HIDE DEF Rows, Permissions
  <2> QED
    BY <2>1, <2>5 DEF RunState, RunOK
<1>2. /\ t.pc = s.pc /\ t.kind = s.kind /\ t.now = s.now /\ t.done = s.done
      /\ t.bare = s.bare /\ t.todo = s.todo \ {row} /\ t.failed = s.failed
      /\ t.skipped = s.skipped /\ t.listed = s.listed /\ t.held = With(s.held, row, rows)
      /\ t.rounds = s.rounds /\ t.fresh = s.fresh /\ t.seen = s.seen /\ t.converged = s.converged
  BY DEF RunOK, RunState
<1>3. Shape(t)
  BY <1>2 DEF Shape, Scoring, RunOK, RunInv
<1>4. DOMAIN t.held = DOMAIN s.held \cup {row}
  BY <1>2 DEF With
<1>5. Accounted(t) /\ BareApart(t)
  <2>1. t.todo \cup DOMAIN t.held = s.todo \cup DOMAIN s.held
    BY <1>2, <1>4
  <2> QED
    BY <1>2, <2>1, ZenonT(60) DEF Accounted, BareApart, RunOK, RunInv, Scoring
<1>6. RoundsCounted(t) /\ RoundsRepeat(t)
  BY <1>2, RoundsStay DEF RoundsRepeat, RunOK, RunInv, Scoring
<1> QED
  BY <1>1, <1>3, <1>5, <1>6 DEF RunOK, RunInv

\* They cannot be read.
LEMMA SkipKeeps ==
    ASSUME NEW s, RunOK(s), s.pc = "permissions", NEW row \in s.todo,
           NEW t, t = IF s.kind = "iterative"
                      THEN [s EXCEPT !.todo = @ \ {row}, !.skipped = @ \cup {row.id}]
                      ELSE [s EXCEPT !.todo = @ \ {row}, !.failed = @ \cup {row.id}]
    PROVE  RunOK(t)
<1>1. t \in RunState /\ IsFiniteSet(t.done)
  <2>1. s.todo \in SUBSET Rows /\ row.id \in Ids
    BY RowsOf DEF RunOK, RunState
  <2> HIDE DEF Rows, Ids
  <2> QED
    <3>1. CASE s.kind = "iterative"
      BY <2>1, <3>1, ZenonT(60) DEF RunState, RunOK
    <3>2. CASE s.kind # "iterative"
      BY <2>1, <3>2, ZenonT(60) DEF RunState, RunOK
    <3> QED
      BY <3>1, <3>2
<1>2. /\ t.pc = s.pc /\ t.kind = s.kind /\ t.now = s.now /\ t.done = s.done
      /\ t.bare = s.bare /\ t.todo = s.todo \ {row}
      /\ t.failed = IF s.kind = "iterative" THEN s.failed ELSE s.failed \cup {row.id}
      /\ t.skipped = IF s.kind = "iterative" THEN s.skipped \cup {row.id} ELSE s.skipped
      /\ t.listed = s.listed /\ t.held = s.held
      /\ t.rounds = s.rounds /\ t.fresh = s.fresh /\ t.seen = s.seen /\ t.converged = s.converged
  BY DEF RunOK, RunState
<1>3. Shape(t)
  BY <1>2 DEF Shape, Scoring, RunOK, RunInv
<1>4. /\ s.now = {} /\ DoneIds(t) = DoneIds(s)
      /\ RowIds(s.todo \cup s.now) = RowIds(t.todo \cup t.now) \cup {row.id}
      /\ RowIds(s.todo \cup DOMAIN s.held) = RowIds(t.todo \cup DOMAIN t.held) \cup {row.id}
  BY <1>2 DEF DoneIds, RowIds, RunOK, RunInv, Shape, Scoring
<1>5. Accounted(t)
  BY <1>2, <1>4 DEF Accounted, RunOK, RunInv, Scoring
<1>6. BareApart(t)
  BY <1>2, <1>4 DEF BareApart, RunOK, RunInv
<1>7. s.kind = "iterative" => RoundsCounted(t) /\ RoundsRepeat(t)
  BY <1>2, RoundsStay DEF RoundsRepeat, RunOK, RunInv, Scoring
<1> QED
  BY <1>1, <1>2, <1>3, <1>5, <1>6, <1>7 DEF RunOK, RunInv

\* Enter.
LEMMA EnterKeeps ==
    ASSUME NEW s, RunOK(s), s.pc = "score", NEW row \in s.todo,
           NEW t, t = [s EXCEPT !.pc = "reach", !.todo = @ \ {row}, !.now = {row}]
    PROVE  RunOK(t)
<1>1. t \in RunState /\ IsFiniteSet(t.done)
  <2>1. s.todo \in SUBSET Rows
    BY DEF RunOK, RunState
  <2> HIDE DEF Rows
  <2> QED
    BY <2>1, ZenonT(60) DEF RunState, RunOK
<1>2. /\ t.pc = "reach" /\ t.kind = s.kind /\ t.now = {row} /\ t.done = s.done
      /\ t.bare = s.bare /\ t.todo = s.todo \ {row} /\ t.failed = s.failed
      /\ t.skipped = s.skipped /\ t.listed = s.listed /\ t.held = s.held
      /\ t.rounds = s.rounds /\ t.fresh = s.fresh /\ t.seen = s.seen /\ t.converged = s.converged
  BY DEF RunOK, RunState
<1>3. s.kind = "iterative" /\ s.now = {} /\ s.todo \subseteq DOMAIN s.held
  BY DEF RunOK, RunInv, Shape, Accounted, Scoring
<1>4. t.todo \cup t.now = s.todo \cup s.now /\ DoneIds(t) = DoneIds(s)
  BY <1>2, <1>3 DEF DoneIds
<1>5. Shape(t)
  BY <1>2, <1>3 DEF Shape, Scoring
<1>6. Accounted(t) /\ BareApart(t)
  BY <1>2, <1>3, <1>4 DEF Accounted, BareApart, RunOK, RunInv, Scoring
<1>7. RoundsCounted(t) /\ RoundsRepeat(t)
  BY <1>2, <1>3, <1>4, RoundsStay DEF RoundsRepeat, RunOK, RunInv, Scoring
<1> QED
  BY <1>1, <1>5, <1>6, <1>7 DEF RunOK, RunInv

\* A signal that is read.
LEMMA SignalKeeps ==
    ASSUME NEW s, RunOK(s), s.pc \in Scoring, NEW pc \in Scoring, NEW read \in Reads,
           NEW t, t = [s EXCEPT !.pc = pc, !.read = read]
    PROVE  RunOK(t)
<1>1. t \in RunState /\ IsFiniteSet(t.done)
  <2> HIDE DEF Reads
  <2> QED
    BY DEF RunState, RunOK, Scoring
<1>2. /\ t.pc = pc /\ t.kind = s.kind /\ t.now = s.now /\ t.done = s.done
      /\ t.bare = s.bare /\ t.todo = s.todo /\ t.failed = s.failed
      /\ t.skipped = s.skipped /\ t.listed = s.listed /\ t.held = s.held
      /\ t.rounds = s.rounds /\ t.fresh = s.fresh /\ t.seen = s.seen /\ t.converged = s.converged
  BY DEF RunOK, RunState
<1>3. DoneIds(t) = DoneIds(s)
  BY <1>2 DEF DoneIds
<1>4. Shape(t)
  BY <1>2 DEF Shape, Scoring, RunOK, RunInv
<1>5. Accounted(t) /\ BareApart(t)
  BY <1>2, <1>3 DEF Accounted, BareApart, RunOK, RunInv, Scoring
<1>6. s.kind = "iterative" => RoundsCounted(t) /\ RoundsRepeat(t)
  BY <1>2, RoundsStay DEF RoundsRepeat, RunOK, RunInv, Scoring
<1> QED
  BY <1>1, <1>2, <1>4, <1>5, <1>6 DEF RunOK, RunInv

ResumedAt(s) == IF s.kind = "iterative" THEN "score" ELSE "permissions"

\* ScoreFails.
LEMMA ScoreFailsKeeps ==
    ASSUME NEW s, RunOK(s), s.pc \in Scoring, NEW row, s.now = {row},
           NEW t, t = [s EXCEPT !.pc = ResumedAt(s), !.now = {}, !.read = NoRead, !.failed = @ \cup {row.id}]
    PROVE  RunOK(t)
<1>1. row \in DOMAIN s.held /\ row \in Rows /\ row.id \in Ids
  <2>1. s.now \in SUBSET Rows
    BY DEF RunOK, RunState
  <2>2. row \in Rows
    BY <2>1
  <2> QED
    BY <2>2, RowsOf DEF RunOK, RunInv, Shape
<1>2. t \in RunState /\ IsFiniteSet(t.done)
  <2>1. NoRead \in Reads
    BY DEF NoRead, Reads
  <2> HIDE DEF Reads, Rows, Ids
  <2> QED
    BY <1>1, <2>1 DEF RunState, RunOK, ResumedAt
<1>3. /\ t.pc = ResumedAt(s) /\ t.kind = s.kind /\ t.now = {} /\ t.done = s.done
      /\ t.bare = s.bare /\ t.todo = s.todo /\ t.failed = s.failed \cup {row.id}
      /\ t.skipped = s.skipped /\ t.listed = s.listed /\ t.held = s.held
      /\ t.rounds = s.rounds /\ t.fresh = s.fresh /\ t.seen = s.seen /\ t.converged = s.converged
  BY DEF RunOK, RunState
<1>4. DoneIds(t) = DoneIds(s) /\ RowIds(s.todo \cup s.now) = RowIds(t.todo \cup t.now) \cup {row.id}
  BY <1>3 DEF DoneIds, RowIds
<1>5. Shape(t)
  BY <1>3 DEF Shape, Scoring, RunOK, RunInv, ResumedAt
<1>6. Accounted(t)
  <2>1. row.id \in RowIds(DOMAIN s.held)
    BY <1>1 DEF RowIds
  <2> QED
    BY <1>3, <1>4, <2>1 DEF Accounted, RunOK, RunInv, Scoring, ResumedAt
<1>7. BareApart(t)
  <2>1. s.todo \cap t.now = {} /\ t.todo \cup t.now \subseteq s.todo \cup s.now
    BY <1>3
  <2> QED
    BY <1>3, <1>4, <2>1 DEF BareApart, RunOK, RunInv
<1>8. s.kind = "iterative" => RoundsCounted(t) /\ RoundsRepeat(t)
  <2> SUFFICES ASSUME s.kind = "iterative" PROVE RoundsCounted(t) /\ RoundsRepeat(t)
    OBVIOUS
  <2>1. RoundsRepeat(s) /\ RoundsCounted(t)
    BY <1>3, RoundsStay DEF RunOK, RunInv, Scoring
  <2>2. \A x \in DOMAIN t.held :
              \/ t.rounds = << >> /\ x \in t.todo \cup t.now
              \/ x.id \in t.failed
              \/ {x.id} \X RulesOf(t.held[x]) \subseteq t.seen
    BY <1>3, <2>1 DEF RoundsRepeat, Scoring
  <2> QED
    BY <1>3, <2>1, <2>2 DEF RoundsRepeat, Scoring, ResumedAt
<1> QED
  BY <1>2, <1>3, <1>5, <1>6, <1>7, <1>8 DEF RunOK, RunInv

\* Finitely many rules match.
LEMMA RulesFinite ==
    ASSUME GraphInv, NEW P
    PROVE  IsFiniteSet(RulesOf(P))
<1> DEFINE S == MatchAll(rules, P)
           g == [rule \in S |-> rule.id]
<1>1. IsFiniteSet(S)
  BY MatchesLoaded, FS_Subset DEF GraphInv, RulesOK
<1>2. RulesOf(P) = {rule.id : rule \in S}
  BY DEF RulesOf
<1> HIDE DEF S
<1>3. DOMAIN g = S /\ RulesOf(P) = {g[rule] : rule \in DOMAIN g}
  BY <1>2
<1> HIDE DEF g
<1> QED
  BY <1>1, <1>3, ImageFinite

\* Pairs that were not seen add as many as their rules are.
LEMMA SeenGrows ==
    ASSUME NEW seen, IsFiniteSet(seen), NEW id, NEW found, IsFiniteSet(found)
    PROVE  /\ IsFiniteSet(seen \cup ({id} \X found))
           /\ IsFiniteSet({rule \in found : <<id, rule>> \notin seen})
           /\ Cardinality(seen \cup ({id} \X found))
                 = Cardinality(seen) + Cardinality({rule \in found : <<id, rule>> \notin seen})
<1> DEFINE fresh == {rule \in found : <<id, rule>> \notin seen}
           pairs == {id} \X fresh
<1>1. IsFiniteSet(fresh)
  BY FS_Subset
<1>2. IsFiniteSet({id}) /\ Cardinality({id}) = 1
  BY FS_Singleton
<1>3. seen \cup ({id} \X found) = seen \cup pairs /\ seen \cap pairs = {}
  OBVIOUS
<1> HIDE DEF fresh
<1>4. IsFiniteSet(pairs) /\ Cardinality(pairs) = 1 * Cardinality(fresh) /\ Cardinality(fresh) \in Nat
  BY <1>1, <1>2, FS_Product, FS_CardinalityType
<1> HIDE DEF pairs
<1>5. /\ IsFiniteSet(seen \cup pairs)
      /\ Cardinality(seen \cup pairs) = Cardinality(seen) + Cardinality(pairs) - Cardinality(seen \cap pairs)
  BY <1>4, FS_Union
<1>6. Cardinality(seen \cap pairs) = 0 /\ Cardinality(seen) \in Nat
  BY <1>3, FS_EmptySet, FS_CardinalityType
<1>7. /\ IsFiniteSet(seen \cup ({id} \X found)) /\ IsFiniteSet(fresh)
      /\ Cardinality(seen \cup ({id} \X found)) = Cardinality(seen) + Cardinality(fresh)
  <2>1. Cardinality(pairs) = Cardinality(fresh)
    BY <1>4
  <2>2. Cardinality(seen \cup pairs) = Cardinality(seen) + Cardinality(fresh)
    BY <1>4, <1>5, <1>6, <2>1
  <2> QED
    BY <1>1, <1>3, <1>5, <2>2, Zenon
<1> QED
  BY <1>7 DEF fresh

\* WithScore, of a run's state: the other assessments, the new pairs, and the whole.
Others(s, row) == IF s.kind = "iterative" THEN {b \in s.done : b.id # row.id} ELSE s.done

FreshWith(s, a) ==
    s.fresh + IF s.kind = "iterative"
              THEN Cardinality({rule \in a.rules : <<a.id, rule>> \notin s.seen}) ELSE 0

SeenWith(s, a) == IF s.kind = "iterative" THEN s.seen \cup ({a.id} \X a.rules) ELSE s.seen

ScoredState(s, row, a, unkept) ==
    [s EXCEPT !.pc = ResumedAt(s), !.now = {}, !.read = NoRead, !.done = Others(s, row) \cup {a},
              !.fresh = FreshWith(s, a), !.seen = SeenWith(s, a), !.unkept = unkept]

\* What is fresh is what seen grows by.
LEMMA FreshCounts ==
    ASSUME NEW s, IsFiniteSet(s.seen), NEW a, IsFiniteSet(a.rules)
    PROVE  /\ IsFiniteSet(s.seen \cup ({a.id} \X a.rules))
           /\ IsFiniteSet({rule \in a.rules : <<a.id, rule>> \notin s.seen})
           /\ Cardinality(s.seen \cup ({a.id} \X a.rules))
                 = Cardinality(s.seen) + Cardinality({rule \in a.rules : <<a.id, rule>> \notin s.seen})
BY SeenGrows

\* What an assessment changes.
Adds(s, t, row, a, unkept) ==
    /\ a \in Assessed /\ a.id = row.id /\ row.id \in Ids
    /\ t.unkept = unkept /\ t.kind = s.kind
    /\ a \in t.done /\ \A b \in s.done : b.id # row.id \/ s.kind # "iterative" => b \in t.done
    /\ DoneIds(t) = DoneIds(s) \cup {row.id}

\* A score that is counted, kept or not.
LEMMA ScoredKeeps ==
    ASSUME GraphInv, NEW s, RunOK(s), s.pc = "keep", NEW row, s.now = {row},
           NEW a, a = Assessment(row.id, s.held[row], s.read, rules, Weights),
           NEW unkept, unkept \in SUBSET Ids,
           NEW t, t = ScoredState(s, row, a, unkept)
    PROVE  RunOK(t) /\ Adds(s, t, row, a, unkept)
<1> DEFINE fresh == FreshWith(s, a)
           seen == SeenWith(s, a)
           others == Others(s, row)
<1> HIDE DEF fresh, seen, others
<1>1. row \in DOMAIN s.held /\ row \in Rows /\ row.id \in Ids
  <2>1. s.now \in SUBSET Rows
    BY DEF RunOK, RunState
  <2>2. row \in Rows
    BY <2>1
  <2> QED
    BY <2>2, RowsOf DEF RunOK, RunInv, Shape, Scoring
<1>2. a \in Assessed /\ a.id = row.id /\ a.rules = RulesOf(s.held[row])
  <2>1. PICK D \in SUBSET Rows : s.held \in [D -> Permissions]
    BY DEF RunOK, RunState
  <2>2. s.held[row] \in Permissions /\ s.read \in Reads
    BY <1>1, <2>1 DEF RunOK, RunState
  <2>3. a \in Assessed
    BY <1>1, <2>2 DEF Assessed
  <2> QED
    BY <2>3, AssessmentOf DEF RulesOf
<1>3. IsFiniteSet(a.rules) /\ a.rules \subseteq RuleIds
  BY <1>2, RulesFinite, AssessedMade
<1>4. s.kind = "iterative" =>
          /\ IsFiniteSet(seen) /\ fresh \in Nat
          /\ Cardinality(seen) = Cardinality(s.seen) + (fresh - s.fresh)
          /\ s.fresh \in Nat
          /\ (({a.id} \X a.rules) \subseteq s.seen => fresh = s.fresh)
  <2> SUFFICES ASSUME s.kind = "iterative"
               PROVE  /\ IsFiniteSet(seen) /\ fresh \in Nat
                      /\ Cardinality(seen) = Cardinality(s.seen) + (fresh - s.fresh)
                      /\ s.fresh \in Nat
                      /\ (({a.id} \X a.rules) \subseteq s.seen => fresh = s.fresh)
    OBVIOUS
  <2> DEFINE new == {rule \in a.rules : <<a.id, rule>> \notin s.seen}
  <2>1. IsFiniteSet(s.seen) /\ s.fresh \in Nat
    BY DEF RunOK, RunInv, RoundsCounted, RunState
  <2>2. /\ IsFiniteSet(seen) /\ IsFiniteSet(new)
        /\ Cardinality(seen) = Cardinality(s.seen) + Cardinality(new)
    <3>1. seen = s.seen \cup ({a.id} \X a.rules)
      BY DEF seen, SeenWith
    <3>2. /\ IsFiniteSet(s.seen \cup ({a.id} \X a.rules))
          /\ IsFiniteSet({rule \in a.rules : <<a.id, rule>> \notin s.seen})
          /\ Cardinality(s.seen \cup ({a.id} \X a.rules))
                = Cardinality(s.seen) + Cardinality({rule \in a.rules : <<a.id, rule>> \notin s.seen})
      BY <1>3, <2>1, FreshCounts, Zenon
    <3> QED
      BY <3>1, <3>2, Zenon
  <2>3. ({a.id} \X a.rules) \subseteq s.seen => new = {}
    OBVIOUS
  <2>4. fresh = s.fresh + Cardinality(new)
    BY DEF fresh, FreshWith
  <2> HIDE DEF new
  <2>5. Cardinality(new) \in Nat /\ Cardinality(s.seen) \in Nat /\ (new = {} => Cardinality(new) = 0)
    BY <2>1, <2>2, FS_CardinalityType, FS_EmptySet
  <2> QED
    BY <2>1, <2>2, <2>3, <2>4, <2>5
<1>5. fresh \in Nat /\ seen \in SUBSET (Ids \X RuleIds)
  <2>1. s.fresh \in Nat /\ s.seen \in SUBSET (Ids \X RuleIds)
    BY DEF RunOK, RunState
  <2>2. {a.id} \X a.rules \subseteq Ids \X RuleIds
    BY <1>1, <1>2, <1>3
  <2>3. fresh \in Nat
    <3>1. s.kind # "iterative" => fresh = s.fresh + 0
      BY DEF fresh, FreshWith
    <3> QED
      BY <1>4, <2>1, <3>1
  <2>4. seen = s.seen \/ seen = s.seen \cup ({a.id} \X a.rules)
    BY DEF seen, SeenWith
  <2> HIDE DEF Ids, RuleIds
  <2> QED
    BY <2>1, <2>2, <2>3, <2>4
<1>6. IsFiniteSet(others \cup {a}) /\ others \cup {a} \in SUBSET Assessed
  <2>1. /\ others \subseteq s.done /\ s.done \in SUBSET Assessed /\ IsFiniteSet(s.done)
    BY DEF RunOK, RunState, others, Others
  <2> QED
    BY <1>2, <2>1, FS_Subset, FS_AddElement
<1>7. t = [s EXCEPT !.pc = ResumedAt(s), !.now = {}, !.read = NoRead, !.done = others \cup {a},
                    !.fresh = fresh, !.seen = seen, !.unkept = unkept]
  BY DEF ScoredState, fresh, seen, others
<1>8. /\ t \in RunState /\ IsFiniteSet(t.done) /\ t.unkept = unkept
      /\ t.pc = ResumedAt(s) /\ t.kind = s.kind /\ t.now = {} /\ t.done = others \cup {a}
      /\ t.bare = s.bare /\ t.todo = s.todo /\ t.failed = s.failed
      /\ t.skipped = s.skipped /\ t.listed = s.listed /\ t.held = s.held
      /\ t.rounds = s.rounds /\ t.fresh = fresh /\ t.seen = seen /\ t.converged = s.converged
  <2>1. NoRead \in Reads
    BY DEF NoRead, Reads
  <2>2. ResumedAt(s) \in {"score", "permissions"}
    BY DEF ResumedAt
  <2> HIDE DEF Reads, Rows, Ids, Assessed, Permissions, RuleIds
  <2> DEFINE pc == ResumedAt(s)
             done == others \cup {a}
  <2> HIDE DEF pc, done
  <2>3. s \in RunState /\ unkept \in SUBSET Ids
    BY DEF RunOK
  <2>4. pc \in {"score", "permissions"} /\ done \in SUBSET Assessed
    BY <1>6, <2>2 DEF pc, done
  <2>5. t = [s EXCEPT !.pc = pc, !.now = {}, !.read = NoRead, !.done = done,
                      !.fresh = fresh, !.seen = seen, !.unkept = unkept]
    BY <1>7 DEF pc, done
  <2>6. t \in RunState
    BY ONLY <1>5, <2>1, <2>3, <2>4, <2>5 DEF RunState
  <2> QED
    BY <1>6, <1>7, <2>6 DEF RunState, RunOK
<1>9. DoneIds(t) = DoneIds(s) \cup {row.id}
  BY <1>2, <1>8 DEF DoneIds, others, Others
<1>10. RowIds(s.todo \cup s.now) = RowIds(t.todo \cup t.now) \cup {row.id}
  BY <1>8 DEF RowIds
<1>11. Shape(t)
  BY <1>8 DEF Shape, Scoring, RunOK, RunInv, ResumedAt
<1>12. Accounted(t)
  <2>1. row.id \in RowIds(DOMAIN s.held)
    BY <1>1 DEF RowIds
  <2>2. CASE s.kind = "iterative"
    <3>1. /\ s.todo \cup s.now \subseteq DOMAIN s.held
          /\ s.listed = RowIds(DOMAIN s.held) \cup s.skipped
          /\ DoneIds(s) \cup s.failed \subseteq RowIds(DOMAIN s.held)
          /\ RowIds(DOMAIN s.held) \subseteq RowIds(s.todo \cup s.now) \cup DoneIds(s) \cup s.failed
      BY <2>2 DEF Accounted, RunOK, RunInv, Scoring
    <3>2. t.todo \cup t.now \subseteq DOMAIN s.held
      BY <1>8, <3>1
    <3>3. /\ DoneIds(t) \cup t.failed \subseteq RowIds(DOMAIN s.held)
          /\ RowIds(DOMAIN s.held) \subseteq RowIds(t.todo \cup t.now) \cup DoneIds(t) \cup t.failed
      BY <1>8, <1>9, <1>10, <2>1, <3>1
    <3>4. t.pc = "score" /\ t.kind = "iterative"
      BY <1>8, <2>2 DEF ResumedAt
    <3> QED
      BY <1>8, <3>1, <3>2, <3>3, <3>4 DEF Accounted, Scoring
  <2>3. CASE s.kind # "iterative"
    <3>1. /\ s.skipped = {}
          /\ s.listed = RowIds(s.todo \cup s.now) \cup DoneIds(s) \cup s.failed \cup s.bare
      BY <2>3 DEF Accounted, RunOK, RunInv, Scoring
    <3>2. t.listed = RowIds(t.todo \cup t.now) \cup DoneIds(t) \cup t.failed \cup t.bare
      BY <1>8, <1>9, <1>10, <3>1
    <3> QED
      BY <1>8, <2>3, <3>1, <3>2 DEF Accounted
  <2> QED
    BY <2>2, <2>3
<1>13. BareApart(t)
  <2>1. s.todo \cap t.now = {} /\ t.todo \cup t.now \subseteq s.todo \cup s.now
    BY <1>8
  <2>2. s.kind = "account" => row.id \notin RowIds(t.todo \cup t.now)
    <3> SUFFICES ASSUME s.kind = "account", row.id \in RowIds(t.todo \cup t.now) PROVE FALSE
      OBVIOUS
    <3>1. PICK x \in s.todo : x.id = row.id
      BY <1>8 DEF RowIds
    <3>2. x = row
      BY <3>1 DEF BareApart, RunOK, RunInv
    <3> QED
      BY <3>1, <3>2 DEF BareApart, RunOK, RunInv
  <2>3. CASE s.kind = "account"
    <3>1. /\ \A x, y \in s.todo \cup s.now : x.id = y.id => x = y
          /\ DoneIds(s) \cap RowIds(s.todo \cup s.now) = {}
          /\ s.bare \cap RowIds(s.todo \cup s.now) = {} /\ s.bare \cap DoneIds(s) = {}
      BY <2>3 DEF BareApart, RunOK, RunInv
    <3>2. \A x, y \in t.todo \cup t.now : x.id = y.id => x = y
      BY <2>1, <3>1
    <3>3. t.todo \cap t.now = {}
      BY <1>8
    <3>4. /\ DoneIds(t) \cap RowIds(t.todo \cup t.now) = {}
          /\ t.bare \cap RowIds(t.todo \cup t.now) = {} /\ t.bare \cap DoneIds(t) = {}
      BY <1>8, <1>9, <1>10, <2>2, <2>3, <3>1
    <3> QED
      BY <1>8, <2>3, <3>2, <3>3, <3>4 DEF BareApart
  <2>4. CASE s.kind # "account"
    BY <1>8, <2>4 DEF BareApart, RunOK, RunInv
  <2> QED
    BY <2>3, <2>4
<1>14. s.kind = "iterative" => RoundsCounted(t)
  <2> SUFFICES ASSUME s.kind = "iterative" PROVE RoundsCounted(t)
    OBVIOUS
  <2>1. RoundsCounted(s) /\ s.rounds \in Seq(Nat)
    BY DEF RunOK, RunInv, RunState
  <2>2. SumSeq(s.rounds) \in Nat /\ Cardinality(s.seen) \in Nat
    BY <2>1, SumOfRounds, FS_CardinalityType DEF RoundsCounted
  <2> QED
    BY <1>4, <1>8, <2>1, <2>2 DEF RoundsCounted, ResumedAt
<1>15. s.kind = "iterative" => RoundsRepeat(t)
  <2> SUFFICES ASSUME s.kind = "iterative" PROVE RoundsRepeat(t)
    OBVIOUS
  <2>1. RoundsRepeat(s)
    BY DEF RunOK, RunInv
  <2>2. s.seen \subseteq seen /\ {row.id} \X RulesOf(s.held[row]) \subseteq seen
    BY <1>2 DEF seen, SeenWith
  <2>3. s.rounds # << >> => s.failed # {} \/ fresh = s.fresh
    BY <1>1, <1>2, <1>4, <2>1 DEF RoundsRepeat, Scoring
  <2>4. \A x \in DOMAIN t.held :
              \/ t.rounds = << >> /\ x \in t.todo \cup t.now
              \/ x.id \in t.failed
              \/ {x.id} \X RulesOf(t.held[x]) \subseteq t.seen
    BY <1>8, <2>1, <2>2 DEF RoundsRepeat, Scoring
  <2> QED
    BY <1>8, <2>1, <2>3, <2>4 DEF RoundsRepeat, Scoring, ResumedAt
<1> QED
  <2>1. RunOK(t)
    BY <1>8, <1>11, <1>12, <1>13, <1>14, <1>15 DEF RunOK, RunInv
  <2>2. \A b \in s.done : b.id # row.id \/ s.kind # "iterative" => b \in t.done
    BY <1>8 DEF others, Others
  <2> QED
    BY <1>1, <1>2, <1>8, <1>9, <2>1, <2>2 DEF Adds

\* Finish.
LEMMA FinishKeeps ==
    ASSUME NEW s, RunOK(s), s.pc = "permissions", s.kind # "iterative", s.todo = {},
           NEW pc \in {"error", "done"}, NEW t, t = [s EXCEPT !.pc = pc]
    PROVE  RunOK(t)
<1>1. t \in RunState /\ IsFiniteSet(t.done)
  BY DEF RunState, RunOK
<1>2. /\ t.pc = pc /\ t.kind = s.kind /\ t.now = s.now /\ t.done = s.done
      /\ t.bare = s.bare /\ t.todo = s.todo /\ t.failed = s.failed
      /\ t.skipped = s.skipped /\ t.listed = s.listed /\ t.held = s.held
  BY DEF RunOK, RunState
<1>3. DoneIds(t) = DoneIds(s)
  BY <1>2 DEF DoneIds
<1>4. Shape(t)
  BY <1>2 DEF Shape, Scoring, RunOK, RunInv
<1>5. Accounted(t) /\ BareApart(t)
  BY <1>2, <1>3 DEF Accounted, BareApart, RunOK, RunInv, Scoring
<1> QED
  BY <1>1, <1>2, <1>4, <1>5 DEF RunOK, RunInv

\* Enumerated.
LEMMA EnumeratedKeeps ==
    ASSUME NEW s, RunOK(s), s.pc = "permissions", s.kind = "iterative", s.todo = {},
           NEW t, t = IF DOMAIN s.held = {} THEN [s EXCEPT !.pc = "done", !.converged = TRUE]
                      ELSE [s EXCEPT !.pc = "score", !.todo = DOMAIN s.held]
    PROVE  RunOK(t)
<1>1. t \in RunState /\ IsFiniteSet(t.done)
  <2>1. PICK D \in SUBSET Rows : s.held \in [D -> Permissions]
    BY DEF RunOK, RunState
  <2>2. DOMAIN s.held \in SUBSET Rows
    BY <2>1
  <2> HIDE DEF Rows
  <2> QED
    BY <2>2, ZenonT(60) DEF RunState, RunOK
<1>2. /\ t.kind = s.kind /\ t.now = {} /\ t.done = {}
      /\ t.bare = s.bare /\ t.failed = {}
      /\ t.skipped = s.skipped /\ t.listed = s.listed /\ t.held = s.held
      /\ t.rounds = << >> /\ t.fresh = s.fresh /\ t.seen = s.seen
      /\ t.pc = IF DOMAIN s.held = {} THEN "done" ELSE "score"
      /\ t.todo = DOMAIN s.held
      /\ t.converged = IF DOMAIN s.held = {} THEN TRUE ELSE s.converged
  BY DEF RunOK, RunState, RunInv, Shape, Accounted, RoundsRepeat, Scoring
<1>3. Shape(t)
  BY <1>2 DEF Shape, Scoring, RunOK, RunInv
<1>4. Accounted(t) /\ BareApart(t)
  <2>1. s.todo \cup DOMAIN s.held = DOMAIN s.held /\ t.todo \cup t.now = DOMAIN s.held /\ DoneIds(t) = {}
    BY <1>2 DEF DoneIds
  <2> QED
    BY <1>2, <2>1, ZenonT(60) DEF Accounted, BareApart, RunOK, RunInv, Scoring
<1>5. RoundsCounted(t)
  <2>1. RoundsCounted(s) /\ s.rounds = << >>
    BY DEF RunOK, RunInv, RoundsRepeat
  <2>2. Len(t.rounds) = 0 /\ MaxIterations \in Nat \ {0}
    BY <1>2, LimitsAssumption
  <2> QED
    BY <1>2, <2>1, <2>2 DEF RoundsCounted
<1>6. RoundsRepeat(t)
  <2>1. Len(t.rounds) = 0
    BY <1>2
  <2> QED
    BY <1>2, <2>1 DEF RoundsRepeat, Scoring
<1> QED
  BY <1>1, <1>3, <1>4, <1>5, <1>6 DEF RunOK, RunInv

\* A round that is not quiet found enough.
LEMMA LoudRound ==
    ASSUME NEW rounds \in Seq(Nat), NEW n \in Nat, ~ Quiet(Append(rounds, n))
    PROVE  n >= Threshold
<1>1. Last(Append(rounds, n)) = n
  BY DEF Last
<1> QED
  BY <1>1, LimitsAssumption DEF Quiet

\* EndRound.
LEMMA EndRoundKeeps ==
    ASSUME NEW s, RunOK(s), s.pc = "score", s.todo = {},
           NEW rounds, rounds = Append(s.rounds, s.fresh),
           NEW ended, ended = [s EXCEPT !.rounds = rounds, !.fresh = 0],
           NEW t, t = CASE Quiet(rounds) -> [ended EXCEPT !.pc = "done", !.converged = TRUE]
                        [] ~Quiet(rounds) /\ Len(rounds) = MaxIterations
                              -> [ended EXCEPT !.pc = "done"]
                        [] OTHER -> [ended EXCEPT !.todo = DOMAIN s.held]
    PROVE  RunOK(t)
<1>1. /\ s \in RunState /\ s.kind = "iterative" /\ s.now = {} /\ s.rounds \in Seq(Nat) /\ s.fresh \in Nat
      /\ Shape(s) /\ Accounted(s) /\ BareApart(s) /\ RoundsCounted(s) /\ RoundsRepeat(s)
  BY DEF RunOK, RunInv, Shape, RunState, Scoring
<1>2. rounds \in Seq(Nat) /\ Len(rounds) = Len(s.rounds) + 1
      /\ rounds[Len(rounds)] = s.fresh /\ \A i \in 1..Len(s.rounds) : rounds[i] = s.rounds[i]
  BY <1>1
<1>3. /\ ended \in RunState /\ ended.rounds = rounds /\ ended.fresh = 0 /\ ended.kind = s.kind /\ ended.now = s.now
      /\ ended.done = s.done /\ ended.bare = s.bare /\ ended.todo = s.todo /\ ended.failed = s.failed
      /\ ended.skipped = s.skipped /\ ended.listed = s.listed /\ ended.held = s.held /\ ended.seen = s.seen
      /\ ended.converged = s.converged /\ ended.pc = s.pc
  <2> HIDE DEF Rows, Permissions, Assessed, Ids, RuleIds, Reads
  <2> QED
    BY <1>1, <1>2 DEF RunState
<1>4. DOMAIN s.held \in SUBSET Rows
  <2>1. PICK D \in SUBSET Rows : s.held \in [D -> Permissions]
    BY <1>1 DEF RunState
  <2> QED
    BY <2>1
<1> DEFINE pc == IF Quiet(rounds) \/ Len(rounds) = MaxIterations THEN "done" ELSE "score"
           todo == IF pc = "done" THEN {} ELSE DOMAIN s.held
           converged == IF Quiet(rounds) THEN TRUE ELSE s.converged
<1>5. /\ t \in RunState /\ t.rounds = rounds /\ t.fresh = 0 /\ t.kind = s.kind /\ t.now = {}
      /\ t.done = s.done /\ t.bare = s.bare /\ t.todo = todo /\ t.failed = s.failed
      /\ t.skipped = s.skipped /\ t.listed = s.listed /\ t.held = s.held /\ t.seen = s.seen
      /\ t.converged = converged /\ t.pc = pc
  <2>1. \/ t = [ended EXCEPT !.pc = "done", !.converged = TRUE] /\ pc = "done" /\ todo = {} /\ converged = TRUE
        \/ t = [ended EXCEPT !.pc = "done"] /\ pc = "done" /\ todo = {} /\ converged = s.converged
        \/ t = [ended EXCEPT !.todo = DOMAIN s.held] /\ pc = "score" /\ todo = DOMAIN s.held
             /\ converged = s.converged
    BY Zenon
  <2>2. s.todo = {} /\ s.pc = "score"
    OBVIOUS
  <2> HIDE DEF Rows, Permissions, Assessed, Ids, RuleIds, Reads, pc, todo, converged
  <2>3. CASE t = [ended EXCEPT !.pc = "done", !.converged = TRUE] /\ pc = "done" /\ todo = {} /\ converged = TRUE
    BY ONLY <1>1, <1>3, <2>2, <2>3 DEF RunState
  <2>4. CASE t = [ended EXCEPT !.pc = "done"] /\ pc = "done" /\ todo = {} /\ converged = s.converged
    BY ONLY <1>1, <1>3, <2>2, <2>4 DEF RunState
  <2>5. CASE t = [ended EXCEPT !.todo = DOMAIN s.held] /\ pc = "score" /\ todo = DOMAIN s.held
             /\ converged = s.converged
    BY ONLY <1>1, <1>3, <1>4, <2>2, <2>5 DEF RunState
  <2> QED
    BY <2>1, <2>3, <2>4, <2>5
<1>6. DoneIds(t) = DoneIds(s) /\ IsFiniteSet(t.done)
  BY <1>5 DEF DoneIds, RunOK
<1>7. Shape(t)
  BY <1>1, <1>5 DEF Shape, Scoring
<1>8. Accounted(t) /\ BareApart(t)
  <2>1. s.todo \cup s.now = {} /\ t.todo \cup t.now \subseteq DOMAIN s.held
    BY <1>1, <1>5
  <2>2. RowIds(s.todo \cup s.now) = {}
    BY <2>1 DEF RowIds
  <2>3. /\ s.listed = RowIds(DOMAIN s.held) \cup s.skipped
        /\ DoneIds(s) \cup s.failed \subseteq RowIds(DOMAIN s.held)
        /\ RowIds(DOMAIN s.held) \subseteq DoneIds(s) \cup s.failed
    BY <1>1, <2>2 DEF Accounted
  <2> QED
    BY <1>1, <1>5, <1>6, <2>1, <2>3, SMTT(30) DEF Accounted, BareApart, Scoring
<1>9. RoundsCounted(t)
  <2>1. SumSeq(rounds) = SumSeq(s.rounds) + s.fresh /\ SumSeq(s.rounds) \in Nat
    BY <1>1, SumOfRounds
  <2>2. Len(s.rounds) < MaxIterations /\ Len(s.rounds) \in Nat /\ MaxIterations \in Nat
    BY <1>1, LimitsAssumption DEF RoundsCounted
  <2>3. t.pc # "done" => /\ Len(rounds) < MaxIterations
                         /\ \A i \in 1..Len(rounds) : rounds[i] >= Threshold
    <3> SUFFICES ASSUME t.pc # "done"
                 PROVE  /\ Len(rounds) < MaxIterations
                        /\ \A i \in 1..Len(rounds) : rounds[i] >= Threshold
      OBVIOUS
    <3>1. ~ Quiet(rounds) /\ Len(rounds) # MaxIterations
      BY <1>5
    <3>2. s.fresh >= Threshold
      BY <1>1, <3>1, LoudRound
    <3>3. \A i \in 1..Len(s.rounds) : s.rounds[i] >= Threshold
      BY <1>1 DEF RoundsCounted
    <3> QED
      BY <1>2, <2>2, <3>1, <3>2, <3>3
  <2>4. t.converged => t.pc = "done" /\ Quiet(rounds)
    BY <1>1, <1>5 DEF RoundsCounted
  <2>5. IsFiniteSet(s.seen) /\ s.fresh + SumSeq(s.rounds) = Cardinality(s.seen)
    BY <1>1 DEF RoundsCounted
  <2>6. 0 + SumSeq(rounds) = Cardinality(s.seen) /\ Len(rounds) <= MaxIterations
    BY <1>1, <1>2, <2>1, <2>2, <2>5
  <2> HIDE DEF pc, todo, converged
  <2> QED
    BY <1>5, <2>3, <2>4, <2>5, <2>6 DEF RoundsCounted
<1>10. RoundsRepeat(t)
  <2>1. \A row \in DOMAIN t.held :
              \/ row.id \in t.failed
              \/ {row.id} \X RulesOf(t.held[row]) \subseteq t.seen
    BY <1>1, <1>5 DEF RoundsRepeat, Scoring
  <2>2. \A i \in 2..Len(rounds) : rounds[i] > 0 => s.failed # {}
    <3> SUFFICES ASSUME NEW i \in 2..Len(rounds), rounds[i] > 0 PROVE s.failed # {}
      OBVIOUS
    <3>1. CASE i = Len(rounds)
      <4>1. s.fresh > 0 /\ s.rounds # << >>
        BY <1>1, <1>2, <3>1
      <4> QED
        BY <1>1, <4>1 DEF RoundsRepeat
    <3>2. CASE i # Len(rounds)
      <4>1. i \in 2..Len(s.rounds) /\ i \in 1..Len(s.rounds)
        BY <1>1, <1>2, <3>2
      <4>2. s.rounds[i] > 0
        BY <1>2, <4>1
      <4> QED
        BY <1>1, <4>1, <4>2 DEF RoundsRepeat
    <3> QED
      BY <3>1, <3>2
  <2>3. t.pc \in {"done", "score"}
    BY <1>5
  <2> HIDE DEF pc, todo, converged
  <2> QED
    BY <1>5, <2>1, <2>2, <2>3 DEF RoundsRepeat, Scoring
<1> QED
  BY <1>5, <1>6, <1>7, <1>8, <1>9, <1>10 DEF RunOK, RunInv

-----------------------------------------------------------------------------
(* The invariant *)

KeptInv ==
    /\ \A id \in Ids : \A a \in kept[id] : a.id = id
    /\ \A r \in Runs : \A id \in Ids :
          \E q \in Runs : kept[id] \subseteq run[q].done \/ id \in run[q].unkept
    /\ \A r \in Runs : run[r].kind = "batch" =>
          \A id \in DoneIds(run[r]) \ run[r].unkept : kept[id] # {}

Inv ==
    /\ GraphInv
    /\ run \in [Runs -> RunState]
    /\ \A r \in Runs : RunOK(run[r])
    /\ kept \in [Ids -> SUBSET Assessed]
    /\ KeptInv

\* A step of a run leaves the assessments that the graph keeps, or replaces one.
Leaves(s, t) ==
    /\ \A a \in s.done : a \in t.done \/ a.id \in t.unkept
    /\ s.unkept \subseteq t.unkept
    /\ t.kind = "batch" => DoneIds(t) \subseteq t.unkept \/ /\ s.kind = "batch"
                                                            /\ DoneIds(t) \subseteq DoneIds(s) \cup t.unkept

Replaces(s, t, a) ==
    /\ a \in Assessed /\ a \in t.done
    /\ \A b \in s.done : b \in t.done \/ b.id = a.id
    /\ s.unkept = t.unkept
    /\ s.kind = t.kind /\ DoneIds(t) = DoneIds(s) \cup {a.id}

Moves(r, t) ==
    /\ RunOK(t)
    /\ Becomes(r, t)
    /\ \/ kept' = kept /\ Leaves(run[r], t)
       \/ \E a : kept' = [kept EXCEPT ![a.id] = {a}] /\ Replaces(run[r], t, a)

\* A step that scores nothing leaves the assessments.
LEMMA LeavesSame ==
    ASSUME NEW s, NEW t, t.done = s.done, t.unkept = s.unkept, t.kind = s.kind
    PROVE  Leaves(s, t)
BY DEF Leaves, DoneIds

\* Start as a move of a run.
LEMMA StartMoves ==
    ASSUME Inv, NEW r \in Runs, NEW kind \in {"batch", "iterative", "account"},
           NEW account \in {v.account : v \in Principal} \cup {"none"}, Start(r, kind, account)
    PROVE  \E t : Moves(r, t)
<1>1. PICK t : t = [Idle EXCEPT !.pc = "list", !.kind = kind, !.account = account]
  OBVIOUS
<1>2. RunOK(t)
  BY <1>1, StartKeeps
<1>3. t.done = {} /\ t.unkept = {}
  BY <1>1 DEF Idle
<1>4. run[r] = Idle
  BY DEF Start, Inv, RunOK, RunInv, Shape
<1>5. Leaves(run[r], t)
  BY <1>3, <1>4 DEF Leaves, DoneIds, Idle
<1>6. Becomes(r, t) /\ kept' = kept
  BY <1>1, Zenon DEF Start
<1> QED
  BY <1>2, <1>5, <1>6 DEF Moves

\* List and ListFails.
LEMMA ListMoves ==
    ASSUME Inv, NEW r \in Runs, List(r) \/ ListFails(r)
    PROVE  \E t : Moves(r, t)
<1>1. RunOK(run[r]) /\ run[r].pc = "list" /\ run[r] \in RunState
  BY DEF Inv, List, ListFails, RunOK
<1>2. CASE List(r)
  <2> DEFINE rows == IF run[r].kind = "account" THEN AccountRows(run[r].account) ELSE PrincipalRows
  <2>1. PICK t : t = [run[r] EXCEPT !.pc = "permissions", !.todo = rows,
                                    !.listed = {row.id : row \in rows}]
    OBVIOUS
  <2>2. rows \in SUBSET Rows
    BY RowsOf
  <2>3. run[r].kind = "account" => \A x, y \in rows : x.id = y.id => x = y
    BY DEF AccountRows
  <2>4. Becomes(r, t) /\ kept' = kept
    BY <1>2, <2>1, Zenon DEF List
  <2> HIDE DEF rows
  <2>5. RunOK(t)
    BY <1>1, <2>1, <2>2, <2>3, ListKeeps
  <2>6. Leaves(run[r], t)
    <3>1. t.done = run[r].done /\ t.unkept = run[r].unkept /\ t.kind = run[r].kind
      BY <1>1, <2>1 DEF RunState
    <3> QED
      BY <3>1, LeavesSame
  <2> QED
    BY <2>4, <2>5, <2>6 DEF Moves
<1>3. CASE ListFails(r)
  <2>1. PICK t : t = [run[r] EXCEPT !.pc = "error"]
    OBVIOUS
  <2>2. RunOK(t)
    BY <1>1, <2>1, ListFailsKeeps
  <2>3. Becomes(r, t) /\ kept' = kept
    BY <1>3, <2>1, Zenon DEF ListFails
  <2>4. Leaves(run[r], t)
    <3>1. t.done = run[r].done /\ t.unkept = run[r].unkept /\ t.kind = run[r].kind
      BY <1>1, <2>1 DEF RunState
    <3> QED
      BY <3>1, LeavesSame
  <2> QED
    BY <2>2, <2>3, <2>4 DEF Moves
<1> QED
  BY <1>2, <1>3

\* The row that is taken is one to do.
LEMMA FirstRow ==
    ASSUME NEW r, run[r].todo # {}
    PROVE  First(r) \in run[r].todo
BY DEF First

\* ReadPermissions.
LEMMA ReadMoves ==
    ASSUME Inv, NEW r \in Runs, ReadPermissions(r)
    PROVE  \E t : Moves(r, t)
<1> DEFINE row == First(r)
           rows == PermissionRows(row.id)
<1>1. /\ RunOK(run[r]) /\ run[r].pc = "permissions" /\ run[r] \in RunState
      /\ run[r].todo # {} /\ kept' = kept
  BY DEF Inv, ReadPermissions, RunOK
<1>2. row \in run[r].todo /\ rows \in Permissions
  BY <1>1, FirstRow, PermissionsRead DEF Inv
<1>3. PICK t : /\ Becomes(r, t)
               /\ t = CASE run[r].kind = "account" /\ rows = {}
                             -> [[run[r] EXCEPT !.todo = @ \ {row}] EXCEPT !.bare = @ \cup {row.id}]
                        [] run[r].kind = "iterative"
                             -> [[run[r] EXCEPT !.todo = @ \ {row}] EXCEPT !.held = With(@, row, rows)]
                        [] OTHER -> [[run[r] EXCEPT !.todo = @ \ {row}] EXCEPT
                                        !.pc = "reach", !.now = {row}, !.held = With(<< >>, row, rows)]
  BY Zenon DEF ReadPermissions
<1> HIDE DEF row, rows
<1>4. CASE run[r].kind = "account" /\ rows = {}
  <2>1. t = [run[r] EXCEPT !.todo = @ \ {row}, !.bare = @ \cup {row.id}]
    BY <1>1, <1>3, <1>4 DEF RunState
  <2>2. RunOK(t)
    BY <1>1, <1>2, <1>4, <2>1, BareKeeps
  <2>3. Leaves(run[r], t)
    <3>1. t.done = run[r].done /\ t.unkept = run[r].unkept /\ t.kind = run[r].kind
      BY <1>1, <2>1 DEF RunState
    <3> QED
      BY <3>1, LeavesSame
  <2> QED
    BY <1>1, <1>3, <2>2, <2>3 DEF Moves
<1>5. CASE run[r].kind = "iterative"
  <2>1. t = [run[r] EXCEPT !.todo = @ \ {row}, !.held = With(@, row, rows)]
    BY <1>1, <1>3, <1>5 DEF RunState
  <2>2. RunOK(t)
    BY <1>1, <1>2, <1>5, <2>1, HoldKeeps
  <2>3. Leaves(run[r], t)
    <3>1. t.done = run[r].done /\ t.unkept = run[r].unkept /\ t.kind = run[r].kind
      BY <1>1, <2>1 DEF RunState
    <3> QED
      BY <3>1, LeavesSame
  <2> QED
    BY <1>1, <1>3, <2>2, <2>3 DEF Moves
<1>6. CASE ~ (run[r].kind = "account" /\ rows = {}) /\ run[r].kind # "iterative"
  <2>1. t = [run[r] EXCEPT !.todo = @ \ {row}, !.pc = "reach", !.now = {row},
                           !.held = With(<< >>, row, rows)]
    BY <1>1, <1>3, <1>6 DEF RunState
  <2>2. RunOK(t)
    BY <1>1, <1>2, <1>6, <2>1, ReadKeeps
  <2>3. Leaves(run[r], t)
    <3>1. t.done = run[r].done /\ t.unkept = run[r].unkept /\ t.kind = run[r].kind
      BY <1>1, <2>1 DEF RunState
    <3> QED
      BY <3>1, LeavesSame
  <2> QED
    BY <1>1, <1>3, <2>2, <2>3 DEF Moves
<1> QED
  BY <1>4, <1>5, <1>6

\* PermissionsFail.
LEMMA SkipMoves ==
    ASSUME Inv, NEW r \in Runs, PermissionsFail(r)
    PROVE  \E t : Moves(r, t)
<1> DEFINE row == First(r)
<1>1. /\ RunOK(run[r]) /\ run[r].pc = "permissions" /\ run[r] \in RunState
      /\ run[r].todo # {} /\ kept' = kept
  BY DEF Inv, PermissionsFail, RunOK
<1>2. row \in run[r].todo
  BY <1>1, FirstRow
<1>3. PICK t : /\ Becomes(r, t)
               /\ t = IF run[r].kind = "iterative"
                      THEN [[run[r] EXCEPT !.todo = @ \ {row}] EXCEPT !.skipped = @ \cup {row.id}]
                      ELSE [[run[r] EXCEPT !.todo = @ \ {row}] EXCEPT !.failed = @ \cup {row.id}]
  BY Zenon DEF PermissionsFail
<1> HIDE DEF row
<1>4. t = IF run[r].kind = "iterative"
          THEN [run[r] EXCEPT !.todo = @ \ {row}, !.skipped = @ \cup {row.id}]
          ELSE [run[r] EXCEPT !.todo = @ \ {row}, !.failed = @ \cup {row.id}]
  BY <1>1, <1>3 DEF RunState
<1>5. RunOK(t)
  BY <1>1, <1>2, <1>4, SkipKeeps
<1>6. Leaves(run[r], t)
  <2>1. t.done = run[r].done /\ t.unkept = run[r].unkept /\ t.kind = run[r].kind
    BY <1>1, <1>4 DEF RunState
  <2> QED
    BY <2>1, LeavesSame
<1> QED
  BY <1>1, <1>3, <1>5, <1>6 DEF Moves

\* Enter.
LEMMA EnterMoves ==
    ASSUME Inv, NEW r \in Runs, Enter(r)
    PROVE  \E t : Moves(r, t)
<1> DEFINE row == First(r)
<1>1. /\ RunOK(run[r]) /\ run[r].pc = "score" /\ run[r] \in RunState
      /\ run[r].todo # {} /\ kept' = kept
  BY DEF Inv, Enter, RunOK
<1>2. row \in run[r].todo
  BY <1>1, FirstRow
<1>3. PICK t : /\ Becomes(r, t)
               /\ t = [run[r] EXCEPT !.pc = "reach", !.todo = @ \ {row}, !.now = {row}]
  BY Zenon DEF Enter
<1> HIDE DEF row
<1>4. RunOK(t)
  BY <1>1, <1>2, <1>3, EnterKeeps
<1>5. Leaves(run[r], t)
  <2>1. t.done = run[r].done /\ t.unkept = run[r].unkept /\ t.kind = run[r].kind
    BY <1>1, <1>3 DEF RunState
  <2> QED
    BY <2>1, LeavesSame
<1> QED
  BY <1>1, <1>3, <1>4, <1>5 DEF Moves

\* ReadReach, ReadDistance, MissDistance and ReadHops.
LEMMA SignalMoves ==
    ASSUME Inv, NEW r \in Runs, ReadReach(r) \/ ReadDistance(r) \/ MissDistance(r) \/ ReadHops(r)
    PROVE  \E t : Moves(r, t)
<1>1. /\ RunOK(run[r]) /\ run[r].pc \in Scoring /\ run[r] \in RunState /\ run[r].read \in Reads /\ kept' = kept
  BY DEF Inv, ReadReach, ReadDistance, MissDistance, ReadHops, RunOK, Scoring, RunState
<1>2. PICK pc \in Scoring, read \in Reads :
          \E t : t = [run[r] EXCEPT !.pc = pc, !.read = read] /\ Becomes(r, t)
  <2>1. CASE ReadReach(r)
    <3> DEFINE read == [run[r].read EXCEPT !.reach = BlastCount(edges, Now(r).id, {}, 6)]
    <3>1. read \in Reads
      BY <1>1, ReachRead DEF Reads, Inv
    <3>2. [run[r] EXCEPT !.pc = "distance", !.read.reach = BlastCount(edges, Now(r).id, {}, 6)]
            = [run[r] EXCEPT !.pc = "distance", !.read = read]
      BY <1>1 DEF RunState
    <3>3. Becomes(r, [run[r] EXCEPT !.pc = "distance", !.read = read])
      BY <2>1, <3>2 DEF ReadReach
    <3> HIDE DEF read
    <3> QED
      BY <3>1, <3>3 DEF Scoring
  <2>2. CASE ReadDistance(r)
    <3> DEFINE read == [run[r].read EXCEPT !.distance = AdminDistance(Now(r).id)]
    <3>1. read \in Reads
      BY <1>1, DistanceRead DEF Reads
    <3>2. [run[r] EXCEPT !.pc = "hops", !.read.distance = AdminDistance(Now(r).id)]
            = [run[r] EXCEPT !.pc = "hops", !.read = read]
      BY <1>1 DEF RunState
    <3>3. Becomes(r, [run[r] EXCEPT !.pc = "hops", !.read = read])
      BY <2>2, <3>2 DEF ReadDistance
    <3> HIDE DEF read
    <3> QED
      BY <3>1, <3>3 DEF Scoring
  <2>3. CASE MissDistance(r)
    <3> DEFINE read == [run[r].read EXCEPT !.distance = {}]
    <3>1. read \in Reads
      BY <1>1 DEF Reads
    <3>2. [run[r] EXCEPT !.pc = "hops", !.read.distance = {}]
            = [run[r] EXCEPT !.pc = "hops", !.read = read]
      BY <1>1 DEF RunState
    <3>3. Becomes(r, [run[r] EXCEPT !.pc = "hops", !.read = read])
      BY <2>3, <3>2 DEF MissDistance
    <3> HIDE DEF read
    <3> QED
      BY <3>1, <3>3 DEF Scoring
  <2>4. CASE ReadHops(r)
    <3> DEFINE read == [run[r].read EXCEPT !.hops = CrossAccounts(Now(r).id)]
    <3>1. read \in Reads
      BY <1>1, HopsRead DEF Reads, Inv
    <3>2. [run[r] EXCEPT !.pc = "keep", !.read.hops = CrossAccounts(Now(r).id)]
            = [run[r] EXCEPT !.pc = "keep", !.read = read]
      BY <1>1 DEF RunState
    <3>3. Becomes(r, [run[r] EXCEPT !.pc = "keep", !.read = read])
      BY <2>4, <3>2 DEF ReadHops
    <3> HIDE DEF read
    <3> QED
      BY <3>1, <3>3 DEF Scoring
  <2> QED
    BY <2>1, <2>2, <2>3, <2>4
<1>3. PICK t : t = [run[r] EXCEPT !.pc = pc, !.read = read] /\ Becomes(r, t)
  BY <1>2
<1>4. RunOK(t)
  BY <1>1, <1>3, SignalKeeps
<1>5. Leaves(run[r], t)
  <2>1. t.done = run[r].done /\ t.unkept = run[r].unkept /\ t.kind = run[r].kind
    BY <1>1, <1>3 DEF RunState
  <2> QED
    BY <2>1, LeavesSame
<1> QED
  BY <1>1, <1>3, <1>4, <1>5 DEF Moves

\* The row in progress is one whose permissions are held.
LEMMA NowRow ==
    ASSUME NEW r, RunOK(run[r]), run[r].pc \in Scoring
    PROVE  run[r].now = {Now(r)}
<1>1. PICK row : run[r].now = {row}
  BY DEF RunOK, RunInv, Shape
<1> QED
  BY <1>1 DEF Now

\* ScoreFails.
LEMMA ScoreFailsMoves ==
    ASSUME Inv, NEW r \in Runs, ScoreFails(r)
    PROVE  \E t : Moves(r, t)
<1> DEFINE row == Now(r)
<1>1. /\ RunOK(run[r]) /\ run[r].pc \in Scoring /\ run[r] \in RunState /\ kept' = kept
  BY DEF Inv, ScoreFails, RunOK, Scoring
<1>2. run[r].now = {row}
  BY <1>1, NowRow
<1>3. PICK t : /\ Becomes(r, t)
               /\ t = [run[r] EXCEPT !.pc = Resumed(r), !.now = {}, !.read = NoRead,
                                     !.failed = @ \cup {row.id}]
  BY Zenon DEF ScoreFails
<1>4. Resumed(r) = ResumedAt(run[r])
  BY DEF Resumed, ResumedAt
<1> HIDE DEF row
<1>5. RunOK(t)
  <2>1. t = [run[r] EXCEPT !.pc = ResumedAt(run[r]), !.now = {}, !.read = NoRead,
                                     !.failed = @ \cup {row.id}]
    BY <1>3, <1>4
  <2> QED
    BY <1>1, <1>2, <2>1, ScoreFailsKeeps
<1>6. Leaves(run[r], t)
  <2>1. t.done = run[r].done /\ t.unkept = run[r].unkept /\ t.kind = run[r].kind
    BY <1>1, <1>3 DEF RunState
  <2> QED
    BY <2>1, LeavesSame
<1> QED
  BY <1>1, <1>3, <1>5, <1>6 DEF Moves

\* The state with a score, by kind of run.
LEMMA WithScoreState ==
    ASSUME NEW r, run[r] \in RunState
    PROVE  /\ WithScore(r) = ScoredState(run[r], Now(r), Scored(r), run[r].unkept)
           /\ \A u : [WithScore(r) EXCEPT !.unkept = @ \cup u]
                        = ScoredState(run[r], Now(r), Scored(r), run[r].unkept \cup u)
<1> DEFINE s == run[r]
           done == Others(s, Now(r)) \cup {Scored(r)}
           fresh == FreshWith(s, Scored(r))
           seen == SeenWith(s, Scored(r))
           pc == ResumedAt(s)
<1>1. WithScore(r) = [s EXCEPT !.pc = pc, !.now = {}, !.read = NoRead, !.done = done,
                               !.fresh = fresh, !.seen = seen]
  BY DEF WithScore, Resumed, ResumedAt, Others, FreshWith, SeenWith, Fresh
<1>2. \A u : ScoredState(s, Now(r), Scored(r), u)
               = [s EXCEPT !.pc = pc, !.now = {}, !.read = NoRead, !.done = done,
                           !.fresh = fresh, !.seen = seen, !.unkept = u]
  BY DEF ScoredState
<1> HIDE DEF done, fresh, seen, pc, s
<1>4. s \in RunState
  BY DEF s
<1>5. s = [kind |-> s.kind, pc |-> s.pc, todo |-> s.todo, now |-> s.now, held |-> s.held,
           read |-> s.read, done |-> s.done, failed |-> s.failed, skipped |-> s.skipped,
           unkept |-> s.unkept, bare |-> s.bare, rounds |-> s.rounds, fresh |-> s.fresh,
           seen |-> s.seen, converged |-> s.converged, account |-> s.account, listed |-> s.listed]
  <2> HIDE DEF Rows, Permissions, Assessed, Ids, RuleIds, Reads
  <2> QED
    BY <1>4 DEF RunState
<1> DEFINE rec(u) ==
          [kind |-> s.kind, pc |-> pc, todo |-> s.todo, now |-> {}, held |-> s.held,
           read |-> NoRead, done |-> done, failed |-> s.failed, skipped |-> s.skipped,
           unkept |-> u, bare |-> s.bare, rounds |-> s.rounds, fresh |-> fresh,
           seen |-> seen, converged |-> s.converged, account |-> s.account, listed |-> s.listed]
<1>6. WithScore(r) = rec(s.unkept)
  BY <1>1, <1>5, ZenonT(60)
<1>7. ASSUME NEW u PROVE ScoredState(s, Now(r), Scored(r), u) = rec(u)
  <2>1. ScoredState(s, Now(r), Scored(r), u)
               = [s EXCEPT !.pc = pc, !.now = {}, !.read = NoRead, !.done = done,
                           !.fresh = fresh, !.seen = seen, !.unkept = u]
    BY <1>2
  <2> QED
    BY <1>5, <2>1, ZenonT(60)
<1>8. \A u : [rec(s.unkept) EXCEPT !.unkept = @ \cup u] = rec(s.unkept \cup u)
  OBVIOUS
<1> HIDE DEF rec
<1>9. \A u : [WithScore(r) EXCEPT !.unkept = @ \cup u] = rec(s.unkept \cup u)
  BY <1>6, <1>8
<1> QED
  BY <1>6, <1>7, <1>9 DEF s

\* Keep, KeepFails and Count.
LEMMA KeepMoves ==
    ASSUME Inv, NEW r \in Runs, Keep(r) \/ KeepFails(r) \/ Count(r)
    PROVE  \E t : Moves(r, t)
<1> DEFINE row == Now(r)
           a == Scored(r)
<1>1. /\ RunOK(run[r]) /\ run[r].pc = "keep" /\ run[r] \in RunState /\ GraphInv
  BY DEF Inv, Keep, KeepFails, Count, RunOK
<1>2. run[r].now = {row}
  BY <1>1, NowRow DEF Scoring
<1>3. a = Assessment(row.id, run[r].held[row], run[r].read, rules, Weights)
  BY DEF Scored
<1>4. run[r].unkept \in SUBSET Ids /\ row.id \in Ids
  <2>1. run[r].now \in SUBSET Rows /\ run[r].unkept \in SUBSET Ids
    BY <1>1 DEF RunState
  <2>2. row \in Rows
    BY <1>2, <2>1
  <2> QED
    BY <2>1, <2>2, RowsOf
<1> HIDE DEF row, a
<1>5. CASE Keep(r)
  <2>1. PICK t : t = ScoredState(run[r], row, a, run[r].unkept)
    OBVIOUS
  <2>2. Becomes(r, t) /\ kept' = [kept EXCEPT ![row.id] = {a}]
    BY <1>1, <1>5, <2>1, WithScoreState DEF Keep, row, a
  <2>3. RunOK(t) /\ Adds(run[r], t, row, a, run[r].unkept)
    BY <1>1, <1>2, <1>3, <1>4, <2>1, ScoredKeeps
  <2>4. Replaces(run[r], t, a) /\ a.id = row.id
    BY <2>3 DEF Replaces, Adds
  <2> QED
    BY <2>2, <2>3, <2>4 DEF Moves
<1>6. CASE KeepFails(r)
  <2> DEFINE unkept == run[r].unkept \cup {row.id}
  <2>1. PICK t : t = ScoredState(run[r], row, a, unkept)
    OBVIOUS
  <2>2. Becomes(r, t) /\ kept' = kept
    BY <1>1, <1>6, <2>1, WithScoreState DEF KeepFails, row, a
  <2>3. unkept \in SUBSET Ids
    BY <1>4
  <2> HIDE DEF unkept
  <2>4. RunOK(t) /\ Adds(run[r], t, row, a, unkept)
    BY <1>1, <1>2, <1>3, <2>1, <2>3, ScoredKeeps
  <2>5. Leaves(run[r], t)
    BY <2>4 DEF Leaves, Adds, unkept
  <2> QED
    BY <2>2, <2>4, <2>5 DEF Moves
<1>7. CASE Count(r)
  <2>1. PICK t : t = ScoredState(run[r], row, a, run[r].unkept)
    OBVIOUS
  <2>2. Becomes(r, t) /\ kept' = kept /\ run[r].kind = "account"
    BY <1>1, <1>7, <2>1, WithScoreState DEF Count, row, a
  <2>3. RunOK(t) /\ Adds(run[r], t, row, a, run[r].unkept)
    BY <1>1, <1>2, <1>3, <1>4, <2>1, ScoredKeeps
  <2>4. Leaves(run[r], t)
    BY <2>2, <2>3 DEF Leaves, Adds
  <2> QED
    BY <2>2, <2>3, <2>4 DEF Moves
<1> QED
  BY <1>5, <1>6, <1>7

\* Finish, Enumerated and EndRound.
LEMMA EndMoves ==
    ASSUME Inv, NEW r \in Runs, Finish(r) \/ Enumerated(r) \/ EndRound(r)
    PROVE  \E t : Moves(r, t)
<1>1. /\ RunOK(run[r]) /\ run[r] \in RunState /\ kept' = kept /\ run[r].todo = {}
  BY DEF Inv, Finish, Enumerated, EndRound, RunOK
<1>2. CASE Finish(r)
  <2>. PICK pc \in {"error", "done"} : \E t : t = [run[r] EXCEPT !.pc = pc] /\ Becomes(r, t)
    BY <1>2 DEF Finish
  <2>1. PICK t : t = [run[r] EXCEPT !.pc = pc] /\ Becomes(r, t)
    OBVIOUS
  <2>2. RunOK(t)
    BY <1>1, <1>2, <2>1, FinishKeeps DEF Finish
  <2>3. Leaves(run[r], t)
    <3>1. t.done = run[r].done /\ t.unkept = run[r].unkept /\ t.kind = run[r].kind
      BY <1>1, <2>1 DEF RunState
    <3> QED
      BY <3>1, LeavesSame
  <2> QED
    BY <1>1, <2>1, <2>2, <2>3 DEF Moves
<1>3. CASE Enumerated(r)
  <2>1. PICK t : /\ Becomes(r, t)
                 /\ t = IF DOMAIN run[r].held = {}
                        THEN [run[r] EXCEPT !.pc = "done", !.converged = TRUE]
                        ELSE [run[r] EXCEPT !.pc = "score", !.todo = DOMAIN run[r].held]
    BY <1>3, Zenon DEF Enumerated
  <2>2. RunOK(t)
    BY <1>1, <1>3, <2>1, EnumeratedKeeps DEF Enumerated
  <2>3. Leaves(run[r], t)
    <3>1. t.done = run[r].done /\ t.unkept = run[r].unkept /\ t.kind = run[r].kind
      BY <1>1, <2>1 DEF RunState
    <3> QED
      BY <3>1, LeavesSame
  <2> QED
    BY <1>1, <2>1, <2>2, <2>3 DEF Moves
<1>4. CASE EndRound(r)
  <2>1. PICK rounds, ended, t :
          /\ Becomes(r, t)
          /\ rounds = Append(run[r].rounds, run[r].fresh)
          /\ ended = [run[r] EXCEPT !.rounds = rounds, !.fresh = 0]
          /\ t = CASE Quiet(rounds) -> [ended EXCEPT !.pc = "done", !.converged = TRUE]
                   [] ~Quiet(rounds) /\ Len(rounds) = MaxIterations -> [ended EXCEPT !.pc = "done"]
                   [] OTHER -> [ended EXCEPT !.todo = DOMAIN run[r].held]
    BY <1>4, Zenon DEF EndRound
  <2>2. RunOK(t)
    BY <1>1, <1>4, <2>1, EndRoundKeeps DEF EndRound
  <2>3. Leaves(run[r], t)
    <3>1. \/ t = [ended EXCEPT !.pc = "done", !.converged = TRUE]
          \/ t = [ended EXCEPT !.pc = "done"]
          \/ t = [ended EXCEPT !.todo = DOMAIN run[r].held]
      BY <2>1, Zenon
    <3>2. t.done = run[r].done /\ t.unkept = run[r].unkept /\ t.kind = run[r].kind
      BY <1>1, <2>1, <3>1 DEF RunState
    <3> QED
      BY <3>2, LeavesSame
  <2> QED
    BY <1>1, <2>1, <2>2, <2>3 DEF Moves
<1> QED
  BY <1>2, <1>3, <1>4

-----------------------------------------------------------------------------
(* The invariant holds *)

\* Assessments do not depend on edges that are added.
LEMMA AssessedStays ==
    ASSUME rules' = rules
    PROVE  Assessed' = Assessed /\ RuleIds' = RuleIds /\ RunState' = RunState
BY DEF Assessed, RuleIds, RunState

\* Nor does what holds of a run.
LEMMA RunOKStays ==
    ASSUME rules' = rules, NEW s, RunOK(s)
    PROVE  RunOK(s)'
<1>1. RunState' = RunState
  BY AssessedStays
<1>2. RoundsRepeat(s)' <=> RoundsRepeat(s)
  BY DEF RoundsRepeat, RulesOf
<1>3. RunInv(s)' <=> RunInv(s)
  BY <1>2 DEF RunInv
<1> QED
  BY <1>1, <1>3 DEF RunOK

\* The catalogue and the graph may change.
LEMMA InvStays ==
    ASSUME Inv, UNCHANGED <<kept, rules, run>>, edges' \in SUBSET (FirstEdges \cup LaterEdges),
           FirstEdges \subseteq edges', IsFiniteSet(edges')
    PROVE  Inv'
<1>1. Assessed' = Assessed /\ RunState' = RunState
  BY AssessedStays
<1>2. GraphInv'
  BY DEF GraphInv, Inv
<1>3. \A r \in Runs : RunOK(run[r])'
  BY RunOKStays DEF Inv
<1>4. KeptInv'
  BY DEF KeptInv, Inv
<1> QED
  BY <1>1, <1>2, <1>3, <1>4 DEF Inv

\* A move of one run keeps the invariant of all.
LEMMA MoveKeepsInv ==
    ASSUME Inv, NEW r \in Runs, NEW t, Moves(r, t)
    PROVE  Inv'
<1>1. /\ run' = [run EXCEPT ![r] = t] /\ UNCHANGED <<edges, rules>> /\ RunOK(t) /\ t \in RunState
      /\ run \in [Runs -> RunState] /\ KeptInv
      /\ kept \in [Ids -> SUBSET Assessed]
  BY DEF Moves, Becomes, Inv, RunOK
<1>2. /\ run'[r] = t /\ \A q \in Runs : q # r => run'[q] = run[q]
      /\ run' \in [Runs -> RunState]
  BY <1>1
<1>3. Assessed' = Assessed /\ RunState' = RunState
  BY <1>1, AssessedStays
<1>4. GraphInv'
  BY <1>1 DEF GraphInv, Inv
<1>5. \A q \in Runs : RunOK(run[q])'
  <2>1. RunOK(t)' /\ \A q \in Runs : RunOK(run[q])
    BY <1>1, RunOKStays DEF Inv
  <2>2. \A s : RunOK(s) => RunOK(s)'
    BY <1>1, RunOKStays
  <2>3. \A q \in Runs : RunOK(run'[q])
    BY <1>1, <1>2, <2>1
  <2> QED
    BY <2>2, <2>3
<1>6. CASE kept' = kept /\ Leaves(run[r], t)
  <2>1. \A p \in Runs : \A id \in Ids :
            \E q \in Runs : kept[id] \subseteq run'[q].done \/ id \in run'[q].unkept
    <3> SUFFICES ASSUME NEW p \in Runs, NEW id \in Ids
                 PROVE  \E q \in Runs : kept[id] \subseteq run'[q].done \/ id \in run'[q].unkept
      OBVIOUS
    <3>1. PICK q \in Runs : kept[id] \subseteq run[q].done \/ id \in run[q].unkept
      BY <1>1 DEF KeptInv
    <3>2. CASE q # r
      BY <1>2, <3>1, <3>2
    <3>3. CASE q = r
      <4>1. \A a \in kept[id] : a.id = id
        BY <1>1 DEF KeptInv
      <4>2. kept[id] \subseteq t.done \/ id \in t.unkept
        BY <1>6, <3>1, <3>3, <4>1 DEF Leaves
      <4> QED
        BY <1>2, <4>2
    <3> QED
      BY <3>2, <3>3
  <2>2. \A q \in Runs : run'[q].kind = "batch" =>
            \A id \in DoneIds(run'[q]) \ run'[q].unkept : kept[id] # {}
    <3> SUFFICES ASSUME NEW q \in Runs, run'[q].kind = "batch",
                        NEW id \in DoneIds(run'[q]) \ run'[q].unkept
                 PROVE  kept[id] # {}
      OBVIOUS
    <3>1. CASE q # r
      BY <1>1, <1>2, <3>1 DEF KeptInv
    <3>2. CASE q = r
      <4>1. t.kind = "batch" /\ id \in DoneIds(t) /\ id \notin t.unkept
        BY <1>2, <3>2
      <4>2. run[r].kind = "batch" /\ id \in DoneIds(run[r]) /\ id \notin run[r].unkept
        BY <1>6, <4>1 DEF Leaves
      <4> QED
        BY <1>1, <4>2 DEF KeptInv
    <3> QED
      BY <3>1, <3>2
  <2>3. KeptInv'
    <3>1. \A id \in Ids : \A a \in kept[id] : a.id = id
      BY <1>1 DEF KeptInv
    <3>2. \A q : DoneIds(run[q])' = DoneIds(run'[q])
      BY DEF DoneIds
    <3> QED
      BY <1>6, <2>1, <2>2, <3>1, <3>2 DEF KeptInv
  <2> QED
    BY <1>1, <1>2, <1>3, <1>4, <1>5, <1>6, <2>3 DEF Inv
<1>7. ASSUME NEW a, kept' = [kept EXCEPT ![a.id] = {a}], Replaces(run[r], t, a)
      PROVE  Inv'
  <2>1. /\ a \in Assessed /\ a.id \in Ids /\ a \in t.done
        /\ \A b \in run[r].done : b \in t.done \/ b.id = a.id
        /\ run[r].unkept = t.unkept /\ run[r].kind = t.kind /\ DoneIds(t) = DoneIds(run[r]) \cup {a.id}
    BY <1>7, AssessedMade DEF Replaces
  <2>2. kept' \in [Ids -> SUBSET Assessed] /\ kept'[a.id] = {a}
        /\ \A id \in Ids : id # a.id => kept'[id] = kept[id]
    BY <1>1, <1>7, <2>1
  <2>3. \A p \in Runs : \A id \in Ids :
            \E q \in Runs : kept'[id] \subseteq run'[q].done \/ id \in run'[q].unkept
    <3> SUFFICES ASSUME NEW p \in Runs, NEW id \in Ids
                 PROVE  \E q \in Runs : kept'[id] \subseteq run'[q].done \/ id \in run'[q].unkept
      OBVIOUS
    <3>1. CASE id = a.id
      BY <1>2, <2>1, <2>2, <3>1
    <3>2. CASE id # a.id
      <4>1. PICK q \in Runs : kept[id] \subseteq run[q].done \/ id \in run[q].unkept
        BY <1>1 DEF KeptInv
      <4>2. CASE q # r
        BY <1>2, <2>2, <3>2, <4>1, <4>2
      <4>3. CASE q = r
        <5>1. \A b \in kept[id] : b.id = id
          BY <1>1 DEF KeptInv
        <5>2. kept[id] \subseteq t.done \/ id \in t.unkept
          BY <2>1, <3>2, <4>1, <4>3, <5>1
        <5> QED
          BY <1>2, <2>2, <3>2, <5>2
      <4> QED
        BY <4>2, <4>3
    <3> QED
      BY <3>1, <3>2
  <2>4. \A id \in Ids : \A b \in kept'[id] : b.id = id
    BY <1>1, <2>2 DEF KeptInv
  <2>5. \A q \in Runs : run'[q].kind = "batch" =>
            \A id \in DoneIds(run'[q]) \ run'[q].unkept : kept'[id] # {}
    <3> SUFFICES ASSUME NEW q \in Runs, run'[q].kind = "batch",
                        NEW id \in DoneIds(run'[q]) \ run'[q].unkept
                 PROVE  kept'[id] # {}
      OBVIOUS
    <3>1. id \in Ids
      <4>1. run'[q].done \in SUBSET Assessed
        BY <1>2 DEF RunState
      <4> QED
        BY <4>1, AssessedMade DEF DoneIds
    <3>2. CASE id = a.id
      BY <2>2, <3>2
    <3>3. CASE id # a.id
      <4>1. run[q].kind = "batch" /\ id \in DoneIds(run[q]) \ run[q].unkept
        BY <1>2, <2>1, <3>3
      <4>2. kept[id] # {}
        BY <1>1, <4>1 DEF KeptInv
      <4> QED
        BY <2>2, <3>1, <3>3, <4>2
    <3> QED
      BY <3>2, <3>3
  <2>6. KeptInv'
    <3>1. \A q : DoneIds(run[q])' = DoneIds(run'[q])
      BY DEF DoneIds
    <3> QED
      BY <2>3, <2>4, <2>5, <3>1 DEF KeptInv
  <2> QED
    BY <1>1, <1>2, <1>3, <1>4, <1>5, <2>2, <2>6 DEF Inv
<1> QED
  BY <1>6, <1>7 DEF Moves

\* Every step of a run is a move.
LEMMA RunStepKeepsInv ==
    ASSUME Inv, NEW r \in Runs, RunStep(r)
    PROVE  Inv'
<1>1. \E t : Moves(r, t)
  <2>1. CASE \E kind \in {"batch", "iterative"} : Start(r, kind, "none")
    BY <2>1, StartMoves
  <2>2. CASE \E account \in {v.account : v \in Principal} : Start(r, "account", account)
    <3>1. PICK account \in {v.account : v \in Principal} : Start(r, "account", account)
      BY <2>2
    <3>2. account \in {v.account : v \in Principal} \cup {"none"}
      BY <3>1
    <3> QED
      BY <3>1, <3>2, StartMoves
  <2>3. CASE List(r) \/ ListFails(r)
    BY <2>3, ListMoves
  <2>4. CASE ReadPermissions(r)
    BY <2>4, ReadMoves
  <2>5. CASE PermissionsFail(r)
    BY <2>5, SkipMoves
  <2>6. CASE Enter(r)
    BY <2>6, EnterMoves
  <2>7. CASE ReadReach(r) \/ ReadDistance(r) \/ MissDistance(r) \/ ReadHops(r)
    BY <2>7, SignalMoves
  <2>8. CASE ScoreFails(r)
    BY <2>8, ScoreFailsMoves
  <2>9. CASE Keep(r) \/ KeepFails(r) \/ Count(r)
    BY <2>9, KeepMoves
  <2>10. CASE Finish(r) \/ Enumerated(r) \/ EndRound(r)
    BY <2>10, EndMoves
  <2> QED
    BY <2>1, <2>2, <2>3, <2>4, <2>5, <2>6, <2>7, <2>8, <2>9, <2>10, Zenon DEF RunStep
<1> QED
  BY <1>1, MoveKeepsInv

\* Every step keeps the invariant.
LEMMA NextKeepsInv == Inv /\ [Next]_vars => Inv'
<1> SUFFICES ASSUME Inv, [Next]_vars PROVE Inv'
  OBVIOUS
<1>1. ASSUME NEW e \in LaterEdges, AddEdge(e) PROVE Inv'
  <2>1. IsFiniteSet(edges')
    BY <1>1, FS_AddElement DEF AddEdge, Inv, GraphInv
  <2>2. /\ UNCHANGED <<kept, rules, run>> /\ edges' \in SUBSET (FirstEdges \cup LaterEdges)
        /\ FirstEdges \subseteq edges'
    BY <1>1 DEF AddEdge, Inv, GraphInv
  <2> QED
    BY <2>1, <2>2, InvStays
<1>2. ASSUME UNCHANGED <<edges, kept, rules, run>> PROVE Inv'
  <2>1. /\ edges' \in SUBSET (FirstEdges \cup LaterEdges)
        /\ FirstEdges \subseteq edges' /\ IsFiniteSet(edges')
    BY <1>2 DEF Inv, GraphInv
  <2>2. UNCHANGED <<kept, rules, run>>
    BY <1>2
  <2> QED
    BY <2>1, <2>2, InvStays
<1>3. ASSUME NEW pair \in LaterActions, Publish(pair[1], pair[2]) PROVE Inv'
  BY <1>2, <1>3 DEF Publish
<1>4. ASSUME NEW service, NEW action, Retire(service, action) PROVE Inv'
  BY <1>2, <1>4 DEF Retire
<1>5. CASE TakeSnapshot
  BY <1>2, <1>5 DEF TakeSnapshot
<1>6. ASSUME NEW r \in Runs, RunStep(r) PROVE Inv'
  BY <1>6, RunStepKeepsInv
<1>7. CASE UNCHANGED vars
  BY <1>2, <1>7 DEF vars
<1> QED
  BY <1>1, <1>3, <1>4, <1>5, <1>6, <1>7 DEF Next

\* It holds at first.
LEMMA InitInv == Init => Inv
<1> SUFFICES ASSUME Init PROVE Inv
  OBVIOUS
<1>1. GraphInv
  <2>1. PICK files \in RuleFiles : rules \in Loaded(files)
    BY DEF Init
  <2>2. RulesOK(rules)
    BY <2>1, FilesLoaded
  <2> QED
    BY <2>2, FirstAssumption DEF Init, GraphInv
<1>2. /\ run \in [Runs -> RunState] /\ \A r \in Runs : RunOK(run[r]) /\ run[r] = Idle
  <2>1. Idle \in RunState
    BY IdleOK DEF RunOK
  <2> QED
    BY <2>1, IdleOK DEF Init
<1>3. kept \in [Ids -> SUBSET Assessed] /\ \A id \in Ids : kept[id] = {}
  BY DEF Init, Ids
<1>4. KeptInv
  <2>1. Idle.done = {} /\ Idle.kind = "none"
    BY DEF Idle
  <2> QED
    BY <1>2, <1>3, <2>1 DEF KeptInv
<1> QED
  BY <1>1, <1>2, <1>3, <1>4 DEF Inv

\* What holds of every reachable state: the graph only grows from its first edges, each run is
\* in RunOK, the scores in the graph are assessments, and a run knows of whatever replaced a
\* score it gave (batch_runner.rs, enumeration/*.rs, account_risks.rs).
THEOREM RunsInvariant == Spec => []Inv
BY InitInv, NextKeepsInv, PTL DEF Spec

-----------------------------------------------------------------------------
(* What follows *)

\* The invariant says what became of each principal.
LEMMA InvAccounts == Inv => AllAccountedFor
<1> SUFFICES ASSUME Inv, NEW r \in Runs, run[r].pc = "done"
             PROVE  /\ run[r].listed = DoneIds(run[r]) \cup run[r].failed \cup run[r].bare \cup run[r].skipped
                    /\ DoneIds(run[r]) \cap run[r].bare = {}
                    /\ run[r].kind # "iterative" => run[r].skipped = {}
                    /\ run[r].kind = "batch" =>
                          \A id \in DoneIds(run[r]) \ run[r].unkept :
                              /\ kept[id] # {}
                              /\ \E s \in Runs : kept[id] \subseteq run[s].done \/ id \in run[s].unkept
  BY DEF AllAccountedFor, DoneIds
<1>1. /\ run[r] \in RunState
      /\ Shape(run[r]) /\ Accounted(run[r]) /\ BareApart(run[r])
  BY DEF Inv, RunOK, RunInv
<1>2. run[r].todo = {} /\ run[r].now = {}
  BY <1>1 DEF Shape, Scoring
<1>3. RowIds(run[r].todo \cup run[r].now) = {}
  BY <1>2 DEF RowIds
<1>4. run[r].listed = DoneIds(run[r]) \cup run[r].failed \cup run[r].bare \cup run[r].skipped
  BY <1>1, <1>3 DEF Accounted, BareApart
<1>5. DoneIds(run[r]) \cap run[r].bare = {}
  BY <1>1 DEF BareApart
<1>6. run[r].kind # "iterative" => run[r].skipped = {}
  BY <1>1 DEF Accounted
<1>7. ASSUME run[r].kind = "batch", NEW id \in DoneIds(run[r]) \ run[r].unkept
      PROVE  /\ kept[id] # {}
             /\ \E s \in Runs : kept[id] \subseteq run[s].done \/ id \in run[s].unkept
  <2>1. id \in Ids
    BY <1>1, AssessedMade DEF DoneIds, RunState
  <2> QED
    BY <1>7, <2>1 DEF Inv, KeptInv
<1> QED
  BY <1>4, <1>5, <1>6, <1>7

\* The invariant counts the rounds.
LEMMA InvPaysOff == Inv => RoundsPayOff
<1> SUFFICES ASSUME Inv, NEW r \in Runs, run[r].kind = "iterative"
             PROVE  /\ run[r].fresh + SumSeq(run[r].rounds) = Cardinality(run[r].seen)
                    /\ Len(run[r].rounds) <= MaxIterations
                    /\ run[r].pc # "done" => Len(run[r].rounds) * Threshold <= Cardinality(run[r].seen)
                    /\ (\E i \in 2..Len(run[r].rounds) : run[r].rounds[i] > 0) => run[r].failed # {}
                    /\ run[r].converged => run[r].rounds = << >> \/ Quiet(run[r].rounds)
  BY DEF RoundsPayOff, SumSeq
<1>1. /\ run[r].rounds \in Seq(Nat) /\ run[r].fresh \in Nat
      /\ RoundsCounted(run[r]) /\ RoundsRepeat(run[r])
  BY DEF Inv, RunOK, RunInv, RunState
<1>2. /\ SumSeq(run[r].rounds) \in Nat
      /\ (\A i \in 1..Len(run[r].rounds) : run[r].rounds[i] >= Threshold) =>
             Len(run[r].rounds) * Threshold =< SumSeq(run[r].rounds)
  BY <1>1, SumOfRounds
<1>3. run[r].pc # "done" => Len(run[r].rounds) * Threshold <= Cardinality(run[r].seen)
  <2> SUFFICES ASSUME run[r].pc # "done"
               PROVE  Len(run[r].rounds) * Threshold <= Cardinality(run[r].seen)
    OBVIOUS
  <2>1. Len(run[r].rounds) * Threshold =< SumSeq(run[r].rounds)
    BY <1>1, <1>2 DEF RoundsCounted
  <2>2. run[r].fresh + SumSeq(run[r].rounds) = Cardinality(run[r].seen)
    BY <1>1 DEF RoundsCounted
  <2> DEFINE n == Len(run[r].rounds) * Threshold
  <2>3. n \in Int
    BY <1>1, LimitsAssumption
  <2> HIDE DEF n
  <2>4. n =< SumSeq(run[r].rounds)
    BY <2>1 DEF n
  <2>5. n =< Cardinality(run[r].seen)
    BY <1>1, <1>2, <2>2, <2>3, <2>4
  <2> QED
    BY <2>5 DEF n
<1> QED
  BY <1>1, <1>3 DEF RoundsCounted, RoundsRepeat

\* Every assessment, kept or of a run, was made by scoring.
LEMMA AssessmentsMade ==
    ASSUME Inv, NEW a \in Assessments
    PROVE  Made(a, rules)
<1>1. CASE \E id \in DOMAIN kept : a \in kept[id]
  <2>1. PICK id \in DOMAIN kept : a \in kept[id]
    BY <1>1
  <2>2. kept \in [Ids -> SUBSET Assessed]
    BY DEF Inv
  <2> QED
    BY <2>1, <2>2, AssessedMade
<1>2. CASE \E r \in Runs : a \in run[r].done
  <2>1. PICK r \in Runs : a \in run[r].done
    BY <1>2
  <2>2. run \in [Runs -> RunState]
    BY DEF Inv
  <2>3. run[r].done \subseteq Assessed
    BY <2>2 DEF RunState
  <2> QED
    BY <2>1, <2>3, AssessedMade
<1>3. a \in UNION {kept[id] : id \in DOMAIN kept} \/ a \in UNION {run[r].done : r \in Runs}
  BY Zenon DEF Assessments
<1>4. ASSUME a \in UNION {kept[id] : id \in DOMAIN kept} PROVE \E id \in DOMAIN kept : a \in kept[id]
  BY <1>4, Zenon
<1>5. ASSUME a \in UNION {run[r].done : r \in Runs} PROVE \E r \in Runs : a \in run[r].done
  BY <1>5, Zenon
<1> QED
  BY <1>1, <1>2, <1>3, <1>4, <1>5

\* Rules that match a combination match whoever holds it.
LEMMA DiscoveriesFound ==
    ASSUME RulesOK(rules), NEW a, Made(a, rules),
           NEW d \in Discoveries(rules, FuzzFamilies, 3, {}),
           d.actions \subseteq {p.action : p \in a.permissions}
    PROVE  d.rules \subseteq a.rules
<1> DEFINE P(combo) == {[action |-> word] : word \in combo}
<1>1. PICK combo : /\ d.actions = combo
                   /\ d.rules = {r.id : r \in MatchAll(rules, P(combo))}
  BY DEF Discoveries
<1>2. Covers(a.permissions, {p.action : p \in P(combo)})
  BY <1>1 DEF Covers
<1> HIDE DEF P
<1>3. MatchAll(rules, P(combo)) \subseteq MatchAll(rules, a.permissions)
  BY <1>2, MatchAllGrows
<1>4. a.rules = {r.id : r \in MatchAll(rules, a.permissions)}
  BY MadeOf
<1> QED
  BY <1>1, <1>3, <1>4

\* The invariant makes assessments comparable.
LEMMA InvPower == Inv => PowerRaisesRisk
<1> SUFFICES ASSUME Inv PROVE PowerRaisesRisk
  OBVIOUS
<1>1. RulesOK(rules)
  BY DEF Inv, GraphInv
<1>2. ASSUME NEW a \in Assessments, NEW b \in Assessments
      PROVE  /\ Covers(b.permissions, {p.action : p \in a.permissions}) => a.rules \subseteq b.rules
             /\ MayAsMuch(a, b) /\ ReachesAsMuch(a, b) => a.score <= b.score
  BY <1>1, AssessmentsMade, PowerCounts
<1>3. ASSUME NEW r \in Runs, NEW d \in Discoveries(rules, FuzzFamilies, 3, {}), NEW a \in run[r].done,
             d.actions \subseteq {p.action : p \in a.permissions}
      PROVE  d.rules \subseteq a.rules
  <2>1. run[r].done \in {run[q].done : q \in Runs}
    BY <1>3, Zenon
  <2>2. a \in UNION {run[q].done : q \in Runs}
    BY <1>3, <2>1
  <2>3. a \in Assessments
    BY <2>2, Zenon DEF Assessments
  <2> QED
    BY <1>1, <1>3, <2>3, AssessmentsMade, DiscoveriesFound
<1> QED
  BY <1>2, <1>3 DEF PowerRaisesRisk

\* A run that ended accounts for every principal it listed, and the graph keeps a score of each
\* that a batch scored and could write (batch_runner.rs, iterative_scorer.rs, account_risks.rs).
THEOREM AlwaysAccountedFor == Spec => []AllAccountedFor
BY RunsInvariant, InvAccounts, PTL

\* The rounds of an iterative run add up to what it found, are bounded, each but the last worth
\* its while, and a later one finds something only after a failure (iterative_scorer.rs).
THEOREM RoundsAlwaysPayOff == Spec => []RoundsPayOff
BY RunsInvariant, InvPaysOff, PTL

\* For every set of rules, weights and graph: whoever can do as much as another scores as much
\* (scorer.rs, signals/*.rs, rule_engine.rs), and fuzzed combinations match their holders.
THEOREM PowerAlwaysRaisesRisk == Spec => []PowerRaisesRisk
BY RunsInvariant, InvPower, PTL

-----------------------------------------------------------------------------
(* The account's report *)

InOrder(s) == \A i, j \in DOMAIN s : i < j => ~Higher(s[j], s[i])

\* A finite set of assessments can be put in the order of their scores.
LEMMA SortedExists ==
    ASSUME NEW S, IsFiniteSet(S), \A a \in S : a.score \in Int
    PROVE  \E s \in SetToSeqs(S) : InOrder(s)
<1> DEFINE Sorts(u) == \E s \in SetToSeqs(u) : InOrder(s)
           T == {n \in Nat : \E u \in SUBSET S : Cardinality(u) = n /\ ~ Sorts(u)}
<1>1. \A u \in SUBSET S : IsFiniteSet(u) /\ Cardinality(u) \in Nat
  BY FS_Subset, FS_CardinalityType
<1>2. T = {}
  <2> SUFFICES ASSUME T # {} PROVE FALSE
    OBVIOUS
  <2>1. PICK n \in T : \A m \in T : n =< m
    <3> T \in SUBSET Nat
      OBVIOUS
    <3> HIDE DEF T
    <3> QED BY Least
  <2>2. PICK u \in SUBSET S : Cardinality(u) = n /\ ~ Sorts(u)
    BY <2>1
  <2>3. u # {}
    <3> SUFFICES ASSUME u = {} PROVE FALSE
      OBVIOUS
    <3>1. << >> \in SetToSeqs(u)
      BY FS_EmptySet DEF SetToSeqs
    <3>2. InOrder(<< >>)
      BY DEF InOrder
    <3> QED
      BY <2>2, <3>1, <3>2
  <2>4. PICK x \in u : \A a \in u : x.score =< a.score
    <3> DEFINE f == [a \in u |-> a.score]
               scores == {f[a] : a \in DOMAIN f}
    <3>1. IsFiniteSet(scores)
      <4> DOMAIN f = u
        OBVIOUS
      <4> HIDE DEF f
      <4> QED
        BY <1>1, ImageFinite
    <3>2. scores \in SUBSET Int /\ scores # {}
      BY <2>3
    <3>3. Min(scores) \in scores /\ \A y \in scores : Min(scores) =< y
      <4> HIDE DEF scores
      <4> QED
        BY <3>1, <3>2, MinOf
    <3> QED
      BY <3>3
  <2>5. /\ Cardinality(u \ {x}) = n - 1 /\ u \ {x} \in SUBSET S
        /\ n - 1 \in Nat /\ n \in Nat /\ n - 1 \notin T
    <3>1. Cardinality(u \ {x}) = n - 1 /\ u \ {x} \in SUBSET S
      BY <1>1, <2>2, FS_RemoveElement
    <3>2. n - 1 \in Nat /\ n \in Nat
      BY <1>1, <2>2, <3>1
    <3> HIDE DEF T
    <3> QED
      BY <2>1, <3>1, <3>2
  <2>6. PICK s \in SetToSeqs(u \ {x}) : InOrder(s)
    BY <2>5
  <2> DEFINE t == [i \in 1..n |-> IF i = n THEN x ELSE s[i]]
  <2>7. /\ s \in [1..(n - 1) -> u \ {x}] /\ \A i, j \in 1..(n - 1) : i # j => s[i] # s[j]
    BY <2>5 DEF SetToSeqs
  <2>8. t \in SetToSeqs(u)
    <3>1. \A i \in 1..n : i # n => i \in 1..(n - 1)
      BY <2>5
    <3>2. t \in [1..n -> u] /\ \A i, j \in 1..n : i # j => t[i] # t[j]
      BY <2>7, <3>1
    <3> QED
      BY <2>2, <3>2 DEF SetToSeqs
  <2>9. InOrder(t)
    <3> SUFFICES ASSUME NEW i \in 1..n, NEW j \in 1..n, i < j PROVE ~Higher(t[j], t[i])
      BY DEF InOrder
    <3>1. i \in 1..(n - 1) /\ t[i] = s[i]
      BY <2>5
    <3>2. CASE j = n
      <4>1. s[i] \in u /\ x \in u /\ u \subseteq S
        BY <2>7, <3>1
      <4>2. x.score \in Int /\ s[i].score \in Int /\ x.score =< s[i].score
        BY <2>4, <4>1
      <4> QED
        BY <3>1, <3>2, <4>2 DEF Higher
    <3>3. CASE j # n
      <4>1. j \in 1..(n - 1) /\ t[j] = s[j]
        BY <2>5, <3>3
      <4>2. i \in DOMAIN s /\ j \in DOMAIN s
        BY <2>7, <3>1, <4>1
      <4> QED
        BY <2>6, <3>1, <4>1, <4>2 DEF InOrder
    <3> QED
      BY <3>2, <3>3
  <2> QED
    BY <2>2, <2>8, <2>9
<1>3. Cardinality(S) \in Nat /\ Cardinality(S) \notin T
  BY <1>1, <1>2
<1> QED
  BY <1>3

\* The first elements of a sequence.
LEMMA FirstOf ==
    ASSUME NEW S, NEW s \in Seq(S), NEW k \in 0..Len(s)
    PROVE  SubSeq(s, 1, k) \in [1..k -> S]
<1>1. SubSeq(s, 1, k) = Restrict(s, 1..k)
  BY SubSeqRestrict
<1>2. \A i \in 1..k : s[i] \in S
  OBVIOUS
<1> QED
  BY <1>1, <1>2 DEF Restrict

\* The list of the top principals.
LEMMA TopIsTop ==
    ASSUME NEW r, IsFiniteSet(run[r].done), \A a \in run[r].done : a.score \in Int
    PROVE  LET top == Range(TopPrincipals(r))
           IN  /\ \A a \in run[r].done \ top : \A b \in top : a.score <= b.score
               /\ Cardinality(top) = Min({TopLimit, Cardinality(run[r].done)})
<1> DEFINE S == run[r].done
           n == Cardinality(S)
           k == Min({TopLimit, n})
           sorted == CHOOSE s \in SetToSeqs(S) : \A i, j \in DOMAIN s : i < j => ~Higher(s[j], s[i])
           first == SubSeq(sorted, 1, k)
           top == {first[i] : i \in DOMAIN first}
<1>1. sorted \in SetToSeqs(S) /\ InOrder(sorted)
  <2>1. \E s \in SetToSeqs(S) : InOrder(s)
    BY SortedExists
  <2> QED
    BY <2>1 DEF InOrder
<1>2. n \in Nat /\ k \in Nat /\ k =< n /\ k = Min({TopLimit, n})
  <2>1. n \in Nat /\ TopLimit \in Nat
    BY FS_CardinalityType, LimitsAssumption
  <2> HIDE DEF n
  <2> QED
    BY <2>1, MinOfTwo
<1>3. sorted \in [1..n -> S] /\ \A i, j \in 1..n : i # j => sorted[i] # sorted[j]
  BY <1>1 DEF SetToSeqs
<1>9. sorted \in Seq(S) /\ Len(sorted) = n
  <2> HIDE DEF sorted, n, S
  <2> QED
    BY <1>2, <1>3
<1>4. TopPrincipals(r) = first
  BY <1>9, Zenon DEF TopPrincipals
<1>5. Range(TopPrincipals(r)) = top
  BY <1>4, Zenon DEF Range
<1> HIDE DEF sorted
<1>6. DOMAIN first = 1..k /\ \A i \in 1..k : first[i] = sorted[i] /\ i \in 1..n
  <2> HIDE DEF n, k, S
  <2>1. DOMAIN SubSeq(sorted, 1, k) = 1..k
    BY <1>2, <1>9
  <2>2. \A i \in 1..k : SubSeq(sorted, 1, k)[i] = sorted[i] /\ i \in 1..n
    BY <1>2, <1>9
  <2> QED
    BY <2>1, <2>2
<1> HIDE DEF first
<1>7. Cardinality(top) = k
  <2>1. first \in Surjection(1..k, top) /\ first \in Injection(1..k, top)
    <3>1. first \in [1..k -> top]
      <4>1. k \in 0..Len(sorted)
        <5> HIDE DEF n, k
        <5> QED
          BY <1>2, <1>9
      <4>2. first \in [1..k -> S]
        <5> HIDE DEF n, k, S
        <5> QED
          BY <1>9, <4>1, FirstOf DEF first
      <4> HIDE DEF n, k, S
      <4> QED
        BY <1>6, <4>2
    <3>2. \A i, j \in 1..k : first[i] = first[j] => i = j
      BY <1>3, <1>6
    <3> HIDE DEF k
    <3> QED
      BY <1>6, <3>1, <3>2 DEF Surjection, Injection, IsInjective
  <2>2. IsFiniteSet(1..k) /\ Cardinality(1..k) = k
    <3> HIDE DEF k
    <3>1. 1 \in Int /\ k \in Int
      BY <1>2
    <3>2. IsFiniteSet(1..k) /\ Cardinality(1..k) = IF 1 > k THEN 0 ELSE k - 1 + 1
      BY <3>1, FS_Interval, Zenon
    <3> QED
      BY <1>2, <3>2
  <2> HIDE DEF top, k
  <2> QED
    BY <2>1, <2>2, FS_Surjection
<1>8. ASSUME NEW a \in S \ top, NEW b \in top PROVE a.score <= b.score
  <2>1. sorted \in Surjection(1..n, S)
    <3>1. sorted \in Injection(1..n, S)
      <4> HIDE DEF n
      <4> QED
        BY <1>3 DEF Injection, IsInjective
    <3>2. IsFiniteSet(1..n) /\ Cardinality(1..n) = n
      <4> HIDE DEF n
      <4>1. 1 \in Int /\ n \in Int
        BY <1>2
      <4>2. IsFiniteSet(1..n) /\ Cardinality(1..n) = IF 1 > n THEN 0 ELSE n - 1 + 1
        BY <4>1, FS_Interval, Zenon
      <4> QED
        BY <1>2, <4>2
    <3> QED
      BY <3>1, <3>2, FS_Injection
  <2>2. PICK j \in 1..n : sorted[j] = a
    BY <1>8, <2>1 DEF Surjection
  <2>3. PICK i \in 1..k : b = sorted[i]
    BY <1>6, <1>8
  <2>4. j \notin 1..k
    BY <1>6, <1>8, <2>2
  <2>5. i \in DOMAIN sorted /\ j \in DOMAIN sorted
    BY <1>3, <1>6, <2>2, <2>3
  <2>6. i < j
    <3> HIDE DEF k, n
    <3> QED
      BY <1>2, <2>2, <2>3, <2>4
  <2>7. ~Higher(a, b)
    BY <1>1, <2>2, <2>3, <2>5, <2>6 DEF InOrder
  <2>8. a \in S /\ b \in S
    BY <1>3, <1>6, <1>8, <2>3
  <2> QED
    BY <2>7, <2>8 DEF Higher
<1> QED
  BY <1>5, <1>7, <1>8

Thousandths == 1..1000

\* The whole of numbers that are at least one and at most 1000, divided by their parts of it,
\* is between the least and the greatest of them.
LEMMA MeanBetween ==
    ASSUME NEW n \in Nat \ {0}, NEW low \in Thousandths, NEW high \in Thousandths, NEW sum \in Nat,
           n * (Whole \div high) =< sum, sum =< n * (Whole \div low)
    PROVE  (n * Whole) \div sum \in low..high
<1> DEFINE C == Whole
           x == C \div high
           y == C \div low
<1>0. C \in Nat /\ 1000 * 1001 =< C
  BY DEF Whole
<1> USE DEF Thousandths
<1> HIDE DEF C
<1>1. x \in Nat /\ high * x =< C /\ C < high * x + high /\ x >= 1000
  <2>1. x \in Nat /\ high * x =< C /\ C < high * x + high
    BY <1>0
  <2> HIDE DEF x
  <2>2. x >= 1000
    <3> SUFFICES ASSUME x < 1000 PROVE FALSE
      BY <2>1
    <3>1. high * (x + 1) > C
      BY <1>0, <2>1
    <3>2. high * (x + 1) =< 1000 * (x + 1)
      BY <2>1
    <3> QED
      BY <1>0, <2>1, <3>1, <3>2
  <2> QED
    BY <2>1, <2>2
<1>2. y \in Nat /\ low * y =< C
  BY <1>0
<1> HIDE DEF x, y
<1>3. n * x =< sum /\ sum =< n * y
  BY DEF C, x, y
<1>4. sum > 0
  <2>1. n * x >= n * 1000
    BY <1>1
  <2> QED
    BY <1>1, <1>3, <2>1
<1>5. low * sum =< n * C
  <2>1. low * sum =< low * (n * y)
    BY <1>2, <1>3
  <2>2. low * (n * y) = n * (low * y)
    BY <1>2
  <2>3. n * (low * y) =< n * C
    BY <1>0, <1>2
  <2> QED
    BY <1>0, <1>2, <2>1, <2>2, <2>3
<1>6. n * C < (high + 1) * sum
  <2>1. (high + 1) * x > C
    <3>1. (high + 1) * x = high * x + x
      BY <1>1
    <3> QED
      BY <1>0, <1>1, <3>1
  <2>2. n * ((high + 1) * x) > n * C
    BY <1>0, <1>1, <2>1
  <2>3. n * ((high + 1) * x) = (high + 1) * (n * x)
    BY <1>1
  <2>4. (high + 1) * (n * x) =< (high + 1) * sum
    BY <1>1, <1>3
  <2> QED
    BY <1>0, <1>1, <2>2, <2>3, <2>4
<1> DEFINE a == n * C
           q == a \div sum
<1>7. a \in Nat /\ q \in Int /\ sum * q =< a /\ a < sum * q + sum
  <2>1. a \in Nat
    BY <1>0
  <2> HIDE DEF a
  <2> QED
    BY <1>4, <2>1
<1> HIDE DEF a, q
<1>8. low =< q
  <2> SUFFICES ASSUME q + 1 =< low PROVE FALSE
    BY <1>7
  <2>1. sum * (q + 1) =< sum * low
    BY <1>7
  <2>2. sum * (q + 1) = sum * q + sum
    BY <1>7
  <2> QED
    BY <1>5, <1>7, <2>1, <2>2 DEF a
<1>9. q =< high
  <2> SUFFICES ASSUME high + 1 =< q PROVE FALSE
    BY <1>7
  <2>1. sum * (high + 1) =< sum * q
    BY <1>7
  <2> QED
    BY <1>6, <1>7, <2>1 DEF a
<1> QED
  BY <1>7, <1>8, <1>9 DEF C, a, q

Parts == 0..1000

\* A finite set of numbers lies between its least and its greatest.
LEMMA Extremes ==
    ASSUME NEW S \in SUBSET Int, IsFiniteSet(S), S # {}
    PROVE  Min(S) \in S /\ Max(S) \in S /\ \A x \in S : Min(S) =< x /\ x =< Max(S)
BY MinOf, MaxOf

\* The fold of the harmonic mean is a sum.
LEMMA PartsTotal ==
    ASSUME NEW counted, IsFiniteSet(counted), NEW scores
    PROVE  MapThenSumSet(LAMBDA c : Whole \div scores[c], counted)
               = Total([c \in counted |-> Whole \div scores[c]])
<1> DEFINE S == counted
           g == [c \in S |-> Whole \div scores[c]]
           Eq(sums) == [s \in SUBSET S |->
                          IF s = {} THEN 0
                          ELSE (Whole \div scores[CHOOSE y \in s : TRUE])
                               + sums[s \ {CHOOSE y \in s : TRUE}]]
           sums == CHOOSE k : k = Eq(k)
<1>1. DOMAIN g = S /\ IsFiniteSet(S)
  OBVIOUS
<1> HIDE DEF S
<1>2. MapThenSumSet(LAMBDA c : Whole \div scores[c], S) = sums[S]
  BY DEF MapThenSumSet, MapThenFoldSet
<1>3. \A k : Solves(k, g) <=> k = Eq(k)
  BY <1>1 DEF Solves
<1>4. Solves(sums, g)
  <2> HIDE DEF Eq, g
  <2> QED
    BY <1>1, <1>3, SumsExist
<1> HIDE DEF sums
<1>5. sums[S] = Total(g)
  BY <1>1, <1>4, SolvedOnce
<1> QED
  BY <1>2, <1>5 DEF S

\* The mean of numbers in thousandths lies between the least and the greatest positive one.
LEMMA MeanOf ==
    ASSUME NEW scores, IsFiniteSet(DOMAIN scores), \A c \in DOMAIN scores : scores[c] \in Parts,
           {scores[c] : c \in DOMAIN scores} \ {0} # {}
    PROVE  HarmonicMean(scores) \in Min({scores[c] : c \in DOMAIN scores} \ {0})
                                      ..Max({scores[c] : c \in DOMAIN scores} \ {0})
<1> DEFINE found == {scores[c] : c \in DOMAIN scores} \ {0}
           counted == {c \in DOMAIN scores : scores[c] > 0}
           g == [c \in counted |-> Whole \div scores[c]]
           low == Min(found)
           high == Max(found)
<1>1. IsFiniteSet(counted) /\ counted # {} /\ \A c \in counted : scores[c] \in found
  <2>1. IsFiniteSet(counted)
    BY FS_Subset
  <2>2. \A c \in counted : scores[c] \in found
    OBVIOUS
  <2>3. counted # {}
    <3>1. PICK c \in DOMAIN scores : scores[c] # 0
      OBVIOUS
    <3>2. c \in counted
      BY <3>1 DEF Parts
    <3> QED
      BY <3>2
  <2> QED
    BY <2>1, <2>2, <2>3
<1>2. found \subseteq Thousandths /\ IsFiniteSet(found)
  <2>1. found \subseteq Thousandths
    BY DEF Thousandths, Parts
  <2>2. IsFiniteSet({scores[c] : c \in DOMAIN scores})
    BY ImageFinite
  <2> QED
    BY <2>1, <2>2, FS_Subset
<1>0. found # {}
  OBVIOUS
<1> HIDE DEF found
<1>3. low \in found /\ high \in found /\ \A s \in found : low =< s /\ s =< high
  <2>1. found \in SUBSET Int
    BY <1>2 DEF Thousandths
  <2> QED
    BY <1>0, <1>2, <2>1, Extremes
<1>4. low \in Thousandths /\ high \in Thousandths
  BY <1>2, <1>3
<1> DEFINE n == Cardinality(counted)
           sum == Total(g)
<1>5. n \in Nat \ {0}
  <2> HIDE DEF counted
  <2>1. n \in Nat /\ n # 0
    BY <1>1, FS_CardinalityType, FS_EmptySet
  <2> QED
    BY <2>1
<1>6. HarmonicMean(scores) = (n * Whole) \div sum
  <2>1. MapThenSumSet(LAMBDA c : Whole \div scores[c], counted) = sum
    BY <1>1, PartsTotal
  <2> QED
    BY <1>1, <2>1, Zenon DEF HarmonicMean
<1>7. Whole \in Nat
  BY DEF Whole
<1>8. DOMAIN g = counted /\ \A c \in counted :
          g[c] \in Nat /\ Whole \div high =< g[c] /\ g[c] =< Whole \div low
  <2> SUFFICES ASSUME NEW c \in counted
               PROVE  g[c] \in Nat /\ Whole \div high =< g[c] /\ g[c] =< Whole \div low
    OBVIOUS
  <2>1. g[c] = Whole \div scores[c] /\ scores[c] \in found
    BY <1>1
  <2>2. PICK s \in Thousandths : s = scores[c]
    BY <1>2, <2>1
  <2> HIDE DEF g, low, high
  <2>3. low =< s /\ s =< high
    BY <1>3, <2>1, <2>2
  <2>4. \A a \in Thousandths, b \in Thousandths : a =< b =>
            Whole \div a \in Nat /\ Whole \div b =< Whole \div a
    <3> SUFFICES ASSUME NEW a \in Thousandths, NEW b \in Thousandths, a =< b
                 PROVE  Whole \div a \in Nat /\ Whole \div b =< Whole \div a
      OBVIOUS
    <3> USE DEF Thousandths
    <3> DEFINE x == Whole \div a
               y == Whole \div b
    <3>1. x \in Nat /\ a * x =< Whole /\ Whole < a * x + a
      BY <1>7
    <3>2. y \in Nat /\ b * y =< Whole
      BY <1>7
    <3> HIDE DEF x, y
    <3>3. SUFFICES ASSUME x + 1 =< y PROVE FALSE
      BY <3>1, <3>2 DEF x, y
    <3>4. a * (x + 1) =< b * (x + 1)
      <4>1. PICK d \in Nat : b = a + d
        <5>1. b - a \in Nat /\ b = a + (b - a)
          OBVIOUS
        <5> QED
          BY <5>1
      <4>2. (a + d) * (x + 1) = a * (x + 1) + d * (x + 1)
        BY <3>1
      <4>3. d * (x + 1) \in Nat /\ a * (x + 1) \in Nat
        BY <3>1
      <4> QED
        BY <4>1, <4>2, <4>3
    <3>5. b * (x + 1) =< b * y
      BY <3>1, <3>2, <3>3
    <3>6. a * (x + 1) = a * x + a
      BY <3>1
    <3>7. a * (x + 1) \in Nat /\ b * (x + 1) \in Nat /\ b * y \in Nat
      BY <3>1, <3>2
    <3> QED
      BY <1>7, <3>1, <3>2, <3>4, <3>5, <3>6, <3>7
  <2>5. Whole \div s \in Nat /\ Whole \div high =< Whole \div s /\ Whole \div s =< Whole \div low
    BY <1>4, <2>2, <2>3, <2>4, Zenon
  <2> QED
    BY <2>1, <2>2, <2>5
<1> HIDE DEF g, counted
<1>9. (Whole \div high) * n =< sum /\ sum =< (Whole \div low) * n /\ sum \in Nat
  <2> HIDE DEF low, high
  <2>1. Whole \div high \in Int /\ Whole \div low \in Int
    BY <1>4, <1>7 DEF Thousandths
  <2>2. \A c \in DOMAIN g : g[c] \in Int /\ g[c] \in Nat
    BY <1>8
  <2>3. sum \in Nat
    BY <1>1, <1>8, <2>2, TotalType
  <2> QED
    BY <1>1, <1>8, <2>1, <2>2, <2>3, TotalBounds
<1>10. n * (Whole \div high) =< sum /\ sum =< n * (Whole \div low)
  <2> HIDE DEF low, high, n, sum
  <2>1. Whole \div high \in Int /\ Whole \div low \in Int
    BY <1>4, <1>7 DEF Thousandths
  <2> QED
    BY <1>5, <1>9, <2>1
<1> HIDE DEF low, high, n, sum
<1>11. (n * Whole) \div sum \in low..high
  BY <1>4, <1>5, <1>9, <1>10, MeanBetween, Zenon
<1> QED
  BY <1>6, <1>11 DEF low, high, found

\* There are four categories.
LEMMA CategoriesFinite == IsFiniteSet(CategoryNames)
<1>1. CategoryNames = (({"cf_escalation"} \cup {"oidc_drift"}) \cup {"s3_boundary"}) \cup {"kms_grant"}
  BY DEF CategoryNames
<1>2. IsFiniteSet({"cf_escalation"})
  BY FS_Singleton
<1> QED
  BY <1>1, <1>2, FS_AddElement, Zenon

Bounded(a) == a.score \in Nat /\ a.score =< 100000

\* Each category is as bad as its worst principal.
LEMMA SubScoresOf ==
    ASSUME NEW r, IsFiniteSet(run[r].done),
           \A a \in run[r].done : Bounded(a)
    PROVE  /\ DOMAIN SubScores(r) = CategoryNames
           /\ \A c \in CategoryNames :
                 /\ SubScores(r)[c] \in Parts
                 /\ \A a \in run[r].done : InCategory(a, c) => SubScores(r)[c] >= InThousandths(a)
<1>1. SubScores(r) = [category \in CategoryNames |->
          Max({0} \cup {InThousandths(a) : a \in {b \in run[r].done : InCategory(b, category)}})]
  BY Zenon DEF SubScores
<1>2. ASSUME NEW c \in CategoryNames
      PROVE  /\ SubScores(r)[c] \in Parts
             /\ \A a \in run[r].done : InCategory(a, c) => SubScores(r)[c] >= InThousandths(a)
  <2> DEFINE of == {b \in run[r].done : InCategory(b, c)}
             f == [a \in of |-> InThousandths(a)]
             S == {0} \cup {f[a] : a \in DOMAIN f}
  <2>1. SubScores(r)[c] = Max({0} \cup {InThousandths(a) : a \in of})
    BY <1>1, Zenon
  <2>2. {0} \cup {InThousandths(a) : a \in of} = S
    OBVIOUS
  <2>3. \A a \in of : f[a] \in Parts
    <3> SUFFICES ASSUME NEW a \in of PROVE f[a] \in Parts
      OBVIOUS
    <3>1. Bounded(a)
      OBVIOUS
    <3>2. f[a] = InThousandths(a)
      OBVIOUS
    <3> HIDE DEF f, of
    <3> QED
      BY <3>1, <3>2 DEF Bounded, Parts, InThousandths
  <2>4. DOMAIN f = of /\ IsFiniteSet(of)
    BY FS_Subset
  <2>5. \A a \in run[r].done : InCategory(a, c) => a \in of /\ f[a] = InThousandths(a)
    OBVIOUS
  <2> HIDE DEF f, of
  <2>6. IsFiniteSet({f[a] : a \in DOMAIN f})
    BY <2>4, ImageFinite
  <2>7. IsFiniteSet(S)
    <3>1. S = {f[a] : a \in DOMAIN f} \cup {0}
      OBVIOUS
    <3> QED
      BY <2>6, <3>1, FS_AddElement
  <2>8. S \subseteq Parts /\ 0 \in S /\ \A a \in of : f[a] \in S
    BY <2>3, <2>4 DEF Parts
  <2> HIDE DEF S
  <2>9. Max(S) \in S /\ \A x \in S : x =< Max(S)
    <3>1. S \in SUBSET Int /\ S # {}
      BY <2>8 DEF Parts
    <3> QED
      BY <2>7, <3>1, MaxOf
  <2>10. SubScores(r)[c] = Max(S)
    BY <2>1, <2>2, Zenon
  <2>11. Max(S) \in Parts
    BY <2>8, <2>9
  <2>12. \A a \in of : f[a] =< Max(S)
    BY <2>8, <2>9
  <2>13. \A a \in of : Max(S) >= f[a]
    BY <2>3, <2>11, <2>12 DEF Parts
  <2>14. \A a \in run[r].done : InCategory(a, c) => Max(S) >= InThousandths(a)
    BY <2>5, <2>13, Zenon
  <2> QED
    BY <2>10, <2>11, <2>14, Zenon
<1>3. DOMAIN SubScores(r) = CategoryNames
  BY <1>1, Zenon
<1> QED
  BY <1>2, <1>3, Zenon

\* The invariant makes the account's report one of finitely many scores.
LEMMA InvTellsWorst == Inv => ReportTellsWorst
<1> SUFFICES ASSUME Inv, NEW r \in Runs
             PROVE  LET top   == Range(TopPrincipals(r))
                        found == {SubScores(r)[c] : c \in CategoryNames} \ {0}
                    IN  /\ \A a \in run[r].done \ top : \A b \in top : a.score <= b.score
                        /\ Cardinality(top) = Min({TopLimit, Cardinality(run[r].done)})
                        /\ \A a \in run[r].done, c \in CategoryNames :
                              InCategory(a, c) => SubScores(r)[c] >= InThousandths(a)
                        /\ found # {} => Cascade(r) \in Min(found)..Max(found)
  BY Zenon DEF ReportTellsWorst
<1>1. IsFiniteSet(run[r].done) /\ run[r].done \subseteq Assessed /\ RulesOK(rules)
  BY DEF Inv, RunOK, RunState, GraphInv
<1>2. \A a \in run[r].done : Bounded(a)
  BY <1>1, AssessedMade, MadeOf DEF Bounded
<1>3. \A a \in run[r].done : a.score \in Int
  BY <1>2 DEF Bounded
<1> DEFINE scores == SubScores(r)
           top == Range(TopPrincipals(r))
<1>4. /\ DOMAIN scores = CategoryNames
      /\ \A c \in CategoryNames : scores[c] \in Parts
      /\ \A c \in CategoryNames, a \in run[r].done : InCategory(a, c) => scores[c] >= InThousandths(a)
  BY <1>1, <1>2, SubScoresOf, Zenon
<1>5. /\ \A a \in run[r].done \ top : \A b \in top : a.score <= b.score
      /\ Cardinality(top) = Min({TopLimit, Cardinality(run[r].done)})
  BY <1>1, <1>3, TopIsTop, Zenon
<1>6. Cascade(r) = HarmonicMean(scores)
  BY Zenon DEF Cascade
<1> HIDE DEF scores, top
<1>7. {scores[c] : c \in CategoryNames} \ {0} # {} =>
          Cascade(r) \in Min({scores[c] : c \in CategoryNames} \ {0})..Max({scores[c] : c \in CategoryNames} \ {0})
  BY <1>4, <1>6, CategoriesFinite, MeanOf, Zenon
<1> QED
  BY <1>4, <1>5, <1>7, Zenon DEF scores, top

\* An account's report leaves out nobody who scores more than one it shows, rates no category
\* below its principals, and its cascade lies between the categories (account_risks.rs,
\* cascade.rs).
THEOREM ReportAlwaysTellsWorst == Spec => []ReportTellsWorst
BY RunsInvariant, InvTellsWorst, PTL

-----------------------------------------------------------------------------
(* The catalogue *)

\* The fold that counts the new actions is a sum, for either kind of service.
LEMMA CardinalitiesTotal ==
    ASSUME NEW S, IsFiniteSet(S), NEW of
    PROVE  MapThenSumSet(LAMBDA s : Cardinality(of[s]), S) = Total([s \in S |-> Cardinality(of[s])])
<1> DEFINE g == [s \in S |-> Cardinality(of[s])]
           Eq(sums) == [s \in SUBSET S |->
                          IF s = {} THEN 0
                          ELSE Cardinality(of[CHOOSE y \in s : TRUE])
                               + sums[s \ {CHOOSE y \in s : TRUE}]]
           sums == CHOOSE k : k = Eq(k)
<1>1. DOMAIN g = S /\ IsFiniteSet(S)
  OBVIOUS
<1>2. MapThenSumSet(LAMBDA s : Cardinality(of[s]), S) = sums[S]
  BY DEF MapThenSumSet, MapThenFoldSet
<1>3. \A k : Solves(k, g) <=> k = Eq(k)
  BY <1>1 DEF Solves
<1>4. Solves(sums, g)
  <2> HIDE DEF Eq, g
  <2> QED
    BY <1>1, <1>3, SumsExist
<1> HIDE DEF sums
<1>5. sums[S] = Total(g)
  BY <1>1, <1>4, SolvedOnce
<1> QED
  BY <1>2, <1>5

\* Finite sets together have at most as many elements as each by itself.
LEMMA UnionBound ==
    ASSUME NEW of, IsFiniteSet(DOMAIN of), \A s \in DOMAIN of : IsFiniteSet(of[s])
    PROVE  /\ IsFiniteSet(UNION {of[s] : s \in DOMAIN of})
           /\ Cardinality(UNION {of[s] : s \in DOMAIN of})
                  =< Total([s \in DOMAIN of |-> Cardinality(of[s])])
           /\ \A s \in DOMAIN of :
                  Cardinality(of[s]) =< Total([z \in DOMAIN of |-> Cardinality(of[z])])
<1> DEFINE D == DOMAIN of
           g == [s \in D |-> Cardinality(of[s])]
           all(u) == UNION {of[s] : s \in u}
           Less(u) == IsFiniteSet(all(u)) /\ Cardinality(all(u)) =< SumsOf(g)[u]
           T == {n \in Nat : \E u \in SUBSET D : Cardinality(u) = n /\ ~ Less(u)}
<1>1. \A u \in SUBSET D : IsFiniteSet(u) /\ Cardinality(u) \in Nat
  BY FS_Subset, FS_CardinalityType
<1>2. DOMAIN g = D /\ IsFiniteSet(D) /\ \A s \in D : g[s] = Cardinality(of[s]) /\ g[s] \in Nat
  BY FS_CardinalityType
<1>3. \A s \in D : IsFiniteSet(of[s])
  OBVIOUS
<1> HIDE DEF g, D, all
<1>4. \A u \in SUBSET D : SumsOf(g)[u] \in Nat
  BY <1>2, SumsType
<1>5. T = {}
  <2> SUFFICES ASSUME T # {} PROVE FALSE
    OBVIOUS
  <2>1. PICK n \in T : \A m \in T : n =< m
    <3> T \in SUBSET Nat
      OBVIOUS
    <3> HIDE DEF T
    <3> QED BY Least
  <2>2. PICK u \in SUBSET D : Cardinality(u) = n /\ ~ Less(u)
    BY <2>1
  <2>3. PICK x \in u : TRUE
    <3> SUFFICES ASSUME u = {} PROVE FALSE
      OBVIOUS
    <3>1. all(u) = {}
      BY DEF all
    <3>2. SumsOf(g)[u] = 0
      BY <1>2, SumsExist DEF Solves
    <3> QED
      BY <2>2, <3>1, <3>2, FS_EmptySet
  <2>4. Cardinality(u \ {x}) = n - 1 /\ u \ {x} \in SUBSET D /\ n - 1 \in Nat
    <3>1. Cardinality(u \ {x}) = n - 1 /\ u \ {x} \in SUBSET D
      BY <1>1, <2>2, FS_RemoveElement
    <3> QED
      BY <1>1, <3>1
  <2>5. n - 1 \notin T
    <3>1. n \in Nat
      BY <1>1, <2>2
    <3> HIDE DEF T
    <3> QED
      BY <2>1, <2>4, <3>1
  <2>6. Less(u \ {x})
    BY <2>4, <2>5
  <2>7. all(u) = all(u \ {x}) \cup of[x]
    BY <2>3 DEF all
  <2>8. SumsOf(g)[u] = g[x] + SumsOf(g)[u \ {x}]
    BY <1>2, <2>2, SumsPick
  <2>9. IsFiniteSet(of[x]) /\ x \in D
    BY <1>3, <2>2
  <2> DEFINE rest == all(u \ {x})
  <2> HIDE DEF rest
  <2>10. IsFiniteSet(rest) /\ Cardinality(rest) =< SumsOf(g)[u \ {x}]
    BY <2>6 DEF rest
  <2>11. /\ IsFiniteSet(rest \cup of[x])
         /\ Cardinality(rest \cup of[x]) = Cardinality(rest) + Cardinality(of[x]) - Cardinality(rest \cap of[x])
         /\ Cardinality(rest \cap of[x]) \in Nat /\ Cardinality(rest) \in Nat /\ Cardinality(of[x]) \in Nat
    <3>1. IsFiniteSet(rest \cap of[x])
      BY <2>10, FS_Subset
    <3> QED
      BY <2>9, <2>10, <3>1, FS_Union, FS_CardinalityType
  <2>12. SumsOf(g)[u \ {x}] \in Nat /\ g[x] = Cardinality(of[x])
    BY <1>2, <1>4, <2>4, <2>9
  <2>13. all(u) = rest \cup of[x]
    BY <2>7 DEF rest
  <2> HIDE DEF T
  <2> QED
    BY <2>2, <2>8, <2>10, <2>11, <2>12, <2>13
<1>6. Less(D)
  <2>1. Cardinality(D) \in Nat /\ Cardinality(D) \notin T
    BY <1>1, <1>5
  <2> QED
    BY <2>1
<1>7. ASSUME NEW s \in D PROVE Cardinality(of[s]) =< Total(g)
  <2>1. SumsOf(g)[D] = g[s] + SumsOf(g)[D \ {s}]
    <3>1. IsFiniteSet(DOMAIN g) /\ (\A y \in DOMAIN g : g[y] \in Int) /\ D \in SUBSET DOMAIN g
      BY <1>2
    <3> QED
      BY <3>1, SumsPick, ZenonT(60)
  <2>2. g[s] \in Nat /\ g[s] = Cardinality(of[s])
    BY <1>2
  <2>3. SumsOf(g)[D \ {s}] \in Nat
    BY <1>4
  <2> QED
    BY <1>2, <2>1, <2>2, <2>3 DEF Total
<1> QED
  BY <1>2, <1>6, <1>7 DEF Total, g, D, all

\* The catalogues are finite, and services stay.
CatalogOK(c) ==
    /\ DOMAIN FirstCatalog \subseteq DOMAIN c
    /\ IsFiniteSet(DOMAIN c)
    /\ \A service \in DOMAIN c : IsFiniteSet(c[service])

WarnedOfAll ==
    \A policy \in WildcardPolicies(FirstEdges), service \in DOMAIN FirstCatalog :
        policy[2] \in {"*", service} =>
            {policy[1]} \X (snapshot[service] \ FirstCatalog[service]) \subseteq warned

NewsTrue(n) ==
    /\ \A i \in n.impacts : Cardinality(i.actions) <= n.total
    /\ n.impacts # {} => n.score >= Min({SeverityScore(i.severity) : i \in n.impacts})

CatalogInv == CatalogOK(catalog) /\ CatalogOK(snapshot) /\ WarnedOfAll /\ NewsTrue(news)

\* What a difference of catalogues lists.
LEMMA DiffOf ==
    ASSUME NEW from, NEW to, CatalogOK(from), CatalogOK(to)
    PROVE  LET diff == Diff(from, to)
           IN  /\ IsFiniteSet(DOMAIN diff.newActions) /\ IsFiniteSet(diff.newServices)
               /\ \A s \in DOMAIN diff.newActions :
                     IsFiniteSet(diff.newActions[s]) /\ diff.newActions[s] # {}
               /\ \A s \in diff.newServices : IsFiniteSet(to[s])
               /\ \A s \in DOMAIN from \cap DOMAIN to : \A action \in to[s] \ from[s] :
                     s \in DOMAIN diff.newActions /\ action \in diff.newActions[s]
<1> DEFINE new == Diff(from, to).newActions
           added == Diff(from, to).newServices
<1>1. added = DOMAIN to \ DOMAIN from
  BY DEF Diff
<1>2. new = [s \in {t \in Services(from, to) : to[t] \ from[t] # {}} |-> to[s] \ from[s]]
  BY DEF Diff
<1> HIDE DEF new, added
<1>3. DOMAIN new \subseteq DOMAIN to /\ \A s \in DOMAIN new : new[s] \subseteq to[s] /\ new[s] # {}
  BY <1>2 DEF Services
<1>4. IsFiniteSet(DOMAIN new) /\ IsFiniteSet(added)
  BY <1>1, <1>3, FS_Subset DEF CatalogOK
<1>5. \A s \in DOMAIN new : IsFiniteSet(new[s]) /\ new[s] # {}
  BY <1>3, FS_Subset DEF CatalogOK
<1>6. \A s \in added : IsFiniteSet(to[s])
  BY <1>1 DEF CatalogOK
<1>7. \A s \in DOMAIN from \cap DOMAIN to : \A action \in to[s] \ from[s] :
          s \in DOMAIN new /\ action \in new[s]
  BY <1>2 DEF Services
<1> QED
  BY <1>4, <1>5, <1>6, <1>7 DEF new, added

\* What a pattern covers.
LEMMA CoveredOf ==
    ASSUME NEW from, NEW to, CatalogOK(from), CatalogOK(to), NEW pattern
    PROVE  LET diff == Diff(from, to)
           IN  /\ IsFiniteSet(Covered(diff, pattern))
               /\ Cardinality(Covered(diff, pattern)) <= TotalNewActions(to, diff)
               /\ \A s \in DOMAIN from \cap DOMAIN to :
                     pattern \in {"*", s} => to[s] \ from[s] \subseteq Covered(diff, pattern)
<1> DEFINE diff == Diff(from, to)
           new == diff.newActions
           added == diff.newServices
           some == Total([s \in DOMAIN new |-> Cardinality(new[s])])
           more == Total([s \in added |-> Cardinality(to[s])])
           all == UNION {new[s] : s \in DOMAIN new}
           covered == Covered(diff, pattern)
<1>1. /\ IsFiniteSet(DOMAIN new) /\ IsFiniteSet(added)
      /\ \A s \in DOMAIN new : IsFiniteSet(new[s]) /\ new[s] # {}
      /\ \A s \in added : IsFiniteSet(to[s])
      /\ \A s \in DOMAIN from \cap DOMAIN to : \A action \in to[s] \ from[s] :
             s \in DOMAIN new /\ action \in new[s]
  BY DiffOf, Zenon
<1>2. covered = IF pattern = "*" THEN all ELSE IF pattern \in DOMAIN new THEN new[pattern] ELSE {}
  BY Zenon DEF Covered
<1> HIDE DEF diff
<1>3. TotalNewActions(to, diff) = some + more
  <2>1. MapThenSumSet(LAMBDA s : Cardinality(diff.newActions[s]), DOMAIN diff.newActions) = some
    BY <1>1, CardinalitiesTotal, Zenon
  <2>2. MapThenSumSet(LAMBDA s : Cardinality(to[s]), diff.newServices) = more
    BY <1>1, CardinalitiesTotal, Zenon
  <2> QED
    BY <2>1, <2>2, Zenon DEF TotalNewActions
<1> HIDE DEF new, added
<1>4. some \in Nat /\ more \in Nat
  <2>1. \A s \in DOMAIN new : Cardinality(new[s]) \in Nat
    BY <1>1, FS_CardinalityType
  <2>2. \A s \in added : Cardinality(to[s]) \in Nat
    BY <1>1, FS_CardinalityType
  <2> QED
    BY <1>1, <2>1, <2>2, TotalType
<1>5. /\ IsFiniteSet(all) /\ Cardinality(all) =< some
      /\ \A s \in DOMAIN new : Cardinality(new[s]) =< some
  BY <1>1, UnionBound, Zenon
<1>6. \A s \in DOMAIN new : new[s] \subseteq all
  OBVIOUS
<1> HIDE DEF some, more, all, covered
<1>7. IsFiniteSet(covered) /\ Cardinality(covered) =< some
  BY <1>1, <1>2, <1>4, <1>5, FS_EmptySet
<1>8. Cardinality(covered) \in Nat
  BY <1>7, FS_CardinalityType
<1>9. ASSUME NEW s \in DOMAIN from \cap DOMAIN to, pattern \in {"*", s}
      PROVE  to[s] \ from[s] \subseteq covered
  <2> SUFFICES ASSUME NEW action \in to[s] \ from[s] PROVE action \in covered
    OBVIOUS
  <2>1. s \in DOMAIN new /\ action \in new[s]
    BY <1>1
  <2> QED
    BY <1>2, <1>6, <1>9, <2>1
<1>10. Cardinality(covered) =< some + more
  BY <1>4, <1>7, <1>8
<1> QED
  BY <1>3, <1>7, <1>9, <1>10, Zenon DEF covered, diff

\* The fold of the expansion score is a sum.
LEMMA ImpactsTotal ==
    ASSUME NEW impacts, IsFiniteSet(impacts)
    PROVE  MapThenSumSet(LAMBDA i : SeverityScore(i.severity) + TenthLog(Cardinality(i.actions)), impacts)
               = Total([i \in impacts |-> SeverityScore(i.severity) + TenthLog(Cardinality(i.actions))])
<1> DEFINE S == impacts
           Term(i) == SeverityScore(i.severity) + TenthLog(Cardinality(i.actions))
           g == [i \in S |-> Term(i)]
           Eq(sums) == [s \in SUBSET S |->
                          IF s = {} THEN 0
                          ELSE Term(CHOOSE y \in s : TRUE) + sums[s \ {CHOOSE y \in s : TRUE}]]
           sums == CHOOSE k : k = Eq(k)
<1>1. DOMAIN g = S /\ IsFiniteSet(S)
  OBVIOUS
<1> HIDE DEF S
<1>2. MapThenSumSet(LAMBDA i : SeverityScore(i.severity) + TenthLog(Cardinality(i.actions)), S) = sums[S]
  BY DEF MapThenSumSet, MapThenFoldSet
<1>3. \A k : Solves(k, g) <=> k = Eq(k)
  <2> HIDE DEF Term
  <2> QED
    BY <1>1 DEF Solves
<1>4. Solves(sums, g)
  <2> HIDE DEF Eq, g
  <2> QED
    BY <1>1, <1>3, SumsExist
<1> HIDE DEF sums
<1>5. sums[S] = Total(g)
  BY <1>1, <1>4, SolvedOnce
<1> QED
  BY <1>2, <1>5 DEF S

\* The logarithm of a positive number is not negative.
LEMMA TenthLogType ==
    ASSUME NEW n \in Nat \ {0}
    PROVE  TenthLog(n) \in Nat
<1> DEFINE x == Log10(n)
<1>1. x \in Nat
  BY LogOf
<1> HIDE DEF x
<1>2. x \div 100 \in Nat
  BY <1>1
<1> QED
  BY <1>2 DEF TenthLog, x

\* The scores of severities.
LEMMA SeverityScores ==
    ASSUME NEW severity
    PROVE  SeverityScore(severity) \in {40, 20, 10, 5}
BY Zenon DEF SeverityScore

\* The score is not below that of the least severe impact.
LEMMA ScoreAtLeast ==
    ASSUME NEW impacts, IsFiniteSet(impacts), impacts # {},
           \A i \in impacts : Cardinality(i.actions) \in Nat \ {0}
    PROVE  ExpansionScore(impacts, TenthLog) >= Min({SeverityScore(i.severity) : i \in impacts})
<1> DEFINE f == [i \in impacts |-> SeverityScore(i.severity)]
           g == [i \in impacts |-> SeverityScore(i.severity) + TenthLog(Cardinality(i.actions))]
           scores == {f[i] : i \in DOMAIN f}
           n == Cardinality(impacts)
           low == Min(scores)
           sum == Total(g)
<1>1. {SeverityScore(i.severity) : i \in impacts} = scores
  BY Zenon
<1>2. ExpansionScore(impacts, TenthLog) = Min({100, sum \div n})
  BY ImpactsTotal, Zenon DEF ExpansionScore
<1>3. n \in Nat \ {0}
  <2>1. n \in Nat /\ n # 0
    BY FS_CardinalityType, FS_EmptySet
  <2> QED
    BY <2>1
<1>4. \A i \in impacts : f[i] \in 5..40 /\ TenthLog(Cardinality(i.actions)) \in Nat
  <2> SUFFICES ASSUME NEW i \in impacts
               PROVE  f[i] \in 5..40 /\ TenthLog(Cardinality(i.actions)) \in Nat
    OBVIOUS
  <2>1. f[i] \in {40, 20, 10, 5}
    BY SeverityScores
  <2>2. TenthLog(Cardinality(i.actions)) \in Nat
    BY TenthLogType
  <2> QED
    BY <2>1, <2>2
<1>5. \A i \in impacts : g[i] = f[i] + TenthLog(Cardinality(i.actions))
  OBVIOUS
<1>6. DOMAIN f = impacts /\ DOMAIN g = impacts
  OBVIOUS
<1> HIDE DEF f, g
<1>7. scores \subseteq 5..40 /\ scores # {} /\ IsFiniteSet(scores)
  BY <1>4, <1>6, ImageFinite
<1>8. low \in 5..40 /\ \A i \in impacts : low =< f[i]
  <2> HIDE DEF scores
  <2>1. scores \in SUBSET Int
    BY <1>7
  <2>2. low \in scores /\ \A x \in scores : low =< x
    BY <1>7, <2>1, MinOf
  <2> QED
    BY <1>6, <1>7, <2>2 DEF scores
<1> HIDE DEF low
<1>9. \A i \in impacts : g[i] \in Nat /\ low =< g[i]
  BY <1>4, <1>5, <1>8
<1> DEFINE S == {g[i] : i \in DOMAIN g}
           high == Max(S)
<1>10. high \in Int /\ \A i \in impacts : g[i] =< high
  <2>1. IsFiniteSet(DOMAIN g)
    BY <1>6
  <2>2. IsFiniteSet(S)
    BY <2>1, ImageFinite
  <2>3. \A i \in impacts : g[i] \in S
    BY <1>6
  <2>4. S \subseteq Int
    BY <1>6, <1>9
  <2> HIDE DEF S
  <2>5. S # {}
    BY <2>3
  <2>6. Max(S) \in S /\ \A x \in S : x =< Max(S)
    BY <2>2, <2>4, <2>5, MaxOf
  <2> QED
    BY <2>3, <2>4, <2>6
<1> HIDE DEF high
<1>12. low * n =< sum /\ sum \in Nat
  <2>1. \A i \in DOMAIN g : g[i] \in Int /\ g[i] \in Nat /\ low =< g[i] /\ g[i] =< high
    BY <1>6, <1>9, <1>10
  <2>2. low \in Int
    BY <1>8
  <2>3. IsFiniteSet(DOMAIN g)
    BY <1>6
  <2>4. low * Cardinality(DOMAIN g) =< sum
    BY <1>10, <2>1, <2>2, <2>3, TotalBounds
  <2>5. sum \in Nat
    BY <2>1, <2>3, TotalType
  <2> QED
    BY <1>6, <2>4, <2>5
<1> HIDE DEF n, sum
<1>13. sum \div n \in Int /\ low =< sum \div n
  <2> DEFINE q == sum \div n
  <2>1. q \in Int /\ sum < n * q + n
    BY <1>3, <1>12
  <2> HIDE DEF q
  <2>2. SUFFICES ASSUME q + 1 =< low PROVE FALSE
    BY <1>8, <2>1 DEF q
  <2>3. n * (q + 1) =< n * low
    BY <1>3, <1>8, <2>1, <2>2
  <2>4. n * (q + 1) = n * q + n /\ n * low = low * n
    BY <1>3, <1>8, <2>1
  <2>5. n * q \in Int /\ low * n \in Int
    BY <1>3, <1>8, <2>1
  <2> QED
    BY <1>3, <1>12, <2>1, <2>3, <2>4, <2>5
<1>14. Min({100, sum \div n}) >= low
  <2> DEFINE q == sum \div n
  <2> HIDE DEF q
  <2>1. q \in Int /\ low =< q
    BY <1>13 DEF q
  <2>2. Min({100, q}) >= low
    BY <1>8, <2>1, MinOfTwo
  <2> QED
    BY <2>2 DEF q
<1> QED
  BY <1>1, <1>2, <1>14, Zenon DEF low

\* A graph that is finite has finitely many wildcards, and keeps those it had.
LEMMA Wildcards ==
    ASSUME GraphInv
    PROVE  /\ IsFiniteSet(WildcardPolicies(edges))
           /\ WildcardPolicies(FirstEdges) \subseteq WildcardPolicies(edges)
<1> DEFINE Of(graph) == {f \in graph : f.type = "HasEffectivePermission" /\ Last(f.to.id) = "*"}
           Pair(e) == <<e.from.id, e.to.id[1]>>
           S == Of(edges)
           f == [e \in S |-> Pair(e)]
<1>1. \A graph : WildcardPolicies(graph) = {Pair(e) : e \in Of(graph)}
  BY Zenon DEF WildcardPolicies
<1>2. IsFiniteSet(S)
  BY FS_Subset DEF GraphInv
<1>3. Of(FirstEdges) \subseteq S
  BY DEF GraphInv
<1> HIDE DEF Pair, Of
<1>4. DOMAIN f = S /\ {Pair(e) : e \in S} = {f[e] : e \in DOMAIN f}
  OBVIOUS
<1> HIDE DEF f
<1>5. IsFiniteSet({Pair(e) : e \in S})
  BY <1>2, <1>4, ImageFinite
<1> QED
  BY <1>1, <1>3, <1>5

\* TakeSnapshot.
LEMMA SnapshotKeeps ==
    ASSUME Inv, CatalogInv, TakeSnapshot
    PROVE  CatalogInv'
<1> DEFINE diff == Diff(snapshot, catalog)
           policies == WildcardPolicies(edges)
           Told(p) == [principal |-> p[1], pattern |-> p[2], actions |-> Covered(diff, p[2]),
                        severity |-> Worst(Covered(diff, p[2]))]
           real == {q \in policies : Covered(diff, q[2]) # {}}
           impacts == Impacts(diff, policies)
           total == TotalNewActions(catalog, diff)
           score == ExpansionScore(impacts, TenthLog)
<1>1. /\ snapshot' = catalog /\ catalog' = catalog
      /\ news' = [impacts |-> impacts, total |-> total, score |-> score]
      /\ warned' = warned \cup UNION {{i.principal} \X i.actions : i \in impacts}
  BY Zenon DEF TakeSnapshot
<1>2. CatalogOK(catalog) /\ CatalogOK(snapshot)
  BY DEF CatalogInv
<1>3. impacts = {Told(p) : p \in real}
  BY Zenon DEF Impacts
<1>4. /\ IsFiniteSet(policies) /\ WildcardPolicies(FirstEdges) \subseteq policies
  BY Wildcards DEF Inv
<1>5. \A p : /\ IsFiniteSet(Covered(diff, p))
             /\ Cardinality(Covered(diff, p)) <= total
             /\ \A s \in DOMAIN snapshot \cap DOMAIN catalog :
                   p \in {"*", s} => catalog[s] \ snapshot[s] \subseteq Covered(diff, p)
  BY <1>2, CoveredOf, Zenon
<1> HIDE DEF diff, policies, total
<1>6. ASSUME NEW i \in impacts
      PROVE  Cardinality(i.actions) \in Nat \ {0} /\ Cardinality(i.actions) <= total
  <2>1. PICK p \in real : i = Told(p)
    BY <1>3, <1>6
  <2>2. i.actions = Covered(diff, p[2]) /\ Covered(diff, p[2]) # {}
    BY <2>1
  <2>3. IsFiniteSet(Covered(diff, p[2])) /\ Cardinality(Covered(diff, p[2])) <= total
    BY <1>5
  <2>4. Cardinality(i.actions) \in Nat /\ Cardinality(i.actions) # 0
    BY <2>2, <2>3, FS_CardinalityType, FS_EmptySet
  <2> QED
    BY <2>2, <2>3, <2>4
<1>7. IsFiniteSet(impacts)
  <2> DEFINE f == [p \in real |-> Told(p)]
  <2>1. IsFiniteSet(real)
    BY <1>4, FS_Subset
  <2> HIDE DEF real, Told
  <2>2. DOMAIN f = real /\ {Told(p) : p \in real} = {f[p] : p \in DOMAIN f}
    OBVIOUS
  <2> HIDE DEF f
  <2> QED
    BY <1>3, <2>1, <2>2, ImageFinite
<1>8. impacts # {} => score >= Min({SeverityScore(i.severity) : i \in impacts})
  BY <1>6, <1>7, ScoreAtLeast, Zenon
<1>9. WarnedOfAll'
  <2> SUFFICES ASSUME NEW policy \in WildcardPolicies(FirstEdges), NEW service \in DOMAIN FirstCatalog,
                      policy[2] \in {"*", service},
                      NEW action \in catalog[service] \ FirstCatalog[service]
               PROVE  <<policy[1], action>> \in warned'
    BY <1>1 DEF WarnedOfAll
  <2>1. CASE action \in snapshot[service]
    <3>1. <<policy[1], action>> \in {policy[1]} \X (snapshot[service] \ FirstCatalog[service])
      BY <2>1
    <3>2. <<policy[1], action>> \in warned
      BY <3>1 DEF CatalogInv, WarnedOfAll
    <3> QED
      BY <1>1, <3>2
  <2>2. CASE action \notin snapshot[service]
    <3>1. service \in DOMAIN snapshot \cap DOMAIN catalog
      BY <1>2 DEF CatalogOK
    <3>2. action \in Covered(diff, policy[2])
      BY <1>5, <2>2, <3>1
    <3>3. policy \in real
      BY <1>4, <3>2
    <3> DEFINE i == Told(policy)
    <3>4. i \in impacts /\ i.principal = policy[1] /\ i.actions = Covered(diff, policy[2])
      BY <1>3, <3>3
    <3> HIDE DEF i
    <3>5. <<policy[1], action>> \in {i.principal} \X i.actions
      BY <3>2, <3>4
    <3>6. {i.principal} \X i.actions \in {{j.principal} \X j.actions : j \in impacts}
      BY <3>4
    <3>7. <<policy[1], action>> \in UNION {{j.principal} \X j.actions : j \in impacts}
      BY <3>5, <3>6, Zenon
    <3> QED
      BY <1>1, <3>7, Zenon
  <2> QED
    BY <2>1, <2>2
<1> HIDE DEF impacts, score
<1>10. NewsTrue(news')
  <2>1. news'.impacts = impacts /\ news'.total = total /\ news'.score = score
    BY <1>1
  <2> QED
    BY <1>6, <1>8, <2>1 DEF NewsTrue
<1> QED
  BY <1>1, <1>2, <1>9, <1>10 DEF CatalogInv

\* Publish.
LEMMA PublishKeeps ==
    ASSUME CatalogInv, NEW service, NEW action, Publish(service, action)
    PROVE  CatalogInv'
<1> DEFINE before == IF service \in DOMAIN catalog THEN catalog[service] ELSE {}
           of == {action} \cup before
<1>1. catalog' = With(catalog, service, of) /\ UNCHANGED <<snapshot, warned, news>>
  BY Zenon DEF Publish
<1>2. IsFiniteSet(of)
  <2>1. IsFiniteSet(before)
    BY FS_EmptySet DEF CatalogInv, CatalogOK
  <2>2. of = before \cup {action}
    OBVIOUS
  <2> HIDE DEF of, before
  <2> QED
    BY <2>1, <2>2, FS_AddElement
<1> HIDE DEF of
<1>3. /\ DOMAIN catalog' = DOMAIN catalog \cup {service}
      /\ \A s \in DOMAIN catalog' : catalog'[s] = of \/ (s \in DOMAIN catalog /\ catalog'[s] = catalog[s])
  BY <1>1 DEF With
<1>4. CatalogOK(catalog')
  <2>1. IsFiniteSet(DOMAIN catalog')
    BY <1>3, FS_AddElement DEF CatalogInv, CatalogOK
  <2>2. \A s \in DOMAIN catalog' : IsFiniteSet(catalog'[s])
    BY <1>2, <1>3 DEF CatalogInv, CatalogOK
  <2> QED
    BY <1>3, <2>1, <2>2 DEF CatalogInv, CatalogOK
<1> QED
  BY <1>1, <1>4 DEF CatalogInv, WarnedOfAll

\* Retire.
LEMMA RetireKeeps ==
    ASSUME CatalogInv, NEW service \in DOMAIN catalog, NEW action, Retire(service, action)
    PROVE  CatalogInv'
<1>1. /\ catalog' = [catalog EXCEPT ![service] = @ \ {action}]
      /\ UNCHANGED <<snapshot, warned, news>>
  BY DEF Retire
<1>2. /\ DOMAIN catalog' = DOMAIN catalog
      /\ \A s \in DOMAIN catalog : catalog'[s] \subseteq catalog[s]
  BY <1>1
<1>3. CatalogOK(catalog')
  BY <1>2, FS_Subset DEF CatalogInv, CatalogOK
<1> QED
  BY <1>1, <1>3 DEF CatalogInv, WarnedOfAll

\* Any other step.
LEMMA CatalogStays ==
    ASSUME CatalogInv, UNCHANGED awsVars
    PROVE  CatalogInv'
BY DEF CatalogInv, WarnedOfAll, awsVars

\* Every step keeps what holds of the catalogue.
LEMMA NextKeepsCatalog ==
    ASSUME Inv, CatalogInv, [Next]_vars
    PROVE  CatalogInv'
<1>1. CASE \E e \in LaterEdges : AddEdge(e)
  BY <1>1, CatalogStays DEF AddEdge
<1>2. CASE \E pair \in LaterActions : Publish(pair[1], pair[2])
  BY <1>2, PublishKeeps
<1>3. CASE \E service \in DOMAIN catalog : \E action \in catalog[service] : Retire(service, action)
  BY <1>3, RetireKeeps
<1>4. CASE TakeSnapshot
  BY <1>4, SnapshotKeeps
<1>5. CASE \E r \in Runs : RunStep(r)
  <2>1. PICK r \in Runs : RunStep(r)
    BY <1>5
  <2>2. UNCHANGED awsVars
    <3> USE DEF Becomes
    <3> QED
      BY <2>1, Zenon DEF RunStep, Start, List, ListFails, ReadPermissions, PermissionsFail, Enter,
         ReadReach, ReadDistance, MissDistance, ReadHops, ScoreFails, Keep, KeepFails, Count, Finish,
         Enumerated, EndRound
  <2> QED
    BY <2>2, CatalogStays
<1>6. CASE UNCHANGED vars
  BY <1>6, CatalogStays DEF vars
<1> QED
  BY <1>1, <1>2, <1>3, <1>4, <1>5, <1>6 DEF Next

\* It holds at first.
LEMMA InitCatalog == Init => CatalogInv
<1> SUFFICES ASSUME Init PROVE CatalogInv
  OBVIOUS
<1>1. /\ catalog = FirstCatalog /\ snapshot = FirstCatalog
      /\ news = [impacts |-> {}, total |-> 0, score |-> 0]
  BY DEF Init
<1>2. CatalogOK(catalog) /\ CatalogOK(snapshot)
  BY <1>1, FirstAssumption DEF CatalogOK
<1>3. WarnedOfAll
  BY <1>1 DEF WarnedOfAll
<1>4. NewsTrue(news)
  BY <1>1 DEF NewsTrue
<1> QED
  BY <1>2, <1>3, <1>4 DEF CatalogInv

\* What holds of the catalogue in every reachable state: it is finite, keeps its services, the
\* warnings so far cover the last snapshot, and the last news is true (service_catalog.rs).
THEOREM CatalogInvariant == Spec => []CatalogInv
<1>1. Init => CatalogInv
  BY InitCatalog
<1>2. Inv /\ CatalogInv /\ [Next]_vars => CatalogInv'
  BY NextKeepsCatalog
<1> QED
  BY <1>1, <1>2, RunsInvariant, PTL DEF Spec

\* However AWS publishes and retires actions between snapshots, holders of a wildcard are warned
\* of every new action of their services, and no comparison is rated too low
\* (service_catalog.rs).
THEOREM NothingEverSlipsBy == Spec => []NothingSlipsBy
<1>1. CatalogInv => NothingSlipsBy
  BY DEF CatalogInv, WarnedOfAll, NewsTrue, NothingSlipsBy
<1> QED
  BY <1>1, CatalogInvariant, PTL

-----------------------------------------------------------------------------
(* What the queries answer *)

\* The vertices one hop on from those already reached.
HopOn(E, id, X) == X \cup {e.to : e \in {f \in E : f.from.id = id \/ f.from \in X}}

\* The equation of Within.
HopByHop(h, E, id, m) == h = [n \in 0..m |-> IF n = 0 THEN {} ELSE HopOn(E, id, h[n - 1])]

\* It has a solution, which is extended hop by hop.
LEMMA HopsExist ==
    ASSUME NEW E, NEW id, NEW m \in Nat
    PROVE  \E h : HopByHop(h, E, id, m)
<1> DEFINE T == {n \in Nat : ~ \E h : HopByHop(h, E, id, n)}
<1>1. T = {}
  <2> SUFFICES ASSUME T # {} PROVE FALSE
    OBVIOUS
  <2>1. PICK n \in T : \A k \in T : n =< k
    <3> T \in SUBSET Nat
      OBVIOUS
    <3> HIDE DEF T
    <3> QED BY Least
  <2>2. n \in Nat /\ ~ \E h : HopByHop(h, E, id, n)
    BY <2>1
  <2>3. CASE n = 0
    <3>1. HopByHop([k \in 0..0 |-> {}], E, id, 0)
      BY DEF HopByHop
    <3> QED
      BY <2>2, <2>3, <3>1
  <2>4. CASE n # 0
    <3>1. n - 1 \in Nat /\ n - 1 \notin T
      <4> HIDE DEF T
      <4> QED
        BY <2>1, <2>2, <2>4
    <3>2. PICK h : HopByHop(h, E, id, n - 1)
      BY <3>1
    <3> DEFINE g == [k \in 0..n |-> IF k = 0 THEN {} ELSE HopOn(E, id, h[k - 1])]
    <3>3. \A k \in 0..n - 1 : g[k] = h[k] /\ k \in 0..n
      <4>1. h = [k \in 0..n - 1 |-> IF k = 0 THEN {} ELSE HopOn(E, id, h[k - 1])]
        BY <3>2 DEF HopByHop
      <4>2. \A k \in 0..n - 1 : h[k] = IF k = 0 THEN {} ELSE HopOn(E, id, h[k - 1])
        BY <4>1
      <4>3. \A k \in 0..n - 1 : k \in 0..n
        BY <2>2
      <4>4. \A k \in 0..n : g[k] = IF k = 0 THEN {} ELSE HopOn(E, id, h[k - 1])
        OBVIOUS
      <4> HIDE DEF g
      <4> QED
        BY <4>2, <4>3, <4>4
    <3>4. \A k \in 0..n : k # 0 => k - 1 \in 0..n - 1
      BY <2>2
    <3>5. \A k \in 0..n : g[k] = IF k = 0 THEN {} ELSE HopOn(E, id, g[k - 1])
      <4> TAKE k \in 0..n
      <4>1. CASE k = 0
        BY <4>1
      <4>2. CASE k # 0
        <5>1. g[k - 1] = h[k - 1]
          BY <3>3, <3>4, <4>2
        <5>2. g[k] = HopOn(E, id, h[k - 1])
          BY <4>2
        <5> QED
          BY <4>2, <5>1, <5>2
      <4> QED
        BY <4>1, <4>2
    <3>6. g = [k \in 0..n |-> g[k]]
      OBVIOUS
    <3> HIDE DEF g
    <3>7. HopByHop(g, E, id, n)
      BY <3>5, <3>6 DEF HopByHop
    <3> QED
      BY <2>2, <3>7
  <2> QED
    BY <2>3, <2>4
<1> QED
  BY <1>1

\* However many hops are asked for, what is reached in as many is the same.
LEMMA HopsAgree ==
    ASSUME NEW E, NEW id, NEW m \in Nat, NEW h, NEW g,
           HopByHop(h, E, id, m), HopByHop(g, E, id, m + 1)
    PROVE  \A n \in 0..m : h[n] = g[n]
<1> DEFINE T == {n \in Nat : n <= m /\ h[n] # g[n]}
<1>1. \A n \in 0..m : h[n] = IF n = 0 THEN {} ELSE HopOn(E, id, h[n - 1])
  BY DEF HopByHop
<1>2. \A n \in 0..m + 1 : g[n] = IF n = 0 THEN {} ELSE HopOn(E, id, g[n - 1])
  BY DEF HopByHop
<1>3. T = {}
  <2> SUFFICES ASSUME T # {} PROVE FALSE
    OBVIOUS
  <2>1. PICK n \in T : \A k \in T : n =< k
    <3> T \in SUBSET Nat
      OBVIOUS
    <3> HIDE DEF T
    <3> QED BY Least
  <2>2. n \in 0..m /\ n \in 0..m + 1 /\ h[n] # g[n] /\ n \in Nat
    BY <2>1
  <2>3. n # 0
    BY <1>1, <1>2, <2>2
  <2>4. n - 1 \in Nat /\ n - 1 <= m /\ ~ (n =< n - 1)
    BY <2>2, <2>3
  <2>5. n - 1 \notin T
    <3> HIDE DEF T
    <3> QED BY <2>1, <2>4
  <2>6. h[n - 1] = g[n - 1]
    BY <2>4, <2>5
  <2> QED
    BY <1>1, <1>2, <2>2, <2>3, <2>6
<1> QED
  BY <1>3

\* Nothing is reached without a hop, and one more reaches one hop on.
LEMMA WithinStep ==
    ASSUME NEW id, NEW m \in Nat
    PROVE  /\ Within(id, {}, 0) = {}
           /\ Within(id, {}, m + 1) = HopOn(edges, id, Within(id, {}, m))
<1> DEFINE Of(n) == CHOOSE h : HopByHop(h, edges, id, n)
<1>1. \A n \in Nat : Within(id, {}, n) = Of(n)[n]
  BY DEF Within, HopByHop, HopOn, OfTypes
<1>2. \A n \in Nat : HopByHop(Of(n), edges, id, n)
  <2>1. ASSUME NEW n \in Nat PROVE \E h : HopByHop(h, edges, id, n)
    BY HopsExist
  <2> QED
    BY <2>1
<1> HIDE DEF Of
<1>3. Of(0)[0] = {}
  <2>1. 0 \in Nat /\ 0 \in 0..0
    OBVIOUS
  <2>2. Of(0) = [n \in 0..0 |-> IF n = 0 THEN {} ELSE HopOn(edges, id, Of(0)[n - 1])]
    BY <1>2, <2>1 DEF HopByHop
  <2> QED
    BY <2>1, <2>2
<1>4. Of(m)[m] = Of(m + 1)[m]
  <2>1. HopByHop(Of(m), edges, id, m) /\ HopByHop(Of(m + 1), edges, id, m + 1) /\ m \in 0..m
    BY <1>2
  <2> QED
    BY <2>1, HopsAgree
<1>5. Of(m + 1)[m + 1] = HopOn(edges, id, Of(m + 1)[m])
  <2>1. m + 1 \in Nat /\ m + 1 \in 0..m + 1 /\ m + 1 # 0 /\ (m + 1) - 1 = m
    OBVIOUS
  <2>2. Of(m + 1) = [n \in 0..m + 1 |-> IF n = 0 THEN {} ELSE HopOn(edges, id, Of(m + 1)[n - 1])]
    BY <1>2, <2>1 DEF HopByHop
  <2> QED
    BY <2>1, <2>2
<1> QED
  BY <1>1, <1>3, <1>4, <1>5

\* The paths that use no edge twice lead to everything there is to reach, in no more hops.
LEMMA TrailsReach ==
    ASSUME NEW id, NEW hops \in Nat
    PROVE  {Target(t) : t \in Trails(edges, id, hops)} = Within(id, {}, hops)
<1> DEFINE All(n) == {t \in Seq(edges) : IsTrail(edges, id, t) /\ Len(t) <= n}
           Reached(n) == {Target(t) : t \in All(n)}
           W(n) == Within(id, {}, n)
           T == {n \in Nat : Reached(n) # W(n)}
<1>1. \A n \in Nat : Trails(edges, id, n) = All(n)
  BY TrailsExact
<1>2. \A t : IsTrail(edges, id, t) => t \in Seq(edges) /\ Len(t) \in Nat /\ Len(t) >= 1
  BY DEF IsTrail
<1>3. \A n : \A t : t \in All(n) <=> IsTrail(edges, id, t) /\ Len(t) <= n
  BY <1>2
<1>4. \A n : \A v : v \in Reached(n) <=> \E t \in All(n) : v = Target(t)
  OBVIOUS
<1> HIDE DEF All, Reached, W
<1>5. Reached(0) = {} /\ W(0) = {}
  <2>1. All(0) = {}
    BY <1>2, <1>3
  <2> QED
    BY <1>4, <2>1, WithinStep DEF W
<1>6. ASSUME NEW n \in Nat, Reached(n) = W(n) PROVE Reached(n + 1) = W(n + 1)
  <2>1. W(n + 1) = HopOn(edges, id, W(n))
    BY WithinStep DEF W
  <2>2. ASSUME NEW v \in Reached(n + 1) PROVE v \in W(n + 1)
    <3>1. PICK t : IsTrail(edges, id, t) /\ Len(t) <= n + 1 /\ v = Target(t)
      BY <1>3, <1>4, <2>2
    <3> DEFINE k == Len(t)
               e == t[k]
    <3>2. k \in Nat /\ k >= 1 /\ t \in Seq(edges)
      BY <1>2, <3>1
    <3>3. e \in edges /\ v = e.to
      BY <3>1, <3>2 DEF Target
    <3>4. CASE k = 1
      <4>1. e.from.id = id
        BY <3>1, <3>4 DEF IsTrail
      <4> QED
        BY <2>1, <3>3, <4>1 DEF HopOn
    <3>5. CASE k # 1
      <4> DEFINE s == Beginning(t, k - 1)
      <4>1. IsTrail(edges, id, s) /\ Len(s) = k - 1 /\ Target(s) = e.from
        BY <3>1, <3>5, TrailEnds
      <4> HIDE DEF s
      <4>2. Len(s) <= n
        BY <3>1, <3>2, <4>1
      <4>3. e.from \in Reached(n)
        BY <1>3, <1>4, <4>1, <4>2
      <4> HIDE DEF e
      <4> QED
        BY <1>6, <2>1, <3>3, <4>3 DEF HopOn
    <3> QED
      BY <3>4, <3>5
  <2>3. ASSUME NEW v \in W(n + 1) PROVE v \in Reached(n + 1)
    <3>1. CASE v \in W(n)
      <4>1. PICK t \in All(n) : v = Target(t)
        BY <1>4, <1>6, <3>1
      <4>2. Len(t) <= n + 1 /\ IsTrail(edges, id, t)
        BY <1>2, <1>3, <4>1
      <4> QED
        BY <1>3, <1>4, <4>1, <4>2
    <3>2. ASSUME NEW e \in edges, e.from.id = id, v = e.to PROVE v \in Reached(n + 1)
      <4>1. IsTrail(edges, id, <<e>>) /\ Len(<<e>>) = 1 /\ Target(<<e>>) = v
        BY <3>2, TrailOfOne
      <4>2. Len(<<e>>) <= n + 1
        BY <4>1
      <4> QED
        BY <1>3, <1>4, <4>1, <4>2
    <3>3. ASSUME NEW e \in edges, e.from \in W(n), v = e.to PROVE v \in Reached(n + 1)
      <4>1. PICK t \in All(n) : e.from = Target(t)
        BY <1>4, <1>6, <3>3
      <4>2. IsTrail(edges, id, t) /\ Len(t) <= n /\ Len(t) \in Nat /\ t \in Seq(edges)
        BY <1>2, <1>3, <4>1
      <4>3. CASE \E j \in 1..Len(t) : t[j] = e
        <5>1. PICK j \in 1..Len(t) : t[j] = e
          BY <4>3
        <5> DEFINE s == Beginning(t, j)
        <5>2. IsTrail(edges, id, s) /\ Len(s) = j /\ Target(s) = v
          BY <3>3, <4>2, <5>1, TrailBegins
        <5> HIDE DEF s
        <5>3. Len(s) <= n + 1
          BY <4>2, <5>2
        <5> QED
          BY <1>3, <1>4, <5>2, <5>3
      <4>4. CASE ~ \E j \in 1..Len(t) : t[j] = e
        <5>1. e \in Follows(edges, t)
          BY <4>1, <4>2, <4>4 DEF Follows, Target
        <5> DEFINE u == Append(t, e)
        <5>2. IsTrail(edges, id, u) /\ Len(u) = Len(t) + 1 /\ Target(u) = v
          BY <3>3, <4>2, <5>1, TrailGrows
        <5> HIDE DEF u
        <5>3. Len(u) <= n + 1
          BY <4>2, <5>2
        <5> QED
          BY <1>3, <1>4, <5>2, <5>3
      <4> QED
        BY <4>3, <4>4
    <3>4. v \in W(n) \/ \E e \in edges : v = e.to /\ (e.from.id = id \/ e.from \in W(n))
      BY <2>1, <2>3 DEF HopOn
    <3> QED
      BY <3>1, <3>2, <3>3, <3>4
  <2> QED
    BY <2>2, <2>3
<1>7. T = {}
  <2> SUFFICES ASSUME T # {} PROVE FALSE
    OBVIOUS
  <2>1. PICK n \in T : \A m \in T : n =< m
    <3> T \in SUBSET Nat
      OBVIOUS
    <3> HIDE DEF T
    <3> QED BY Least
  <2>2. n \in Nat /\ Reached(n) # W(n)
    BY <2>1
  <2>3. n # 0
    BY <1>5, <2>2
  <2>4. n - 1 \in Nat /\ (n - 1) + 1 = n /\ ~ (n =< n - 1)
    BY <2>2, <2>3
  <2>5. n - 1 \notin T
    <3> HIDE DEF T
    <3> QED BY <2>1, <2>4
  <2>6. Reached(n - 1) = W(n - 1)
    BY <2>4, <2>5
  <2>7. Reached((n - 1) + 1) = W((n - 1) + 1)
    BY <1>6, <2>4, <2>6
  <2> QED
    BY <2>2, <2>4, <2>7
<1>8. Reached(hops) = W(hops)
  BY <1>7
<1> QED
  BY <1>1, <1>8 DEF Reached, W

\* LIMIT keeps some of the rows, all of them when there are no more.
LEMMA LimitedRows ==
    ASSUME NEW rows, NEW limit, NEW answer \in Limited(rows, limit)
    PROVE  /\ answer \subseteq rows
           /\ Cardinality(rows) <= limit => answer = rows
           /\ answer = rows \/ Cardinality(answer) = limit
BY DEF Limited, kSubset

\* What the resolvers answer about a finite graph is its reachable part.
LEMMA AnswersReach == GraphInv => AnswersReachable
<1> SUFFICES ASSUME GraphInv,
                    NEW id \in {v.id : v \in Principal}, NEW hops \in 1..3
             PROVE  LET reached == Within(id, {}, hops)
                        rows    == BlastRows(edges, id, {}, hops)
                    IN  /\ BlastCount(edges, id, {}, hops) >= Min({RowLimit, Cardinality(reached)})
                        /\ \A answer \in Subgraph(edges, id, hops) \cup BlastWithin(edges, id, hops) :
                              /\ answer \subseteq reached
                              /\ Cardinality(rows) <= RowLimit => answer = reached
                        /\ \A v \in Principal :
                              LET lengths == PathLengths(edges, id, v.id, hops)
                              IN  lengths # {} =>
                                    Min(lengths) = Min({n \in 1..hops : \E w \in Within(id, {}, n) : w.id = v.id})
                        /\ hops = 1 =>
                              \A limit \in 0..MaxWalkResults :
                                  \A answer \in WalkEdges(edges, id, {}, "outgoing", limit) :
                                      /\ {row.at : row \in answer} \subseteq reached
                                      /\ Cardinality(answer) < limit => {row.at : row \in answer} = reached
  BY DEF AnswersReachable
<1> DEFINE reached == Within(id, {}, hops)
           rows == BlastRows(edges, id, {}, hops)
<1>1. OfTypes(edges, {}) = edges /\ hops \in Nat
  BY DEF OfTypes
<1>2. rows = Trails(edges, id, hops)
  BY <1>1 DEF BlastRows
<1>3. reached = {Target(t) : t \in rows}
  BY <1>1, <1>2, TrailsReach
<1>4. IsFiniteSet(rows)
  BY <1>1, <1>2, TrailsFinite DEF GraphInv
<1> HIDE DEF reached, rows
<1>5. BlastCount(edges, id, {}, hops) >= Min({RowLimit, Cardinality(reached)})
  <2> DEFINE g == [t \in rows |-> Target(t)]
  <2>1. DOMAIN g = rows /\ reached = {g[t] : t \in DOMAIN g}
    BY <1>3
  <2> HIDE DEF g
  <2>2. IsFiniteSet(reached) /\ Cardinality(reached) =< Cardinality(rows)
    BY <1>4, <2>1, ImageFinite
  <2>3. Cardinality(reached) \in Nat /\ Cardinality(rows) \in Nat /\ RowLimit \in Nat
    BY <1>4, <2>2, FS_CardinalityType, LimitsAssumption
  <2>4. BlastCount(edges, id, {}, hops) = Min({RowLimit, Cardinality(rows)})
    BY DEF BlastCount, rows
  <2>5. /\ Min({RowLimit, Cardinality(rows)})
              = IF RowLimit =< Cardinality(rows) THEN RowLimit ELSE Cardinality(rows)
        /\ Min({RowLimit, Cardinality(reached)})
              = IF RowLimit =< Cardinality(reached) THEN RowLimit ELSE Cardinality(reached)
    BY <2>3, MinOfTwo
  <2> QED
    BY <2>2, <2>3, <2>4, <2>5
<1>6. ASSUME NEW answer \in Subgraph(edges, id, hops) \cup BlastWithin(edges, id, hops)
      PROVE  answer \subseteq reached /\ (Cardinality(rows) <= RowLimit => answer = reached)
  <2>1. answer \in BlastRadius(edges, id, {}, hops)
    BY <1>6 DEF Subgraph, BlastWithin
  <2>2. ~ (Cardinality({}) > 1)
    BY FS_EmptySet
  <2>3. answer \in {{Target(row) : row \in some} : some \in Limited(rows, RowLimit)}
    BY <2>1, <2>2 DEF BlastRadius, rows
  <2>4. PICK found \in Limited(rows, RowLimit) : answer = {Target(row) : row \in found}
    BY <2>3
  <2>5. found \subseteq rows /\ (Cardinality(rows) <= RowLimit => found = rows)
    BY <2>4, LimitedRows
  <2> QED
    BY <1>3, <2>4, <2>5
<1>7. ASSUME NEW v \in Principal, PathLengths(edges, id, v.id, hops) # {}
      PROVE  Min(PathLengths(edges, id, v.id, hops))
                = Min({n \in 1..hops : \E w \in Within(id, {}, n) : w.id = v.id})
  <2> DEFINE A == PathLengths(edges, id, v.id, hops)
             B == {n \in 1..hops : \E w \in Within(id, {}, n) : w.id = v.id}
  <2>1. \A t : t \in rows <=> IsTrail(edges, id, t) /\ Len(t) <= hops
    BY <1>1, <1>2, TrailsExact DEF IsTrail
  <2>2. \A t : IsTrail(edges, id, t) => Len(t) \in Nat /\ Len(t) >= 1
    BY DEF IsTrail
  <2>3. \A n \in A : n \in 1..hops /\ \E t : IsTrail(edges, id, t) /\ Len(t) = n /\ Target(t).id = v.id
    BY <1>2, <2>1 DEF PathLengths
  <2>4. ASSUME NEW n \in 1..hops, NEW w \in Within(id, {}, n), w.id = v.id
        PROVE  \E m \in A : m <= n
    <3>1. n \in Nat
      BY <1>1
    <3>2. PICK t \in Trails(edges, id, n) : w = Target(t)
      BY <2>4, <3>1, TrailsReach
    <3>3. IsTrail(edges, id, t) /\ Len(t) <= n
      BY <3>1, <3>2, TrailsExact
    <3>4. Len(t) \in 1..hops /\ Len(t) <= hops
      BY <1>1, <2>2, <3>3
    <3>5. Len(t) \in A
      BY <1>2, <2>1, <2>4, <3>2, <3>3, <3>4 DEF PathLengths
    <3> QED
      BY <3>3, <3>5
  <2>5. A \subseteq B
    <3> SUFFICES ASSUME NEW n \in A PROVE n \in B
      OBVIOUS
    <3>1. PICK t : IsTrail(edges, id, t) /\ Len(t) = n /\ Target(t).id = v.id
      BY <2>3
    <3>2. n \in 1..hops /\ n \in Nat
      BY <1>1, <2>3
    <3>3. t \in Trails(edges, id, n)
      BY <2>2, <3>1, <3>2, TrailsExact DEF IsTrail
    <3>4. Target(t) \in Within(id, {}, n)
      BY <3>2, <3>3, TrailsReach
    <3> QED
      BY <3>1, <3>2, <3>4
  <2>6. A \subseteq 1..hops /\ A # {}
    BY <1>7, <2>3
  <2>7. \A n \in B : \E m \in A : m <= n
    BY <2>4
  <2>8. B \subseteq 1..hops
    OBVIOUS
  <2> HIDE DEF A, B
  <2>9. IsFiniteSet(1..hops)
    BY FS_Interval
  <2>10. A \in SUBSET Int /\ B \in SUBSET Int /\ IsFiniteSet(A) /\ IsFiniteSet(B) /\ B # {}
    <3>1. IsFiniteSet(A) /\ IsFiniteSet(B)
      BY <2>6, <2>8, <2>9, FS_Subset
    <3>2. 1..hops \subseteq Int
      OBVIOUS
    <3> QED
      BY <2>5, <2>6, <2>8, <3>1, <3>2
  <2>11. Min(A) \in A /\ (\A x \in A : Min(A) =< x) /\ Min(B) \in B /\ (\A x \in B : Min(B) =< x)
    BY <2>6, <2>10, MinOf
  <2>12. PICK m \in A : m <= Min(B)
    BY <2>7, <2>11
  <2>13. Min(A) \in Int /\ Min(B) \in Int /\ m \in Int
    BY <2>10, <2>11, <2>12
  <2>14. Min(A) <= m /\ Min(B) <= Min(A)
    BY <2>5, <2>11, <2>12
  <2>15. Min(A) = Min(B)
    BY <2>12, <2>13, <2>14
  <2> QED
    BY <2>15 DEF A, B
<1>8. ASSUME hops = 1, NEW limit \in 0..MaxWalkResults,
             NEW answer \in WalkEdges(edges, id, {}, "outgoing", limit)
      PROVE  /\ {row.at : row \in answer} \subseteq reached
             /\ Cardinality(answer) < limit => {row.at : row \in answer} = reached
  <2> DEFINE out == {[edge |-> e, at |-> e.to] : e \in {f \in edges : f.from.id = id}}
  <2>1. answer \in Limited(out, limit)
    BY <1>1, <1>8 DEF WalkEdges, Walks
  <2>2. reached = {e.to : e \in {f \in edges : f.from.id = id}}
    <3>1. reached = Within(id, {}, 0 + 1) /\ Within(id, {}, 0) = {}
      BY <1>8, WithinStep DEF reached
    <3>2. Within(id, {}, 0 + 1) = HopOn(edges, id, {})
      BY <3>1, WithinStep
    <3> QED
      BY <3>1, <3>2 DEF HopOn
  <2>3. {row.at : row \in out} = reached
    <3>1. ASSUME NEW row \in out PROVE row.at \in reached
      BY <2>2
    <3>2. ASSUME NEW e \in edges, e.from.id = id PROVE \E row \in out : row.at = e.to
      <4>1. [edge |-> e, at |-> e.to] \in out /\ [edge |-> e, at |-> e.to].at = e.to
        BY <3>2
      <4> QED
        BY <4>1
    <3>3. \A v \in reached : \E row \in out : row.at = v
      BY <2>2, <3>2
    <3> HIDE DEF out
    <3> QED
      BY <3>1, <3>3
  <2> HIDE DEF out
  <2>4. answer \subseteq out /\ (answer = out \/ Cardinality(answer) = limit)
    BY <2>1, LimitedRows
  <2>5. limit \in Int
    OBVIOUS
  <2> QED
    BY <2>3, <2>4, <2>5
<1> QED
  BY <1>5, <1>6, <1>7, <1>8 DEF reached, rows

\* What the graph queries answer after an edge was added is the reachable part of the graph, for
\* any graph and limits (client.rs, query_builder.rs).
THEOREM QueriesAlwaysAgree == Spec => QueriesAgree
<1>1. Inv => AnswersReachable
  BY AnswersReach DEF Inv
<1> QED
  BY <1>1, RunsInvariant, PTL DEF QueriesAgree
=============================================================================
