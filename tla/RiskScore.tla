----------------------------- MODULE RiskScore -----------------------------
(***************************************************************************)
(* The score of a principal in activable-risk: the five signals            *)
(* (signals/*.rs), their weights (config.rs), the sum (scorer.rs), its     *)
(* severity (finding.rs) and the mean over an account's categories         *)
(* (cascade.rs).                                                           *)
(*                                                                         *)
(* Signals are integers from 0 to 1000, weights and boosts hundredths and  *)
(* scores from 0 to 100000.  Logarithms are interpolated between powers of *)
(* ten, and go on evenly from the ninth, which keeps their order.          *)
(***************************************************************************)
EXTENDS RiskRules, Integers

CONSTANTS
    Registry,       \* config/dangerous-actions.yaml, as in PolicyFindings
    CatalogSize     \* AWS_CATALOG_SIZE

ASSUME SignalsAssumption == IsFiniteSet(Registry) /\ CatalogSize \in Nat \ {0}

Signals == {"blast_radius", "path_to_admin", "dangerous_action_count", "cross_account_hops",
            "permission_surface"}

-----------------------------------------------------------------------------
(* Normalisation *)

\* In thousandths, for n from 1 on.
Log10(n) ==
    LET digits == Max({d \in 0..8 : 10^d <= n})
    IN  1000 * digits + (1000 * (n - 10^digits)) \div (9 * 10^digits)

\* log_normalize has no upper bound: a raw value above its maximum gives more than one.
LogNormalize(raw, max) == IF raw <= 0 THEN 0 ELSE (1000 * Log10(raw + 1)) \div Log10(max + 1)

LinearCap(raw, cap) == Min({1000, (1000 * raw) \div cap})

InverseNormalize(raw, max) == IF raw <= 0 THEN 1000 ELSE Max({0, 1000 - (1000 * raw) \div max})

-----------------------------------------------------------------------------
(* Signals *)

\* Counted rows of the query, at most RowLimit of them, against a maximum of 10000.
BlastSignal(count) == LogNormalize(count, 10000)

\* No distance is no risk.  distance: a set of one number, or none.
PathSignal(distance) ==
    IF distance = {} THEN 0 ELSE InverseNormalize(CHOOSE d \in distance : TRUE, 8)

HopsSignal(count) == LinearCap(count, 5)

HoldsPrefix(permissions, action) == \E p \in permissions : PrefixMatches(p.action, action)

\* detect_dangerous_actions, as in PolicyFindings.
Dangers(permissions) ==
    IF \E p \in permissions : p.action = AnyWord
    THEN Registry
    ELSE {d \in Registry :
            IF d.combo
            THEN \A action \in d.actions : HoldsPrefix(permissions, action)
            ELSE \E action \in d.actions : HoldsPrefix(permissions, action)}

\* In halves.
TierWeight(tier) == CASE tier = 1 -> 6 [] tier = 2 -> 4 [] tier = 3 -> 2 [] OTHER -> 1

DangerSignal(permissions) ==
    LinearCap(MapThenSumSet(LAMBDA d : TierWeight(d.tier), Dangers(permissions)), 20)

\* Each row counts one, and the whole catalogue if its action is `*`.
SurfaceSignal(permissions) ==
    LogNormalize(MapThenSumSet(LAMBDA p : IF p.action = AnyWord THEN CatalogSize ELSE 1,
                               permissions),
                 CatalogSize)

SignalValues(read, permissions) ==
    [blast_radius           |-> BlastSignal(read.reach),
     path_to_admin          |-> PathSignal(read.distance),
     dangerous_action_count |-> DangerSignal(permissions),
     cross_account_hops     |-> HopsSignal(read.hops),
     permission_surface     |-> SurfaceSignal(permissions)]

-----------------------------------------------------------------------------
(* Score *)

\* A configuration's old key `dangerous_actions` replaces the new one.
Migrated(weights) ==
    [name \in (DOMAIN weights \ {"dangerous_actions"})
                \cup (IF "dangerous_actions" \in DOMAIN weights
                      THEN {"dangerous_action_count"} ELSE {}) |->
        IF name = "dangerous_action_count" /\ "dangerous_actions" \in DOMAIN weights
        THEN weights["dangerous_actions"] ELSE weights[name]]

\* A signal without a weight does not count.
Weight(weights, name) == IF name \in DOMAIN weights THEN weights[name] ELSE 0

DefaultWeights ==
    [blast_radius |-> 18, path_to_admin |-> 22, dangerous_action_count |-> 18,
     cross_account_hops |-> 7, permission_surface |-> 5]

SignalTotal(weights, values) ==
    MapThenSumSet(LAMBDA name : Weight(weights, name) * values[name], Signals)

ScoreOf(weights, values, matched) ==
    Min({100000, SignalTotal(weights, values) + 1000 * RuleBoost(matched)})

SeverityOf(score) ==
    CASE score >= 80000 -> "Critical"
      [] score >= 60000 -> "High"
      [] score >= 40000 -> "Medium"
      [] score >= 20000 -> "Low"
      [] OTHER -> "Info"

\* score_single_principal, from what was read: read has reach, distance and hops.
Assessment(id, permissions, read, rules, weights) ==
    LET matched == MatchAll(rules, permissions)
        values  == SignalValues(read, permissions)
        score   == ScoreOf(weights, values, matched)
    IN  [id |-> id, permissions |-> permissions, read |-> read,
         rules |-> {r.id : r \in matched}, score |-> score, severity |-> SeverityOf(score)]

\* Reciprocals are counted in parts of it.
Whole == 500000000

\* harmonic_mean: scores of zero are left out.  scores: a function to 0..1000.
HarmonicMean(scores) ==
    LET counted == {c \in DOMAIN scores : scores[c] > 0}
    IN  IF counted = {}
        THEN 0
        ELSE (Cardinality(counted) * Whole) \div MapThenSumSet(LAMBDA c : Whole \div scores[c], counted)

=============================================================================
