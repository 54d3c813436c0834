----------------------------- MODULE RiskRules -----------------------------
(***************************************************************************)
(* The escalation rules of activable-risk: their files (rule_loader.rs,    *)
(* types.rs), their match with the permissions of a principal              *)
(* (rule_engine.rs) and the fuzzer over them (fuzzing.rs).                 *)
(*                                                                         *)
(* A requirement is a record with its kind ("single", "all_of", "any_of"), *)
(* its action and its parts.  A permission is a record with an action,     *)
(* which is a word of Wildcard; rules do not look at its resource.         *)
(***************************************************************************)
EXTENDS Wildcard, FiniteSets, FiniteSetsExt

-----------------------------------------------------------------------------
(* Files *)

Tier(category) ==
    CASE category \in {"cascade", "self-escalation"}         -> 1
      [] category \in {"new-passrole", "passrole"}            -> 2
      [] category \in {"credential-access", "new-principal"}  -> 3
      [] category = "data-access"                             -> 4
      [] OTHER                                                -> 5

\* In hundredths.
Boost(tier) == CASE tier = 1 -> 15 [] tier = 2 -> 10 [] tier = 3 -> 5 [] tier = 4 -> 3 [] OTHER -> 2

\* check_depth: the root has depth 0 and a part of depth 3 is refused.
FitsDepth(requirement) == \A part \in requirement.parts : \A sub \in part.parts : sub.parts = {}

NoRequirement == [kind |-> "none", action |-> << >>, parts |-> {}]

\* parse_permissions: the earlier form `required` stands for all of its list.
Permitted(file) ==
    CASE file.form \in {"absent", "empty"} -> NoRequirement
      [] file.form = "required" -> [kind |-> "all_of", action |-> << >>, parts |-> file.tree.parts]
      [] file.form = "tree"     -> file.tree

\* parse_rule refuses a rule that is not a cascade and requires nothing.
Parses(file) ==
    /\ file.form # "malformed"
    /\ FitsDepth(Permitted(file))
    /\ Permitted(file) = NoRequirement => file.category = "cascade"

Parsed(file) ==
    [id |-> file.id, category |-> file.category, tier |-> Tier(file.category),
     boost |-> Boost(Tier(file.category)),
     permissions |-> Permitted(file), trigger |-> file.trigger]

\* The bundled files are all read or none is.
EmbeddedLoads(files) == \A file \in files : Parses(file)

LoadEmbedded(files) == {Parsed(file) : file \in files}

\* A directory's files that cannot be parsed are left out; no rule is an error.
LoadDirectory(files) == {Parsed(file) : file \in {f \in files : Parses(f)}}

-----------------------------------------------------------------------------
(* Matching *)

Holds(permissions, action) ==
    \E p \in permissions : p.action = AnyWord \/ ActionMatches(p.action, action)

Combines(requirement, permissions, Part(_, _)) ==
    CASE requirement.kind = "single" -> Holds(permissions, requirement.action)
      [] requirement.kind = "all_of" -> \A part \in requirement.parts : Part(part, permissions)
      [] requirement.kind = "any_of" -> \E part \in requirement.parts : Part(part, permissions)
      [] OTHER -> FALSE

\* evaluate_requirement, level by level as FitsDepth allows.
MeetsLeaf(requirement, permissions) == Combines(requirement, permissions, LAMBDA r, p : FALSE)

MeetsInner(requirement, permissions) == Combines(requirement, permissions, MeetsLeaf)

Meets(requirement, permissions) == Combines(requirement, permissions, MeetsInner)

\* match_rule: nothing if the rule has a trigger.
MatchRule(rule, permissions) == rule.trigger = {} /\ Meets(rule.permissions, permissions)

\* Mutant: a cascade fires on its count, not above.
MatchAllAtCount(rules, permissions) ==
    LET primary == {rule \in rules : MatchRule(rule, permissions)}
        qualifying(t) == {rule \in primary : rule.tier <= t.min_tier}
    IN  primary \cup {rule \in rules : \E t \in rule.trigger :
                        Cardinality(qualifying(t)) = t.match_count}

\* match_all_rules: cascades count primary matches only, whatever their scope says.
MatchAll(rules, permissions) ==
    LET primary == {rule \in rules : MatchRule(rule, permissions)}
        qualifying(t) == {rule \in primary : rule.tier <= t.min_tier}
    IN  primary \cup {rule \in rules : \E t \in rule.trigger :
                        Cardinality(qualifying(t)) >= t.match_count}

RuleBoost(matched) == Min({30, MapThenSumSet(LAMBDA rule : rule.boost, matched)})

-----------------------------------------------------------------------------
(* Fuzzing *)

\* run_fuzzer: the pairs of a family, and the triples if asked for, that match some rule.
Combos(family, size) ==
    kSubset(2, family) \cup (IF size >= 3 THEN kSubset(3, family) ELSE {})

Discoveries(rules, families, size, known) ==
    LET matched(combo) ==
            {r.id : r \in MatchAll(rules, {[action |-> a] : a \in combo})}
    IN  {[actions |-> combo, rules |-> matched(combo), novel |-> matched(combo) \cap known = {}] :
            combo \in {c \in UNION {Combos(family, size) : family \in families} : matched(c) # {}}}

=============================================================================
