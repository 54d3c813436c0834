---------------------------- MODULE PolicyParser ----------------------------
(***************************************************************************)
(* Policy documents and what the parsers of activable-iam-engine make of   *)
(* them: policy_parser.rs and resource_policy_parser.rs.  A document is    *)
(* parsed whole or not at all.  Statements, patterns and values are kept   *)
(* as sets: no evaluation depends on their order.                          *)
(***************************************************************************)
EXTENDS Wildcard, Functions, FiniteSets

\* A value of a JSON document is absent, one string, an array of strings, or "other", which an
\* array with an item that is no string is as well.

\* parse_action_field and parse_resource_field.
Items(value) == IF value.is \in {"string", "array"} THEN Range(value.items) ELSE {}

\* Exactly one of the two fields has patterns.  An empty array counts as no field.
PairOk(field, notField) ==
    /\ field.is # "other" /\ notField.is # "other"
    /\ Items(field) = {} <=> Items(notField) # {}

\* A condition of a block is an operator, a key and a value; one under an operator that is no
\* object has the operator "other".
ConditionOk(condition) ==
    condition.operator # "other" /\ condition.values.is \in {"string", "array"}

StatementOk(raw) ==
    /\ raw.effect \in {"Allow", "Deny"}
    /\ PairOk(raw.action, raw.notAction)
    /\ PairOk(raw.resource, raw.notResource)
    /\ raw.condition # "other"
    /\ raw.condition = "block" => \A c \in raw.conditions : ConditionOk(c)

ParseConditions(raw) ==
    IF raw.condition = "block"
    THEN {[operator |-> c.operator, key |-> c.key, values |-> Items(c.values)] : c \in raw.conditions}
    ELSE {}

ParseStatement(raw) ==
    [effect |-> raw.effect,
     actions |-> Items(raw.action), notActions |-> Items(raw.notAction),
     resources |-> Items(raw.resource), notResources |-> Items(raw.notResource),
     conditions |-> ParseConditions(raw)]

\* The statements of a document with a version and an array of statements, none of them
\* rejected.  The result is the set of the one policy, or empty on an error.
ParsePolicy(document) ==
    IF document.form = "policy" /\ \A raw \in document.statements : StatementOk(raw)
    THEN {{ParseStatement(raw) : raw \in document.statements}}
    ELSE {}

-----------------------------------------------------------------------------
(* Principals of resource policies *)

\* A principal is spelt as a wildcard, an ARN of an account's root or of something else, a
\* service, or in another way.  The text alone decides unless a key of an object does.
PrincipalKind(text) ==
    CASE text.spelt = "*" -> "Wildcard"
      [] text.spelt = "rootArn" -> "AccountRoot"
      [] text.spelt = "arn" -> "Arn"
      [] text.spelt = "service" -> "Service"
      [] OTHER -> "Federated"

PrincipalOf(text) == [kind |-> PrincipalKind(text), account |-> text.account]

KeyPrincipal(key, text) ==
    IF key = "AWS" THEN PrincipalOf(text) ELSE [PrincipalOf(text) EXCEPT !.kind = key]

\* extract_principal_value: a string, an array, or an object with some of three keys.  Items of
\* an array that are no strings are passed over, so that no array is "other" here.
PrincipalsOf(value) ==
    IF value.is = "object"
    THEN UNION {{KeyPrincipal(key, text) : text \in Items(value.keys[key])} : key \in DOMAIN value.keys}
    ELSE {PrincipalOf(text) : text \in Items(value)}

\* parse_resource_policy: a Principal that is a number or the like fails the whole document.
ParseResourcePolicy(document) ==
    IF \E raw \in document.statements : raw.principal.is = "other"
    THEN {}
    ELSE {[statements |-> policy,
           principals |-> UNION {PrincipalsOf(raw.principal) : raw \in document.statements}] :
             policy \in ParsePolicy(document)}
=============================================================================
