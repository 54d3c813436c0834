---------------------------- MODULE AccessRisks ----------------------------
(***************************************************************************)
(* What activable-graphql reports of the access that AccessGraph writes:   *)
(* the resolvers resource_policy_risks.rs, key_management_risks.rs and     *)
(* federation_risks.rs.  Each asks one query and looks at rows of it.      *)
(***************************************************************************)
EXTENDS AccessGraph

-----------------------------------------------------------------------------
(* Queries *)

\* The vertices that edges of a label lead to, and come from.
Out(v, label) == {e.to : e \in {x \in edges : x.label = label /\ x.from = v}}

In(v, label) == {e.from : e \in {x \in edges : x.label = label /\ x.to = v}}

Labelled(vs, label) == {v \in vs : v.label = label}

\* The rows (resource, document) of a query, with NoPolicy where OPTIONAL MATCH finds none.
Rows(label, id, policyEdge) ==
    UNION {LET documents == {pair[2] : pair \in UNION {p.attrs : p \in Labelled(Out(v, policyEdge), "Policy")}}
           IN  {[of |-> v, document |-> d] : d \in IF documents = {} THEN {NoPolicy} ELSE documents} :
           v \in {w \in Labelled(vertices, label) : w.id = id}}

-----------------------------------------------------------------------------
(* resource_policy_risks.rs *)

\* parse_resource_statement: a string or the one AWS principal; all else is taken for a star.
ShownPrincipal(statement) ==
    IF statement.written \in {"string", "AWS"} THEN statement.principals[1] ELSE Anyone

\* evaluate_trust_boundary
IsTrustBoundary(statement) ==
    /\ statement.conditions = {}
    /\ ShownPrincipal(statement) # Anyone
    /\ TypeOf[ShownPrincipal(statement)] = "Role" /\ AccountOf[ShownPrincipal(statement)] # ""

\* Mutant: statements with conditions are left out.
UnconditionedStatements(document) ==
    IF document = NoPolicy THEN {} ELSE {s \in ToSet(StatementsOf[document]) : s.conditions = {}}

ShownStatements(document) == IF document = NoPolicy THEN {} ELSE ToSet(StatementsOf[document])

\* extract_cross_account_access: the accounts that statements name, the resource's own as well,
\* and those of the principals that the graph lets in.
CrossAccounts(row) ==
    ({AccountOf[ShownPrincipal(s)] : s \in {t \in ShownStatements(row.document) : t.effect = "Allow"}}
     \cup {AccountOf[p.id] : p \in Labelled(Out(row.of, "AllowsAccessFrom"), "Principal")})
    \ {""}

\* compute_resource_policy_score and score_to_severity.
PolicySeverity(row) ==
    LET statements == ShownStatements(row.document)
    IN  IF \E s \in statements : ShownPrincipal(s) = Anyone THEN "CRITICAL"
        ELSE IF \E s \in statements : s.effect = "Allow" /\ ~IsTrustBoundary(s)
             THEN IF CrossAccounts(row) # {} THEN "HIGH" ELSE "MEDIUM"
        ELSE "LOW"

PolicyEdgeOf(label) == IF label = "Bucket" THEN "HasBucketPolicy" ELSE "HasKeyPolicy"

\* The severities that may be answered: the first row is taken, and rows come in any order.
\* No row, no answer; a document that is no JSON is an error.
ResourcePolicyRisks(label, id) ==
    {IF row.document \in Malformed THEN "error" ELSE PolicySeverity(row) :
        row \in Rows(label, id, PolicyEdgeOf(label))}

-----------------------------------------------------------------------------
(* key_management_risks.rs *)

\* Only granters that are labelled Principal are collected.
Granters(key) == {p.id : p \in Labelled(In(key, "KmsGrantable"), "Principal")}

KeySeverity(granters) ==
    IF granters = {} THEN "LOW"
    ELSE IF Anyone \in granters \/ \E p \in granters : AccountOf[p] \notin {"", Account} THEN "HIGH"
    ELSE "MEDIUM"

KeyManagementRisks(id) ==
    {IF row.document \in Malformed THEN "error" ELSE KeySeverity(Granters(row.of)) :
        row \in Rows("KmsKey", id, "HasKeyPolicy")}

-----------------------------------------------------------------------------
(* federation_risks.rs *)

\* Mutant: the subject is not looked at.
WeakAudience(provider) == <<"aud", "">> \in provider.attrs

\* evaluate_oidc_weakness; conditions with a star inside are not in the model's values.
Weak(provider) == <<"aud", "">> \in provider.attrs \/ <<"sub", "">> \in provider.attrs

Providers == UNION {Labelled(Out(a, "HasOidcProvider"), "OidcProvider") :
                        a \in {v \in Labelled(vertices, "Account") : v.id = Account}}

FederationRisks ==
    [severity |-> IF \E p \in Providers : Weak(p) THEN "CRITICAL" ELSE "INFO",
     boundary |-> Providers # {} /\ \A p \in Providers : ~Weak(p)]

-----------------------------------------------------------------------------
(* Properties *)

Linked(label, from, to) == \E e \in edges : e.label = label /\ e.from.id = from /\ e.to.id = to

\* When an enricher has ended well, all that it read is shown: each statement of a policy it
\* parsed leads to every principal of its own, or else to everyone; of a key with CreateGrant
\* also the other way (kms.rs, secretsmanager.rs, lambda.rs).
GrantsShown ==
    pc = "ok" /\ Service \in {"kms", "secretsmanager", "lambda"} =>
        \A g \in Grants(read) : \A p \in ToSet(g.statement.principals) :
            \E q \in {p, Anyone} :
                /\ Linked("AllowsAccessFrom", g.item, q)
                /\ Service = "kms" /\ AllowsCreateGrant(g.statement) => Linked("KmsGrantable", q, g.item)

\* Whoever is shown to grant use of a key is shown to have access to it, also when the enricher
\* failed half-way (kms.rs:267).
GrantableHasAccess ==
    \A e \in edges : e.label = "KmsGrantable" =>
        [label |-> "AllowsAccessFrom", from |-> e.to, to |-> e.from] \in edges

\* A missing EncryptedBy edge never means a key of AWS: a secret that was read and has one leads
\* to the sentinel, and one whose own key is in the graph leads to that key (sentinel.rs:25).
SecretsEncrypted ==
    pc = "ok" /\ Service = "secretsmanager" =>
        \A s \in Found(read) :
            /\ KeyOf[s].form \in {"none", "aws alias"} => Linked("EncryptedBy", s, "AwsManagedKey")
            /\ /\ KeyOf[s].form \in {"arn", "key id"}
               /\ \E v \in vertices : v.label = "KmsKey" /\ v.id = KeyOf[s].id
               => Linked("EncryptedBy", s, KeyOf[s].id)

\* A bucket or key whose policy, read in this run, lets everyone in is CRITICAL in every answer,
\* unless the graph still has an earlier policy of it.
PublicNotMissed ==
    pc = "ok" /\ Service \in {"s3", "kms"} =>
        LET label == IF Service = "s3" THEN "Bucket" ELSE "KmsKey" IN
        \A g \in Grants(read) :
            LET rows == Rows(label, g.item, PolicyEdgeOf(label))
            IN  Anyone \in ToSet(g.statement.principals) /\ (\A a, b \in rows : a = b)
                    => ResourcePolicyRisks(label, g.item) = {"CRITICAL"}

\* A role that was read and trusts a provider without audience or subject makes the account
\* CRITICAL and no trust boundary, provided that the account is in the graph.
WeakProviderReported ==
    /\ pc = "ok" /\ Service = "iam"
    /\ \E v \in vertices : v.label = "Account" /\ v.id = Account
    /\ \E t \in Trusts(read) :
          /\ t.statement.provider # ""
          /\ "" \in {ConditionValue(t.statement.aud), ConditionValue(t.statement.sub)}
    => FederationRisks = [severity |-> "CRITICAL", boundary |-> FALSE]

\* What key_management_risks.rs:207 says: if anyone may grant use of a key, its severity is HIGH.
WildcardGrantReported ==
    pc = "ok" /\ Service = "kms" =>
        \A g \in Grants(read) :
            Anyone \in ToSet(g.statement.principals) /\ AllowsCreateGrant(g.statement)
                => KeyManagementRisks(g.item) = {"HIGH"}
=============================================================================
