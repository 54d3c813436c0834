----------------------------- MODULE MCRiskRuns -----------------------------
(***************************************************************************)
(* Alice has two vertices in account 1 and Carol one; a role of account 2  *)
(* may do everything.  Words are a service and a verb: "a" is iam with "r" *)
(* (rewrite a policy) and "p" (pass a role), "c" is cloudformation, "k"    *)
(* kms, "s" s3.  Ids are words too.                                        *)
(***************************************************************************)
EXTENDS RiskRuns

Rewrite == <<"a", "r">>
Pass    == <<"a", "p">>
Stack   == <<"c", "s">>
Update  == <<"c", "u">>
Grant   == <<"k", "g">>
IamStar == <<"a", "*">>
S3Star  == <<"s", "*">>

Vertex(label, id, number, account) ==
    [label |-> label, id |-> id, number |-> number, account |-> account]

Alice1 == Vertex("Principal", <<"alice">>, 1, "1")
Alice2 == Vertex("Principal", <<"alice">>, 2, "1")
Carol  == Vertex("Principal", <<"carol">>, 1, "1")
Role   == Vertex("Principal", <<"role">>, 1, "2")
May(action) == Vertex("Permission", action, 1, "none")

MCVertices == {Alice1, Alice2, Carol, Role}
                \cup {May(a) : a \in {Rewrite, Pass, Stack, Grant, IamStar, S3Star, AnyWord}}

Edge(from, type, to) == [from |-> from, type |-> type, to |-> to]

Has(from, action) == Edge(from, "HasEffectivePermission", May(action))

MCFirstEdges ==
    {Has(Alice1, Pass), Has(Alice1, Stack), Has(Alice2, S3Star), Has(Role, AnyWord)}

MCLaterEdges ==
    {Has(Alice2, IamStar), Has(Carol, Pass),
     Edge(Carol, "CanAssume", Alice1), Edge(Alice1, "CanAssume", Role)}

Single(action) == [kind |-> "single", action |-> action, parts |-> {}]

AllOf(parts) == [kind |-> "all_of", action |-> << >>, parts |-> parts]

AnyOf(parts) == [kind |-> "any_of", action |-> << >>, parts |-> parts]

File(id, category, form, tree) ==
    [id |-> id, category |-> category, form |-> form, tree |-> tree, trigger |-> {}]

Bundled == {
    File("iam-001", "self-escalation", "required", AllOf({Single(Rewrite)})),
    File("cf-passrole-001", "passrole", "tree",
         AllOf({Single(Pass), AnyOf({Single(Stack), Single(Update)})})),
    File("kms-grant-001", "credential-access", "tree", Single(Grant)),
    [File("cascade-001", "cascade", "empty", NoRequirement) EXCEPT
        !.trigger = {[match_count |-> 2, min_tier |-> 3]}]}

\* A directory with two files that do not parse and no cascade.
Written == {
    File("s3-001", "data-access", "tree", AnyOf({Single(Pass), Single(Grant)})),
    File("s3-002", "data-access", "tree", AllOf({AllOf({AllOf({Single(Pass)})})})),
    File("s3-003", "data-access", "empty", NoRequirement),
    File("s3-004", "abac", "malformed", NoRequirement)}

MCRuleFiles == {Bundled, Written}

MCCategories ==
    ("iam-001" :> "cf_escalation") @@ ("cf-passrole-001" :> "cf_escalation")
        @@ ("kms-grant-001" :> "kms_grant") @@ ("s3-001" :> "s3_boundary")

MCRegistry == {
    [id |-> "policy-rewrite", tier |-> 1, combo |-> FALSE, actions |-> {Rewrite}],
    [id |-> "pass-role", tier |-> 2, combo |-> FALSE, actions |-> {Pass}],
    [id |-> "pass-role-stack", tier |-> 2, combo |-> TRUE, actions |-> {Pass, Stack}]}

\* A configuration file with the earlier key.
MCWeights ==
    Migrated(("dangerous_actions" :> 18)
             @@ [n \in DOMAIN DefaultWeights \ {"dangerous_action_count"} |-> DefaultWeights[n]])

MCFuzzFamilies == {{Pass, Stack, Update}, {Pass, Stack, Grant}, {Rewrite, Grant}}

MCFirstCatalog == [s |-> {"GetObject"}]

MCLaterActions == {<<"s", "DeleteObject">>, <<"b", "PassRole">>}

MCKindOf == [GetObject |-> "read", DeleteObject |-> "write", PassRole |-> "critical"]

OneAdmin == {<<"role">>}

=============================================================================
