------------------------------ MODULE MCAccess ------------------------------
(***************************************************************************)
(* Account 1 with a bucket, a key, two secrets, a function, an instance    *)
(* and a role, and principals of this account and of another.  The cap of  *)
(* 50 principals per statement is 2 here.                                  *)
(***************************************************************************)
EXTENDS AccessRisks

MCOrder == <<"iam", "ec2", "s3", "kms", "secretsmanager", "lambda">>

MCItems == [iam |-> {"role"}, ec2 |-> {"vm"}, s3 |-> {"bucket"}, kms |-> {"key"},
            secretsmanager |-> {"secret", "plain"}, lambda |-> {"fn"}]

MCTypeOf == [p \in {"*", "role", "own", "other", "web.amazonaws.com"} |->
    CASE p = "role" -> "Role" [] p \in {"own", "other"} -> "AccountRoot"
      [] p = "web.amazonaws.com" -> "Service" [] OTHER -> "Principal"]
MCAccountOf == [p \in DOMAIN MCTypeOf |->
    CASE p \in {"role", "own"} -> "1" [] p = "other" -> "2" [] OTHER -> ""]

Statement(written, principals, actions) ==
    [effect |-> "Allow", written |-> written, principals |-> principals, actions |-> actions,
     conditions |-> {}]

MCStatementsOf ==
    [public |-> <<[Statement("string", <<"*">>, {"read", "kms:*"}) EXCEPT !.conditions = {"aws:PrincipalOrgID"}]>>,
     shared |-> <<Statement("AWS list", <<"own", "other", "web.amazonaws.com">>, {"kms:CreateGrant"}),
                  [Statement("AWS", <<"role">>, {"read"}) EXCEPT !.effect = "Deny"]>>,
     private |-> <<Statement("AWS", <<"role">>, {"read", "kms:CreateGrant"}),
                   Statement("AWS", <<"own">>, {})>>]

Trust(effect, sources, provider, aud, sub) ==
    [effect |-> effect, sources |-> sources, provider |-> provider, aud |-> aud, sub |-> sub]

MCTrustOf ==
    [strict |-> <<Trust("Allow", {"other"}, "oidc", <<"app">>, <<"branch">>)>>,
     loose  |-> <<Trust("Allow", {"web.amazonaws.com"}, "", << >>, << >>),
                  Trust("Allow", {}, "oidc", <<"app">>, <<"*">>)>>]

MCDocuments == DOMAIN MCStatementsOf \cup DOMAIN MCTrustOf \cup {"none", "garbled"}

MCKeyOf == [secret |-> [form |-> "key id", id |-> "key"], plain |-> [form |-> "aws alias", id |-> ""]]

MCGroupsOf == [vm |-> {"sg"}]

MCFetched ==
    {Vertex("Principal", "role", {<<"principal_type", "Role">>}), Vertex("Resource", "fn", {}),
     Vertex("Resource", "vm", {}), Vertex("SecurityGroup", "sg", {})}

MCFirst == [role |-> "strict", vm |-> "none", bucket |-> "public", key |-> "shared",
            secret |-> "private", plain |-> "none", fn |-> "shared"]

MCLater == [role |-> {"loose"}, vm |-> {}, bucket |-> {"private", "garbled"}, key |-> {"public", "private"},
            secret |-> {"shared"}, plain |-> {}, fn |-> {"none"}]
=============================================================================
