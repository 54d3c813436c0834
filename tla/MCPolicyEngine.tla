--------------------------- MODULE MCPolicyEngine ---------------------------
(***************************************************************************)
(* The alphabet, the documents and the registry that the runs of           *)
(* PolicyEngine use.  Actions have two characters, a service and a verb:   *)
(* "a" is iam, "e" is ec2; "b" rewrites a policy, "p" passes a role, "t"   *)
(* tags a user, "r" runs an instance.  Roles are the resources "r" and     *)
(* "x".                                                                    *)
(***************************************************************************)
EXTENDS PolicyEngine, TLC

Rewrite == <<"a", "b">>
Pass    == <<"a", "p">>
Tag     == <<"a", "t">>
Run     == <<"e", "r">>
IamStar == <<"a", "*">>
R       == <<"r">>
X       == <<"x">>
Alice   == <<"u">>

MCRegistry == {
    [id |-> "policy-rewrite", tier |-> 1, combo |-> FALSE, passes |-> FALSE, actions |-> {Rewrite}],
    [id |-> "pass-role", tier |-> 2, combo |-> FALSE, passes |-> TRUE, actions |-> {Pass}],
    [id |-> "pass-role-ec2", tier |-> 2, combo |-> TRUE, passes |-> TRUE, actions |-> {Pass, Run}]}

MCTagActions == {Tag}

MCDriftActions == {Rewrite, Pass}

MCRequests == {Rewrite, Pass, Run, <<"a", "B">>} \X {R, X}

Absent == [is |-> "absent", items |-> << >>]

One(item) == [is |-> "string", items |-> <<item>>]

Many(items) == [is |-> "array", items |-> items]

Malformed == [is |-> "other", items |-> << >>]

Blank == [effect |-> "Allow", action |-> Absent, notAction |-> Absent,
          resource |-> One(AnyWord), notResource |-> Absent,
          condition |-> "absent", conditions |-> {}, principal |-> Absent]

Allow(action, resource) == [Blank EXCEPT !.action = action, !.resource = resource]

Deny(action, resource) == [Allow(action, resource) EXCEPT !.effect = "Deny"]

NotAction(stmt, action) == [stmt EXCEPT !.action = Absent, !.notAction = action]

NotResource(stmt, resource) == [stmt EXCEPT !.resource = Absent, !.notResource = resource]

Cond(operator, kind, tag, values) ==
    [operator |-> operator, key |-> [kind |-> kind, tag |-> tag], values |-> values]

If(stmt, conditions) == [stmt EXCEPT !.condition = "block", !.conditions = conditions]

Doc(statements) == [form |-> "policy", statements |-> statements]

Abroad == Cond("StringNotLike", "aws:RequestedRegion", << >>, One(<<"e", "*">>))
Home   == Cond("IpAddress", "aws:SourceIp", << >>, One(<<"n">>))
Team   == Cond("StringEquals", "aws:PrincipalTag", <<"B">>, One(<<"t">>))
Asked  == Cond("Null", "aws:RequestTag", <<"b">>, One(<<"false">>))

MCCidrs == (<<"n">> :> {<<"1">>, <<"2">>})

Plain == Allow(Many(<<Rewrite, Run>>), One(R))

MCIdentityDocs == {
    Doc({Plain}),
    Doc({Plain, Allow(One(Pass), Many(<<R, X>>))}),
    Doc({Plain, Allow(One(Pass), Many(<<R, X>>)), NotResource(Deny(One(<<"A", "?">>), Absent), One(X))}),
    Doc({Plain, Allow(One(Pass), Many(<<R, X>>)), If(Deny(One(AnyWord), One(<<"?", "*">>)), {Home})}),
    Doc({Allow(One(AnyWord), One(AnyWord)), If(Deny(One(<<"*", "r">>), One(R)), {Abroad})}),
    Doc({Allow(One(IamStar), One(R)), If(Allow(One(Tag), One(AnyWord)), {Team, Asked})}),
    Doc({NotAction(Plain, One(Run)), If(Allow(Many(<<Tag>>), One(X)), {Team})}),
    \* No document, and documents of which a statement is rejected.
    [form |-> "noVersion", statements |-> {Plain}],
    Doc({Plain, [Plain EXCEPT !.notAction = One(Run)]}),
    Doc({Plain, [Plain EXCEPT !.resource = Many(<< >>)]}),
    Doc({If(Plain, {Cond("other", "aws:SourceIp", << >>, Absent)})})}

MCGuardDocs == {
    Doc({}),
    Doc({Allow(One(AnyWord), One(AnyWord))}),
    Doc({Allow(One(<<"A", "*">>), One(<<"?">>)), Deny(One(Pass), One(AnyWord))}),
    Doc({NotAction(Allow(Absent, One(AnyWord)), Many(<< <<"a", "*", "p">>, <<"*", "b">> >>))})}

MCSessionDocs == {
    Doc({}),
    Doc({Allow(One(Pass), One(AnyWord)), Allow(One(Run), One(R))}),
    Doc({NotResource(Allow(One(<<"*", "?", "*">>), Absent), One(<<"x", "*">>))})}

Principals(value, stmt) == [stmt EXCEPT !.principal = value]

Text(spelt, account) == [spelt |-> spelt, account |-> account]

MCResourceDocs == {
    Doc({Principals(One(Text("*", "")), Deny(One(Pass), One(<<"r", "*">>)))}),
    Doc({Principals([is |-> "object", keys |-> ("AWS" :> Many(<<Text("rootArn", "2")>>) @@
                                                "Service" :> One(Text("service", "")))],
                    Allow(One(IamStar), One(R)))}),
    Doc({Principals(Malformed, Allow(One(IamStar), One(R)))})}

Aud(values) == Cond("StringEquals", "aud", << >>, values)
Sub         == Cond("StringLike", "sub", << >>, One(<<"a">>))

Okta   == Text("saml", "1")
Github == Text("oidc", "1")

MCTrustDocs == {
    Doc({Principals([is |-> "object", keys |-> ("Federated" :> Many(<<Okta, Github>>))],
                    If(Plain, {Sub, Aud(Malformed)}))}),
    Doc({Principals(One(Github), If([Plain EXCEPT !.effect = "absent"], {Aud(One(<<"a">>)), Sub})),
         Principals(One(Okta), Plain),
         Principals(One(Okta), [Plain EXCEPT !.effect = "Deny"])}),
    [form |-> "other", statements |-> {}]}
=============================================================================
