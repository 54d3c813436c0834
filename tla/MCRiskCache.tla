---- MODULE MCRiskCache ----
(* A role that always has a boundary, and a user whose calls to AWS may fail. *)
EXTENDS RiskCache, TLC

CONSTANTS role, user, x, y, z

Allow(pairs) == [effect |-> "Allow", pairs |-> pairs]

Deny(pairs) == [effect |-> "Deny", pairs |-> pairs]

AllowX == {Allow({x})}

AllowAll == {Allow({x, y, z})}

DenyXAllowY == {Deny({x}), Allow({y})}

MCDocuments == {AllowX, AllowAll, DenyXAllowY}

Has(inline, managed, boundary) == [inline |-> inline, managed |-> managed, boundary |-> boundary]

\* The role may change while it is fetched, and lets its permissions grow from x to y, or back.
\* The user loses the boundary in the graph when a call about it fails.
MCConfigsOf ==
    (role :> {Has({AllowAll}, {}, {AllowX}), Has({}, {AllowAll}, {DenyXAllowY})})
        @@ (user :> {Has({AllowX}, {AllowX}, {DenyXAllowY})})

====
