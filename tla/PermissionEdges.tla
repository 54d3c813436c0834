-------------------------- MODULE PermissionEdges --------------------------
(***************************************************************************)
(* From the policies of IAM principals to HasEffectivePermission edges:    *)
(* fetch_iam_roles and fetch_iam_users (src/native_fallback.rs of          *)
(* activable-ingest) and the permissions enricher                          *)
(* (src/native/permissions.rs).                                            *)
(*                                                                         *)
(* A fetch makes several calls to AWS, where policies change meanwhile,    *)
(* and loads one Principal node.  An enricher reads all Principal nodes,   *)
(* loads Permission nodes and then edges.  The jobs of several accounts    *)
(* run at one time on one graph.  A load happens whole or not at all       *)
(* (GraphLoad!AllOrNothing), and no two loads of one node overlap.         *)
(***************************************************************************)
EXTENDS Naturals, FiniteSets

CONSTANTS
    Roles, Users,
    Permissions,    \* pairs of an action and a resource, as policies spell them
    Documents,      \* policy documents
    ConfigsOf,      \* what AWS may have for each principal
    Jobs,           \* the jobs that run the enricher
    MaxChanges,     \* bound on the changes in AWS
    MaxNodes,       \* bound on the nodes that are created
    Throttled,      \* the principals about whom calls to AWS may fail
    Failures        \* may statements fail?

Principals == Roles \cup Users

\* Conditions are left out: both extractions ignore them.  A statement with NotAction or
\* NotResource has no pairs.
Statement == [effect : {"Allow", "Deny"}, pairs : SUBSET Permissions]

\* No boundary is the empty set, one the set of its document.
Policies == [inline : SUBSET Documents, managed : SUBSET Documents, boundary : SUBSET Documents]

ASSUME PolicyAssumption ==
    /\ Documents \subseteq SUBSET Statement
    /\ ConfigsOf \in [Principals -> SUBSET Policies]
    /\ \A p \in Principals : ConfigsOf[p] # {}

ASSUME OutsideAssumption ==
    /\ MaxChanges \in Nat
    /\ MaxNodes \in Nat
    /\ Throttled \subseteq Principals
    /\ Failures \in BOOLEAN

VARIABLES
    aws,            \* the policies AWS has for each principal
    changes,
    fetch,          \* the fetch of each principal
    vertices,       \* the Principal nodes that have policies
    permissions,    \* the Permission nodes
    edges,          \* the HasEffectivePermission edges
    enrich          \* the enricher of each job

edgeVars == <<aws, changes, fetch, vertices, permissions, edges, enrich>>

NoPolicies == [inline |-> {}, managed |-> {}, boundary |-> {}]

NotFetching == [pc |-> "idle", policies |-> NoPolicies]

NotEnriching == [pc |-> "idle", work |-> {}, seen |-> {}]

-----------------------------------------------------------------------------
(* What policies grant *)

\* parse_and_extract_permissions, which skips Deny and keeps every pair as it is spelt;
\* parse_and_extract_permissions_only_allow gives the same.
Granted(documents) ==
    UNION {s.pairs : s \in {t \in UNION documents : t.effect = "Allow"}}

\* Mutant: the boundary masks inline policies only.
EffectiveManagedFree(policies) ==
    IF policies.boundary = {}
    THEN Granted(policies.inline) \cup Granted(policies.managed)
    ELSE (Granted(policies.inline) \cap Granted(policies.boundary)) \cup Granted(policies.managed)

\* The union of inline and managed policies, masked by the boundary pair by pair.
Effective(policies) ==
    IF policies.boundary = {}
    THEN Granted(policies.inline) \cup Granted(policies.managed)
    ELSE (Granted(policies.inline) \cup Granted(policies.managed)) \cap Granted(policies.boundary)

-----------------------------------------------------------------------------
(* The fetch of a principal *)

ChangePolicies(p) ==
    /\ changes < MaxChanges
    /\ \E c \in ConfigsOf[p] \ {aws[p]} : aws' = [aws EXCEPT ![p] = c]
    /\ changes' = changes + 1
    /\ UNCHANGED <<fetch, vertices, permissions, edges, enrich>>

\* A document whose call fails is passed over; a list that fails is empty.
Answers(p, documents) == IF p \in Throttled THEN SUBSET documents ELSE {documents}

Listed(pc, p) == [pc |-> pc, policies |-> [NoPolicies EXCEPT !.boundary = aws[p].boundary]]

\* list_roles says which boundary the role has.
ListRole(p) ==
    /\ p \in Roles
    /\ fetch[p].pc \in {"idle", "loaded"}
    /\ fetch' = [fetch EXCEPT ![p] = Listed("inline", p)]
    /\ UNCHANGED <<aws, changes, vertices, permissions, edges, enrich>>

\* The inline policies of a user are not asked for.
ListUser(p) ==
    /\ p \in Users
    /\ fetch[p].pc \in {"idle", "loaded"}
    /\ fetch' = [fetch EXCEPT ![p] = Listed("managed", p)]
    /\ UNCHANGED <<aws, changes, vertices, permissions, edges, enrich>>

FetchInline(p) ==
    /\ fetch[p].pc = "inline"
    /\ \E answer \in Answers(p, aws[p].inline) :
          fetch' = [fetch EXCEPT ![p] = [pc |-> "managed",
                                          policies |-> [fetch[p].policies EXCEPT !.inline = answer]]]
    /\ UNCHANGED <<aws, changes, vertices, permissions, edges, enrich>>

FetchManaged(p) ==
    /\ fetch[p].pc = "managed"
    /\ \E answer \in Answers(p, aws[p].managed) :
          fetch' = [fetch EXCEPT ![p] = [pc |-> "boundary",
                                          policies |-> [fetch[p].policies EXCEPT !.managed = answer]]]
    /\ UNCHANGED <<aws, changes, vertices, permissions, edges, enrich>>

\* The boundary's document.  When a call fails the role counts as one without a boundary.
FetchBoundary(p) ==
    /\ fetch[p].pc = "boundary"
    /\ \E answer \in Answers(p, fetch[p].policies.boundary) :
          fetch' = [fetch EXCEPT ![p] = [pc |-> "load",
                                          policies |-> [fetch[p].policies EXCEPT !.boundary = answer]]]
    /\ UNCHANGED <<aws, changes, vertices, permissions, edges, enrich>>

\* Mutant: MERGE on the id alone.
MergesById(v, p, policies) == v.id = p

\* MERGE (n:Principal {properties}): a boundary that is None is no part of the pattern.
Merges(v, p, policies) ==
    /\ v.id = p
    /\ v.policies.inline = policies.inline
    /\ v.policies.managed = policies.managed
    /\ policies.boundary \in {{}, v.policies.boundary}

LoadPrincipal(p) ==
    /\ fetch[p].pc = "load"
    /\ \/ /\ \E v \in vertices : Merges(v, p, fetch[p].policies)
          /\ UNCHANGED vertices
       \/ /\ ~ \E v \in vertices : Merges(v, p, fetch[p].policies)
          /\ Cardinality(vertices) < MaxNodes
          /\ vertices' = vertices \cup {[id |-> p, policies |-> fetch[p].policies]}
    /\ fetch' = [fetch EXCEPT ![p] = [NotFetching EXCEPT !.pc = "loaded"]]
    /\ UNCHANGED <<aws, changes, permissions, edges, enrich>>

\* The load returns Err, and with it the fetch of the type.
LoadPrincipalFails(p) ==
    /\ Failures
    /\ fetch[p].pc = "load"
    /\ fetch' = [fetch EXCEPT ![p] = NotFetching]
    /\ UNCHANGED <<aws, changes, vertices, permissions, edges, enrich>>

-----------------------------------------------------------------------------
(* The enricher *)

\* fetch_principals_with_policies and the computation on what it returns, in memory.
\* seen is what the rows stand for.
ReadPrincipals(j) ==
    /\ enrich[j].pc \in {"idle", "done"}
    /\ LET work == UNION {{v.id} \X Effective(v.policies) : v \in vertices} IN
          enrich' = [enrich EXCEPT ![j] = [pc |-> IF work = {} THEN "done" ELSE "nodes",
                                           work |-> work, seen |-> vertices]]
    /\ UNCHANGED <<aws, changes, fetch, vertices, permissions, edges>>

LoadPermissions(j) ==
    /\ enrich[j].pc = "nodes"
    /\ permissions' = permissions \cup {w[2] : w \in enrich[j].work}
    /\ enrich' = [enrich EXCEPT ![j].pc = "edges"]
    /\ UNCHANGED <<aws, changes, fetch, vertices, edges>>

\* Mutant: the edges do not wait for the Permission nodes.
LoadEdgesFirst(j) ==
    /\ enrich[j].pc \in {"nodes", "edges"}
    /\ edges' = edges \cup {e \in [from : vertices, to : permissions] :
                               <<e.from.id, e.to>> \in enrich[j].work}
    /\ enrich' = [enrich EXCEPT ![j].pc = "done"]
    /\ UNCHANGED <<aws, changes, fetch, vertices, permissions>>

\* Mutant: MATCH without the id.
LoadEdgesOfAny(j) ==
    /\ enrich[j].pc = "edges"
    /\ edges' = edges \cup [from : vertices, to : permissions \cap {w[2] : w \in enrich[j].work}]
    /\ enrich' = [enrich EXCEPT ![j].pc = "done"]
    /\ UNCHANGED <<aws, changes, fetch, vertices, permissions>>

\* MATCH by id: from every node of the principal, whichever of them grants the permission.
\* Permissions that are granted no more keep their edges.
LoadEdges(j) ==
    /\ enrich[j].pc = "edges"
    /\ edges' = edges \cup {e \in [from : vertices, to : permissions] :
                               <<e.from.id, e.to>> \in enrich[j].work}
    /\ enrich' = [enrich EXCEPT ![j].pc = "done"]
    /\ UNCHANGED <<aws, changes, fetch, vertices, permissions>>

\* The query or a load returns Err.
EnrichFails(j) ==
    /\ Failures
    /\ enrich' = [enrich EXCEPT ![j] = NotEnriching]
    /\ UNCHANGED <<aws, changes, fetch, vertices, permissions, edges>>

-----------------------------------------------------------------------------
(* Specification *)

EdgeInit ==
    /\ aws \in [Principals -> UNION {ConfigsOf[p] : p \in Principals}]
    /\ \A p \in Principals : aws[p] \in ConfigsOf[p]
    /\ changes = 0
    /\ fetch = [p \in Principals |-> NotFetching]
    /\ vertices = {}
    /\ permissions = {}
    /\ edges = {}
    /\ enrich = [j \in Jobs |-> NotEnriching]

FetchStep(p) ==
    \/ ListRole(p) \/ ListUser(p)
    \/ FetchInline(p) \/ FetchManaged(p) \/ FetchBoundary(p)
    \/ LoadPrincipal(p) \/ LoadPrincipalFails(p)

EnrichStep(j) ==
    ReadPrincipals(j) \/ LoadPermissions(j) \/ LoadEdges(j) \/ EnrichFails(j)

EdgeNext ==
    \/ \E p \in Principals : ChangePolicies(p) \/ FetchStep(p)
    \/ \E j \in Jobs : EnrichStep(j)

-----------------------------------------------------------------------------
(* Properties *)

Vertex == [id : Principals, policies : Policies]

Edge == [from : Vertex, to : Permissions]

Fetch == [pc : {"idle", "inline", "managed", "boundary", "load", "loaded"}, policies : Policies]

Enrichment == [pc : {"idle", "nodes", "edges", "done"},
               work : SUBSET (Principals \X Permissions),
               seen : SUBSET Vertex]

EdgeTypeOK ==
    /\ aws \in [Principals -> Policies]
    /\ \A p \in Principals : aws[p] \in ConfigsOf[p]
    /\ changes \in 0..MaxChanges
    /\ fetch \in [Principals -> Fetch]
    /\ vertices \subseteq Vertex
    /\ permissions \subseteq Permissions
    /\ edges \subseteq Edge
    /\ edges \subseteq [from : vertices, to : permissions]
    /\ enrich \in [Jobs -> Enrichment]

\* The permissions of a principal as get_effective_permissions reads them.
PermissionsOf(p) == {e.to : e \in {x \in edges : x.from.id = p}}

\* A principal has a permission edge only if the policies of one of its nodes grant the
\* permission, in whatever order fetches and enrichers of several jobs have run.
EdgesGranted ==
    \A e \in edges : \E v \in vertices : v.id = e.from.id /\ e.to \in Effective(v.policies)

\* When an enricher has returned Ok, every node that it read has an edge for each
\* permission that its policies grant.
EnrichedWhole ==
    \A j \in Jobs : enrich[j].pc = "done" =>
        \A v \in enrich[j].seen : \A q \in Effective(v.policies) : [from |-> v, to |-> q] \in edges

AlwaysBounded(p) == \A c \in ConfigsOf[p] : c.boundary # {}

\* A principal that has a boundary at all times gets no permission outside the boundaries
\* it has had or may have, provided that no call about it fails: however AWS changes
\* between the calls of a fetch, and whatever nodes earlier fetches have left.
BoundaryKept ==
    \A e \in edges :
        e.from.id \notin Throttled /\ AlwaysBounded(e.from.id) =>
            \E c \in ConfigsOf[e.from.id] : e.to \in Granted(c.boundary)

Shown(p) == UNION {Effective(v.policies) : v \in {w \in vertices : w.id = p}}

\* The load of a principal that was fetched with a boundary leaves nodes that show what
\* its policies grant.  Without one it need not: MERGE finds an earlier node that has one.
LoadShows ==
    [][\A p \in Principals :
          fetch[p].pc = "load" /\ fetch'[p].pc = "loaded" /\ fetch[p].policies.boundary # {} =>
              Effective(fetch[p].policies) \subseteq Shown(p)']_edgeVars

=============================================================================
