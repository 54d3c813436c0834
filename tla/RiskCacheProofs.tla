-------------------------- MODULE RiskCacheProofs --------------------------
(* Proofs of the invariants of RiskCache, for all policies, changes and jobs. *)
EXTENDS RiskCache, TLAPS

-----------------------------------------------------------------------------
(* What policies grant *)

LEMMA GrantedTyped ==
    ASSUME NEW documents \in SUBSET Documents
    PROVE  Granted(documents) \subseteq Permissions
<1>1. \A s \in UNION documents : s \in Statement
    BY PolicyAssumption
<1>2. \A s \in Statement : s.pairs \subseteq Permissions
    BY DEF Statement
<1> QED
    BY <1>1, <1>2 DEF Granted

LEMMA EffectiveTyped ==
    ASSUME NEW policies \in Policies
    PROVE  Effective(policies) \subseteq Permissions
<1>1. /\ policies.inline \in SUBSET Documents
      /\ policies.managed \in SUBSET Documents
    BY DEF Policies
<1>2. /\ Granted(policies.inline) \subseteq Permissions
      /\ Granted(policies.managed) \subseteq Permissions
    BY <1>1, GrantedTyped
<1> QED
    BY <1>2 DEF Effective

-----------------------------------------------------------------------------
(* The inductive invariant of the graph *)

FetchBounded ==
    \A p \in Principals \ Throttled :
        AlwaysBounded(p) /\ fetch[p].pc \notin {"idle", "loaded"} =>
            /\ fetch[p].policies.boundary # {}
            /\ \E c \in ConfigsOf[p] : fetch[p].policies.boundary = c.boundary

VerticesBounded ==
    \A v \in vertices :
        v.id \notin Throttled /\ AlwaysBounded(v.id) =>
            /\ v.policies.boundary # {}
            /\ \E c \in ConfigsOf[v.id] : v.policies.boundary = c.boundary

WorkGranted ==
    \A j \in Jobs : \A w \in enrich[j].work :
        \E v \in vertices : v.id = w[1] /\ w[2] \in Effective(v.policies)

SeenStay == \A j \in Jobs : enrich[j].seen \subseteq vertices

WorkCovers ==
    \A j \in Jobs : enrich[j].pc \in {"nodes", "edges"} =>
        \A v \in enrich[j].seen : \A q \in Effective(v.policies) : <<v.id, q>> \in enrich[j].work

PermissionsThere ==
    \A j \in Jobs : enrich[j].pc = "edges" => \A w \in enrich[j].work : w[2] \in permissions

EdgeInv ==
    /\ EdgeTypeOK
    /\ FetchBounded
    /\ VerticesBounded
    /\ WorkGranted
    /\ SeenStay
    /\ WorkCovers
    /\ PermissionsThere
    /\ EdgesGranted
    /\ EnrichedWhole

LEMMA NothingFetched == NotFetching \in Fetch /\ NotEnriching \in Enrichment
BY DEF NotFetching, Fetch, NoPolicies, Policies, NotEnriching, Enrichment

LEMMA EdgeInitInv == EdgeInit => EdgeInv
<1> SUFFICES ASSUME EdgeInit PROVE EdgeInv
    OBVIOUS
<1>1. EdgeTypeOK
    <2>1. \A p \in Principals : aws[p] \in Policies
        BY PolicyAssumption DEF EdgeInit
    <2>2. changes \in 0..MaxChanges
        BY OutsideAssumption DEF EdgeInit
    <2> QED
        BY <2>1, <2>2, NothingFetched DEF EdgeInit, EdgeTypeOK
<1>2. FetchBounded /\ VerticesBounded
    BY DEF EdgeInit, FetchBounded, VerticesBounded, NotFetching
<1>3. WorkGranted /\ SeenStay /\ WorkCovers /\ PermissionsThere
    BY DEF EdgeInit, WorkGranted, SeenStay, WorkCovers, PermissionsThere, NotEnriching
<1>4. EdgesGranted /\ EnrichedWhole
    BY DEF EdgeInit, EdgesGranted, EnrichedWhole, NotEnriching
<1> QED
    BY <1>1, <1>2, <1>3, <1>4 DEF EdgeInv

-----------------------------------------------------------------------------
(* The fetch *)

LEMMA AnswersTyped ==
    ASSUME NEW p, NEW documents, NEW answer \in Answers(p, documents)
    PROVE  answer \subseteq documents /\ (p \notin Throttled => answer = documents)
BY DEF Answers

\* A step of the fetch up to the load: it changes one record.
LEMMA FetchOnly ==
    ASSUME EdgeInv, UNCHANGED <<aws, changes, vertices, permissions, edges, enrich>>,
           NEW p \in Principals, NEW f \in Fetch,
           fetch' = [fetch EXCEPT ![p] = f],
           p \notin Throttled /\ AlwaysBounded(p) /\ f.pc \notin {"idle", "loaded"} =>
               /\ f.policies.boundary # {}
               /\ \E c \in ConfigsOf[p] : f.policies.boundary = c.boundary
    PROVE  EdgeInv'
<1>1. EdgeTypeOK'
    BY DEF EdgeInv, EdgeTypeOK
<1>2. FetchBounded'
    BY DEF EdgeInv, EdgeTypeOK, FetchBounded, AlwaysBounded
<1>3. VerticesBounded' /\ WorkGranted' /\ SeenStay' /\ WorkCovers' /\ PermissionsThere'
    BY DEF EdgeInv, VerticesBounded, AlwaysBounded, WorkGranted, SeenStay, WorkCovers,
           PermissionsThere
<1>4. EdgesGranted' /\ EnrichedWhole'
    BY DEF EdgeInv, EdgesGranted, EnrichedWhole
<1> QED
    BY <1>1, <1>2, <1>3, <1>4 DEF EdgeInv

LEMMA ListStep ==
    ASSUME EdgeInv, NEW p \in Principals, ListRole(p) \/ ListUser(p)
    PROVE  EdgeInv'
<1>1. PICK pc \in {"inline", "managed"} : fetch' = [fetch EXCEPT ![p] = Listed(pc, p)]
    BY DEF ListRole, ListUser
<1>2. aws[p] \in ConfigsOf[p] /\ aws[p] \in Policies
    BY DEF EdgeInv, EdgeTypeOK
<1>3. /\ Listed(pc, p) = [pc |-> pc, policies |-> [inline |-> {}, managed |-> {},
                                                   boundary |-> aws[p].boundary]]
      /\ aws[p].boundary \subseteq Documents
    BY <1>2 DEF Listed, NoPolicies, Policies
<1>4. Listed(pc, p) \in Fetch
    BY <1>3 DEF Fetch, Policies
<1>5. AlwaysBounded(p) => aws[p].boundary # {}
    BY <1>2 DEF AlwaysBounded
<1>6. UNCHANGED <<aws, changes, vertices, permissions, edges, enrich>>
    BY DEF ListRole, ListUser
<1> QED
    BY <1>1, <1>2, <1>3, <1>4, <1>5, <1>6, FetchOnly

LEMMA FetchPoliciesStep ==
    ASSUME EdgeInv, NEW p \in Principals, FetchInline(p) \/ FetchManaged(p)
    PROVE  EdgeInv'
<1> DEFINE g == fetch[p].policies
<1>1. fetch[p] \in Fetch /\ g \in Policies /\ aws[p] \in Policies
    BY DEF EdgeInv, EdgeTypeOK, Fetch
<1>2. PICK f : /\ fetch' = [fetch EXCEPT ![p] = f]
               /\ f \in Fetch
               /\ f.policies.boundary = g.boundary
    <2>1. CASE FetchInline(p)
        <3>1. PICK answer \in Answers(p, aws[p].inline) :
                  fetch' = [fetch EXCEPT ![p] =
                      [pc |-> "managed", policies |-> [fetch[p].policies EXCEPT !.inline = answer]]]
            BY <2>1 DEF FetchInline
        <3>2. answer \subseteq Documents
            BY <1>1, AnswersTyped DEF Policies
        <3> DEFINE f == [pc |-> "managed", policies |-> [inline |-> answer,
                             managed |-> g.managed, boundary |-> g.boundary]]
        <3>3. fetch' = [fetch EXCEPT ![p] = f]
            <4>1. [g EXCEPT !.inline = answer] = f.policies
                BY <1>1 DEF Policies
            <4> QED
                BY <3>1, <4>1
        <3>4. f \in Fetch /\ f.policies.boundary = g.boundary
            BY <1>1, <3>2 DEF Fetch, Policies
        <3> QED
            BY <3>3, <3>4
    <2>2. CASE FetchManaged(p)
        <3>1. PICK answer \in Answers(p, aws[p].managed) :
                  fetch' = [fetch EXCEPT ![p] =
                      [pc |-> "boundary", policies |-> [fetch[p].policies EXCEPT !.managed = answer]]]
            BY <2>2 DEF FetchManaged
        <3>2. answer \subseteq Documents
            BY <1>1, AnswersTyped DEF Policies
        <3> DEFINE f == [pc |-> "boundary", policies |-> [inline |-> g.inline,
                             managed |-> answer, boundary |-> g.boundary]]
        <3>3. fetch' = [fetch EXCEPT ![p] = f]
            <4>1. [g EXCEPT !.managed = answer] = f.policies
                BY <1>1 DEF Policies
            <4> QED
                BY <3>1, <4>1
        <3>4. f \in Fetch /\ f.policies.boundary = g.boundary
            BY <1>1, <3>2 DEF Fetch, Policies
        <3> QED
            BY <3>3, <3>4
    <2> QED
        BY <2>1, <2>2
<1>3. p \notin Throttled /\ AlwaysBounded(p) =>
          /\ g.boundary # {}
          /\ \E c \in ConfigsOf[p] : g.boundary = c.boundary
    BY DEF EdgeInv, FetchBounded, FetchInline, FetchManaged
<1>4. UNCHANGED <<aws, changes, vertices, permissions, edges, enrich>>
    BY DEF FetchInline, FetchManaged
<1> QED
    BY <1>2, <1>3, <1>4, FetchOnly

LEMMA FetchBoundaryStep ==
    ASSUME EdgeInv, NEW p \in Principals, FetchBoundary(p)
    PROVE  EdgeInv'
<1> DEFINE g == fetch[p].policies
<1>1. fetch[p] \in Fetch /\ g \in Policies
    BY DEF EdgeInv, EdgeTypeOK, Fetch
<1>2. PICK answer \in Answers(p, g.boundary) :
          fetch' = [fetch EXCEPT ![p] =
                      [pc |-> "load", policies |-> [fetch[p].policies EXCEPT !.boundary = answer]]]
    BY DEF FetchBoundary
<1>3. answer \subseteq g.boundary /\ (p \notin Throttled => answer = g.boundary)
    BY AnswersTyped
<1> DEFINE f == [pc |-> "load", policies |-> [inline |-> g.inline, managed |-> g.managed,
                                              boundary |-> answer]]
<1>4. fetch' = [fetch EXCEPT ![p] = f]
    <2>1. [g EXCEPT !.boundary = answer] = f.policies
        BY <1>1 DEF Policies
    <2> QED
        BY <1>2, <2>1
<1>5. f \in Fetch
    BY <1>1, <1>3 DEF Fetch, Policies
<1>6. p \notin Throttled /\ AlwaysBounded(p) =>
          /\ answer # {}
          /\ \E c \in ConfigsOf[p] : answer = c.boundary
    BY <1>3 DEF EdgeInv, FetchBounded, FetchBoundary
<1>7. UNCHANGED <<aws, changes, vertices, permissions, edges, enrich>>
    BY DEF FetchBoundary
<1> QED
    BY <1>4, <1>5, <1>6, <1>7, FetchOnly

LEMMA LoadFailsStep ==
    ASSUME EdgeInv, NEW p \in Principals, LoadPrincipalFails(p)
    PROVE  EdgeInv'
<1>1. NotFetching.pc = "idle"
    BY DEF NotFetching
<1> QED
    BY <1>1, NothingFetched, FetchOnly DEF LoadPrincipalFails

LEMMA ChangeStep ==
    ASSUME EdgeInv, NEW p \in Principals, ChangePolicies(p)
    PROVE  EdgeInv'
<1>1. PICK c \in ConfigsOf[p] \ {aws[p]} : aws' = [aws EXCEPT ![p] = c]
    BY DEF ChangePolicies
<1>2. changes' \in 0..MaxChanges
    BY OutsideAssumption DEF EdgeInv, EdgeTypeOK, ChangePolicies
<1>3. c \in Policies
    BY PolicyAssumption
<1>4. EdgeTypeOK'
    BY <1>1, <1>2, <1>3 DEF EdgeInv, EdgeTypeOK, ChangePolicies
<1>5. FetchBounded' /\ VerticesBounded' /\ WorkGranted' /\ SeenStay' /\ WorkCovers'
    BY DEF EdgeInv, FetchBounded, VerticesBounded, AlwaysBounded, WorkGranted, SeenStay,
           WorkCovers, ChangePolicies
<1>6. PermissionsThere' /\ EdgesGranted' /\ EnrichedWhole'
    BY DEF EdgeInv, PermissionsThere, EdgesGranted, EnrichedWhole, ChangePolicies
<1> QED
    BY <1>4, <1>5, <1>6 DEF EdgeInv

LEMMA LoadPrincipalStep ==
    ASSUME EdgeInv, NEW p \in Principals, LoadPrincipal(p)
    PROVE  EdgeInv'
<1> DEFINE new == [id |-> p, policies |-> fetch[p].policies]
<1>1. vertices' = vertices \/ vertices' = vertices \cup {new}
    BY DEF LoadPrincipal
<1>2. new \in Vertex
    BY DEF EdgeInv, EdgeTypeOK, Fetch, Vertex
<1>3. /\ fetch' = [fetch EXCEPT ![p] = [NotFetching EXCEPT !.pc = "loaded"]]
      /\ [NotFetching EXCEPT !.pc = "loaded"] \in Fetch
      /\ [NotFetching EXCEPT !.pc = "loaded"].pc = "loaded"
    BY NothingFetched DEF LoadPrincipal, Fetch
<1>4. UNCHANGED <<aws, changes, permissions, edges, enrich>>
    BY DEF LoadPrincipal
<1>5. EdgeTypeOK'
    BY <1>1, <1>2, <1>3, <1>4 DEF EdgeInv, EdgeTypeOK
<1>6. FetchBounded'
    BY <1>3 DEF EdgeInv, EdgeTypeOK, FetchBounded, AlwaysBounded
<1>7. VerticesBounded'
    <2>1. fetch[p].pc = "load"
        BY DEF LoadPrincipal
    <2>2. p \notin Throttled /\ AlwaysBounded(p) =>
              /\ new.policies.boundary # {}
              /\ \E c \in ConfigsOf[p] : new.policies.boundary = c.boundary
        BY <2>1 DEF EdgeInv, FetchBounded
    <2> QED
        BY <1>1, <2>2 DEF EdgeInv, VerticesBounded, AlwaysBounded
<1>8. WorkGranted' /\ SeenStay' /\ WorkCovers' /\ PermissionsThere'
    BY <1>1, <1>4 DEF EdgeInv, WorkGranted, SeenStay, WorkCovers, PermissionsThere
<1>9. EdgesGranted' /\ EnrichedWhole'
    BY <1>1, <1>4 DEF EdgeInv, EdgesGranted, EnrichedWhole
<1> QED
    BY <1>5, <1>6, <1>7, <1>8, <1>9 DEF EdgeInv

-----------------------------------------------------------------------------
(* The enricher *)

\* What an enricher leaves alone.
LEMMA EnrichKeepsFetch ==
    ASSUME EdgeInv, UNCHANGED <<aws, changes, fetch, vertices>>
    PROVE  FetchBounded' /\ VerticesBounded'
BY DEF EdgeInv, FetchBounded, VerticesBounded, AlwaysBounded

LEMMA ReadPrincipalsStep ==
    ASSUME EdgeInv, NEW j \in Jobs, ReadPrincipals(j)
    PROVE  EdgeInv'
<1> DEFINE work == UNION {{v.id} \X Effective(v.policies) : v \in vertices}
           pc == IF work = {} THEN "done" ELSE "nodes"
<1>1. enrich' = [enrich EXCEPT ![j] = [pc |-> pc, work |-> work, seen |-> vertices]]
    BY DEF ReadPrincipals
<1>2. UNCHANGED <<aws, changes, fetch, vertices, permissions, edges>>
    BY DEF ReadPrincipals
<1>3. \A w \in work : \E v \in vertices : w[1] = v.id /\ w[2] \in Effective(v.policies)
    OBVIOUS
<1>4. \A v \in vertices : \A q \in Effective(v.policies) : <<v.id, q>> \in work
    OBVIOUS
<1>5. work \in SUBSET (Principals \X Permissions)
    <2>1. \A v \in vertices : v.id \in Principals /\ Effective(v.policies) \subseteq Permissions
        BY EffectiveTyped DEF EdgeInv, EdgeTypeOK, Vertex
    <2> QED
        BY <2>1
<1>6. pc \in {"nodes", "done"} /\ (pc = "done" => work = {})
    OBVIOUS
<1> HIDE DEF work, pc
<1>7. EdgeTypeOK'
    BY <1>1, <1>2, <1>5, <1>6 DEF EdgeInv, EdgeTypeOK, Enrichment
<1>8. WorkGranted'
    BY <1>1, <1>2, <1>3 DEF EdgeInv, EdgeTypeOK, WorkGranted
<1>9. SeenStay' /\ WorkCovers' /\ PermissionsThere'
    BY <1>1, <1>2, <1>4, <1>6
       DEF EdgeInv, EdgeTypeOK, SeenStay, WorkCovers, PermissionsThere
<1>10. EdgesGranted'
    BY <1>2 DEF EdgeInv, EdgesGranted
<1>11. EnrichedWhole'
    BY <1>1, <1>2, <1>4, <1>6 DEF EdgeInv, EdgeTypeOK, EnrichedWhole
<1> QED
    BY <1>2, <1>7, <1>8, <1>9, <1>10, <1>11, EnrichKeepsFetch DEF EdgeInv

LEMMA LoadPermissionsStep ==
    ASSUME EdgeInv, NEW j \in Jobs, LoadPermissions(j)
    PROVE  EdgeInv'
<1>1. /\ permissions' = permissions \cup {w[2] : w \in enrich[j].work}
      /\ enrich' = [enrich EXCEPT ![j].pc = "edges"]
      /\ enrich[j].pc = "nodes"
      /\ UNCHANGED <<aws, changes, fetch, vertices, edges>>
    BY DEF LoadPermissions
<1>2. enrich[j].work \in SUBSET (Principals \X Permissions)
    BY DEF EdgeInv, EdgeTypeOK, Enrichment
<1>3. {w[2] : w \in enrich[j].work} \subseteq Permissions
    BY <1>2
<1>4. EdgeTypeOK'
    BY <1>1, <1>3 DEF EdgeInv, EdgeTypeOK, Enrichment
<1>5. \A k \in Jobs : /\ enrich'[k].work = enrich[k].work
                      /\ enrich'[k].seen = enrich[k].seen
                      /\ enrich'[k].pc = IF k = j THEN "edges" ELSE enrich[k].pc
    BY <1>1 DEF EdgeInv, EdgeTypeOK, Enrichment
<1>6. WorkGranted' /\ SeenStay' /\ WorkCovers'
    BY <1>1, <1>5 DEF EdgeInv, WorkGranted, SeenStay, WorkCovers
<1>7. PermissionsThere'
    BY <1>1, <1>5 DEF EdgeInv, PermissionsThere
<1>8. EdgesGranted' /\ EnrichedWhole'
    BY <1>1, <1>5 DEF EdgeInv, EdgesGranted, EnrichedWhole
<1> QED
    BY <1>1, <1>4, <1>6, <1>7, <1>8, EnrichKeepsFetch DEF EdgeInv

LEMMA LoadEdgesStep ==
    ASSUME EdgeInv, NEW j \in Jobs, LoadEdges(j)
    PROVE  EdgeInv'
<1> DEFINE new == {e \in [from : vertices, to : permissions] :
                       <<e.from.id, e.to>> \in enrich[j].work}
<1>1. /\ edges' = edges \cup new
      /\ enrich' = [enrich EXCEPT ![j].pc = "done"]
      /\ enrich[j].pc = "edges"
      /\ UNCHANGED <<aws, changes, fetch, vertices, permissions>>
    BY DEF LoadEdges
<1>2. new \subseteq Edge /\ new \subseteq [from : vertices, to : permissions]
    BY DEF EdgeInv, EdgeTypeOK, Edge
<1>3. EdgeTypeOK'
    BY <1>1, <1>2 DEF EdgeInv, EdgeTypeOK, Enrichment
<1>4. \A k \in Jobs : /\ enrich'[k].work = enrich[k].work
                      /\ enrich'[k].seen = enrich[k].seen
                      /\ enrich'[k].pc = IF k = j THEN "done" ELSE enrich[k].pc
    BY <1>1 DEF EdgeInv, EdgeTypeOK, Enrichment
<1>5. WorkGranted' /\ SeenStay' /\ WorkCovers' /\ PermissionsThere'
    BY <1>1, <1>4 DEF EdgeInv, WorkGranted, SeenStay, WorkCovers, PermissionsThere
<1>6. EdgesGranted'
    <2>1. \A e \in new : \E v \in vertices : v.id = e.from.id /\ e.to \in Effective(v.policies)
        BY DEF EdgeInv, WorkGranted
    <2> QED
        BY <1>1, <2>1 DEF EdgeInv, EdgesGranted
<1>7. EnrichedWhole'
    <2>1. ASSUME NEW v \in enrich[j].seen, NEW q \in Effective(v.policies)
          PROVE  [from |-> v, to |-> q] \in new
        <3>1. <<v.id, q>> \in enrich[j].work
            BY <1>1, <2>1 DEF EdgeInv, WorkCovers
        <3>2. v \in vertices
            BY DEF EdgeInv, SeenStay
        <3>3. q \in permissions
            BY <1>1, <3>1 DEF EdgeInv, PermissionsThere
        <3> QED
            BY <3>1, <3>2, <3>3
    <2>2. ASSUME NEW k \in Jobs, enrich'[k].pc = "done",
                 NEW v \in enrich[k].seen, NEW q \in Effective(v.policies)
          PROVE  [from |-> v, to |-> q] \in edges'
        <3> HIDE DEF new
        <3>1. CASE k = j
            BY <1>1, <2>1, <3>1
        <3>2. CASE k # j
            <4>1. [from |-> v, to |-> q] \in edges
                BY <1>4, <2>2, <3>2 DEF EdgeInv, EnrichedWhole
            <4> QED
                BY <1>1, <4>1
        <3> QED
            BY <3>1, <3>2
    <2> QED
        BY <1>4, <2>2 DEF EnrichedWhole
<1> QED
    BY <1>1, <1>3, <1>5, <1>6, <1>7, EnrichKeepsFetch DEF EdgeInv

LEMMA EnrichFailsStep ==
    ASSUME EdgeInv, NEW j \in Jobs, EnrichFails(j)
    PROVE  EdgeInv'
<1>1. /\ enrich' = [enrich EXCEPT ![j] = NotEnriching]
      /\ UNCHANGED <<aws, changes, fetch, vertices, permissions, edges>>
    BY DEF EnrichFails
<1>2. NotEnriching = [pc |-> "idle", work |-> {}, seen |-> {}]
    BY DEF NotEnriching
<1>3. EdgeTypeOK'
    BY <1>1, NothingFetched DEF EdgeInv, EdgeTypeOK
<1>4. WorkGranted' /\ SeenStay' /\ WorkCovers' /\ PermissionsThere'
    BY <1>1, <1>2 DEF EdgeInv, EdgeTypeOK, WorkGranted, SeenStay, WorkCovers, PermissionsThere
<1>5. EdgesGranted' /\ EnrichedWhole'
    BY <1>1, <1>2 DEF EdgeInv, EdgeTypeOK, EdgesGranted, EnrichedWhole
<1> QED
    BY <1>1, <1>3, <1>4, <1>5, EnrichKeepsFetch DEF EdgeInv

LEMMA EdgeStep == EdgeInv /\ EdgeNext => EdgeInv'
<1> SUFFICES ASSUME EdgeInv, EdgeNext PROVE EdgeInv'
    OBVIOUS
<1>1. ASSUME NEW p \in Principals, ChangePolicies(p) \/ FetchStep(p) PROVE EdgeInv'
    BY <1>1, ChangeStep, ListStep, FetchPoliciesStep, FetchBoundaryStep, LoadPrincipalStep,
       LoadFailsStep DEF FetchStep
<1>2. ASSUME NEW j \in Jobs, EnrichStep(j) PROVE EdgeInv'
    BY <1>2, ReadPrincipalsStep, LoadPermissionsStep, LoadEdgesStep, EnrichFailsStep
       DEF EnrichStep
<1> QED
    BY <1>1, <1>2 DEF EdgeNext

LEMMA EdgeStutter == EdgeInv /\ UNCHANGED edgeVars => EdgeInv'
<1> SUFFICES ASSUME EdgeInv, UNCHANGED edgeVars PROVE EdgeInv'
    OBVIOUS
<1>1. UNCHANGED <<aws, changes, fetch, vertices, permissions, edges, enrich>>
    BY DEF edgeVars
<1>2. EdgeTypeOK'
    BY <1>1 DEF EdgeInv, EdgeTypeOK
<1>3. FetchBounded' /\ VerticesBounded'
    BY <1>1, EnrichKeepsFetch
<1>4. WorkGranted' /\ SeenStay' /\ WorkCovers' /\ PermissionsThere'
    BY <1>1 DEF EdgeInv, WorkGranted, SeenStay, WorkCovers, PermissionsThere
<1>5. EdgesGranted' /\ EnrichedWhole'
    BY <1>1 DEF EdgeInv, EdgesGranted, EnrichedWhole
<1> QED
    BY <1>2, <1>3, <1>4, <1>5 DEF EdgeInv

\* Nothing is taken away from the graph.
LEMMA GraphGrows ==
    EdgeNext \/ UNCHANGED edgeVars => vertices \subseteq vertices' /\ edges \subseteq edges'
<1>1. ASSUME NEW p \in Principals, ChangePolicies(p) \/ FetchStep(p)
      PROVE  vertices \subseteq vertices' /\ edges \subseteq edges'
    BY <1>1 DEF ChangePolicies, FetchStep, ListRole, ListUser, FetchInline, FetchManaged,
                FetchBoundary, LoadPrincipal, LoadPrincipalFails
<1>2. ASSUME NEW j \in Jobs, EnrichStep(j)
      PROVE  vertices \subseteq vertices' /\ edges \subseteq edges'
    BY <1>2 DEF EnrichStep, ReadPrincipals, LoadPermissions, LoadEdges, EnrichFails
<1> QED
    BY <1>1, <1>2 DEF EdgeNext, edgeVars

LEMMA BoundaryLemma == EdgeInv => BoundaryKept
<1> SUFFICES ASSUME EdgeInv, NEW e \in edges,
                    e.from.id \notin Throttled, AlwaysBounded(e.from.id)
             PROVE  \E c \in ConfigsOf[e.from.id] : e.to \in Granted(c.boundary)
    BY DEF BoundaryKept
<1>1. PICK v \in vertices : v.id = e.from.id /\ e.to \in Effective(v.policies)
    BY DEF EdgeInv, EdgesGranted
<1>2. PICK c \in ConfigsOf[v.id] : v.policies.boundary = c.boundary /\ v.policies.boundary # {}
    BY <1>1 DEF EdgeInv, VerticesBounded
<1>3. e.to \in Granted(v.policies.boundary)
    BY <1>1, <1>2 DEF Effective
<1> QED
    BY <1>1, <1>2, <1>3

-----------------------------------------------------------------------------
(* The inductive invariant of the requests *)

\* What the steps between the question and the answer know.
RequestInv(r) ==
    /\ request[r].kind = "refresh" => request[r].pc # "cache"
    /\ request[r].pc = "permissions" => request[r].held \subseteq PermissionsOf(request[r].id)
    /\ request[r].pc = "score" =>
          /\ request[r].basis # {}
          /\ request[r].basis \subseteq PermissionsOf(request[r].id)
          /\ request[r].kind = "refresh" => request[r].held \subseteq request[r].basis
    /\ request[r].pc = "cache" => request[r].held \subseteq PermissionsOf(request[r].id)

RiskInv ==
    /\ TypeOK
    /\ AssessmentsHold
    /\ RefreshFresh
    /\ \A r \in Requests : RequestInv(r)

LEMMA PermissionsTyped ==
    ASSUME EdgeTypeOK, NEW p
    PROVE  PermissionsOf(p) \subseteq Permissions
BY DEF EdgeTypeOK, Edge, PermissionsOf

LEMMA PermissionsGrow ==
    ASSUME edges \subseteq edges', NEW p
    PROVE  PermissionsOf(p) \subseteq PermissionsOf(p)'
BY DEF PermissionsOf

LEMMA PermissionsStay ==
    ASSUME UNCHANGED edges, NEW p
    PROVE  PermissionsOf(p)' = PermissionsOf(p)
BY DEF PermissionsOf

LEMMA NoRequestTyped == NoRequest \in Request
BY DEF NoRequest, Request

LEMMA InitInv == Init => EdgeInv /\ RiskInv
<1> SUFFICES ASSUME Init PROVE EdgeInv /\ RiskInv
    OBVIOUS
<1>1. EdgeInv
    BY EdgeInitInv DEF Init
<1>2. TypeOK
    BY <1>1, NoRequestTyped DEF Init, EdgeInv, TypeOK, NoRequest
<1>3. AssessmentsHold /\ RefreshFresh /\ \A r \in Requests : RequestInv(r)
    BY DEF Init, AssessmentsHold, RefreshFresh, RequestInv, NoRequest
<1> QED
    BY <1>1, <1>2, <1>3 DEF RiskInv

\* The graph grows under the requests.
LEMMA RiskGraphStep ==
    ASSUME EdgeInv, EdgeInv', RiskInv, EdgeNext \/ UNCHANGED edgeVars, UNCHANGED riskVars
    PROVE  RiskInv'
<1>1. vertices \subseteq vertices' /\ edges \subseteq edges'
    BY GraphGrows
<1>2. risk' = risk /\ request' = request
    BY DEF riskVars
<1>3. \A p : PermissionsOf(p) \subseteq PermissionsOf(p)'
    BY <1>1, PermissionsGrow
<1>4. TypeOK'
    BY <1>1, <1>2 DEF RiskInv, TypeOK, EdgeInv
<1>5. AssessmentsHold' /\ RefreshFresh'
    BY <1>2, <1>3 DEF RiskInv, AssessmentsHold, RefreshFresh
<1>6. \A r \in Requests : RequestInv(r)'
    BY <1>2, <1>3 DEF RiskInv, RequestInv
<1> QED
    BY <1>4, <1>5, <1>6 DEF RiskInv

\* A step of one request that keeps no assessment.
LEMMA RequestOnly ==
    ASSUME RiskInv, UNCHANGED <<edgeVars, risk>>,
           NEW r \in Requests, NEW q \in Request,
           request' = [request EXCEPT ![r] = q],
           q.pc # "idle" => q.id \in Principals,
           q.pc = "answered" => /\ q.basis \subseteq PermissionsOf(q.id)
                                /\ q.basis # {}
                                /\ q.kind = "refresh" => q.held \subseteq q.basis,
           q.kind = "refresh" => q.pc # "cache",
           q.pc \in {"permissions", "cache"} => q.held \subseteq PermissionsOf(q.id),
           q.pc = "score" => /\ q.basis # {}
                             /\ q.basis \subseteq PermissionsOf(q.id)
                             /\ q.kind = "refresh" => q.held \subseteq q.basis
    PROVE  RiskInv'
<1>1. UNCHANGED <<aws, changes, fetch, vertices, permissions, edges, enrich, risk>>
    BY DEF edgeVars
<1>2. \A p : PermissionsOf(p)' = PermissionsOf(p)
    BY <1>1, PermissionsStay
<1>3. /\ request'[r] = q
      /\ \A k \in Requests : k # r => request'[k] = request[k]
    BY DEF RiskInv, TypeOK
<1>4. TypeOK'
    <2>1. EdgeTypeOK'
        BY <1>1 DEF RiskInv, TypeOK, EdgeTypeOK
    <2>2. request' \in [Requests -> Request]
        BY DEF RiskInv, TypeOK
    <2> QED
        BY <1>1, <1>3, <2>1, <2>2 DEF RiskInv, TypeOK
<1>5. AssessmentsHold' /\ RefreshFresh'
    BY <1>1, <1>2, <1>3 DEF RiskInv, AssessmentsHold, RefreshFresh
<1>6. \A k \in Requests : RequestInv(k)'
    BY <1>2, <1>3 DEF RiskInv, RequestInv
<1> QED
    BY <1>4, <1>5, <1>6 DEF RiskInv

LEMMA AskStep ==
    ASSUME RiskInv, NEW r \in Requests, NEW p \in Principals, AskScore(r, p) \/ AskRefresh(r, p)
    PROVE  RiskInv'
<1>1. PermissionsOf(p) \subseteq Permissions
    BY PermissionsTyped DEF RiskInv, TypeOK
<1>2. CASE AskScore(r, p)
    <2> DEFINE q == Asked("score", p, "cache")
    <2>1. q \in Request /\ q.pc = "cache" /\ q.id = p /\ q.held = PermissionsOf(p)
              /\ q.kind = "score"
        BY <1>1 DEF Asked, Request
    <2> QED
        BY <1>2, <2>1, RequestOnly DEF AskScore
<1>3. CASE AskRefresh(r, p)
    <2> DEFINE q == Asked("refresh", p, "permissions")
    <2>1. q \in Request /\ q.pc = "permissions" /\ q.id = p /\ q.held = PermissionsOf(p)
        BY <1>1 DEF Asked, Request
    <2> QED
        BY <1>3, <2>1, RequestOnly DEF AskRefresh
<1> QED
    BY <1>2, <1>3

LEMMA ForgetStep ==
    ASSUME RiskInv, NEW r \in Requests, FindNoPermissions(r) \/ RequestFails(r)
    PROVE  RiskInv'
<1>1. NoRequest.pc = "idle" /\ NoRequest.kind = "none"
    BY DEF NoRequest
<1> QED
    BY <1>1, NoRequestTyped, RequestOnly DEF FindNoPermissions, RequestFails

LEMMA ReadCacheStep ==
    ASSUME RiskInv, NEW r \in Requests, ReadCache(r)
    PROVE  RiskInv'
<1>1. PICK c \in risk :
          /\ c.vertex.id = request[r].id
          /\ request' = [request EXCEPT ![r] =
                                         [request[r] EXCEPT !.pc = "answered", !.basis = c.basis]]
    BY DEF ReadCache
<1>2. request[r] \in Request /\ request[r].pc = "cache" /\ c \in Assessment
    BY DEF RiskInv, TypeOK, ReadCache
<1> DEFINE q == [request[r] EXCEPT !.pc = "answered", !.basis = c.basis]
<1>3. request' = [request EXCEPT ![r] = q]
    BY <1>1, <1>2 DEF RiskInv, TypeOK
<1>4. /\ q \in Request
      /\ q.pc = "answered" /\ q.basis = c.basis
      /\ q.id = request[r].id /\ q.kind = request[r].kind
    BY <1>2 DEF Request, Assessment
<1>5. request[r].kind # "refresh" /\ request[r].id \in Principals
    BY <1>2 DEF RiskInv, RequestInv, TypeOK
<1>6. c.basis \subseteq PermissionsOf(q.id) /\ c.basis # {}
    BY <1>1, <1>4 DEF RiskInv, AssessmentsHold
<1> HIDE DEF q
<1> QED
    BY <1>3, <1>4, <1>5, <1>6, RequestOnly DEF ReadCache

LEMMA MissCacheStep ==
    ASSUME RiskInv, NEW r \in Requests, MissCache(r)
    PROVE  RiskInv'
<1>1. request[r] \in Request /\ request[r].pc = "cache"
    BY DEF RiskInv, TypeOK, MissCache
<1> DEFINE q == [request[r] EXCEPT !.pc = "permissions"]
<1>2. request' = [request EXCEPT ![r] = q]
    BY <1>1 DEF RiskInv, TypeOK, MissCache
<1>3. /\ q \in Request
      /\ q.pc = "permissions" /\ q.held = request[r].held
      /\ q.id = request[r].id
    BY <1>1 DEF Request
<1>4. request[r].held \subseteq PermissionsOf(request[r].id) /\ request[r].id \in Principals
    BY <1>1 DEF RiskInv, RequestInv, TypeOK
<1> HIDE DEF q
<1> QED
    BY <1>2, <1>3, <1>4, RequestOnly DEF MissCache

LEMMA ReadPermissionsStep ==
    ASSUME RiskInv, NEW r \in Requests, ReadPermissions(r)
    PROVE  RiskInv'
<1> DEFINE had == PermissionsOf(request[r].id)
           q == [request[r] EXCEPT !.pc = "score", !.basis = had]
<1>1. request[r] \in Request /\ request[r].pc = "permissions"
    BY DEF RiskInv, TypeOK, ReadPermissions
<1>2. had \subseteq Permissions /\ had # {}
    BY PermissionsTyped DEF RiskInv, TypeOK, ReadPermissions
<1> HIDE DEF had
<1>3. request' = [request EXCEPT ![r] = q]
    BY <1>1 DEF RiskInv, TypeOK, ReadPermissions, had
<1>4. /\ q \in Request
      /\ q.pc = "score" /\ q.basis = had /\ q.held = request[r].held
      /\ q.id = request[r].id
    BY <1>1, <1>2 DEF Request
<1>5. request[r].held \subseteq had /\ request[r].id \in Principals
    BY <1>1 DEF RiskInv, RequestInv, TypeOK, had
<1>6. q.basis \subseteq PermissionsOf(q.id)
    BY <1>4 DEF had
<1> HIDE DEF q
<1> QED
    BY <1>2, <1>3, <1>4, <1>5, <1>6, RequestOnly DEF ReadPermissions

LEMMA AnsweredRequest ==
    ASSUME RiskInv, NEW r \in Requests, request[r].pc = "score"
    PROVE  \E q \in Request :
               /\ [request EXCEPT ![r].pc = "answered"] = [request EXCEPT ![r] = q]
               /\ q.pc = "answered"
               /\ q.id = request[r].id /\ q.id \in Principals
               /\ q.basis = request[r].basis
               /\ q.basis # {} /\ q.basis \subseteq PermissionsOf(q.id)
               /\ q.kind = "refresh" => q.held \subseteq q.basis
<1> DEFINE q == [request[r] EXCEPT !.pc = "answered"]
<1>1. request[r] \in Request
    BY DEF RiskInv, TypeOK
<1>2. [request EXCEPT ![r].pc = "answered"] = [request EXCEPT ![r] = q]
    BY <1>1 DEF RiskInv, TypeOK
<1>3. /\ q \in Request /\ q.pc = "answered" /\ q.kind = request[r].kind
      /\ q.basis = request[r].basis /\ q.held = request[r].held /\ q.id = request[r].id
    BY <1>1 DEF Request
<1>4. /\ request[r].id \in Principals
      /\ request[r].basis # {} /\ request[r].basis \subseteq PermissionsOf(request[r].id)
      /\ request[r].kind = "refresh" => request[r].held \subseteq request[r].basis
    BY DEF RiskInv, RequestInv, TypeOK
<1> HIDE DEF q
<1> QED
    BY <1>2, <1>3, <1>4

LEMMA AnswerOnlyStep ==
    ASSUME RiskInv, NEW r \in Requests, AnswerOnly(r)
    PROVE  RiskInv'
<1>1. PICK q \in Request :
          /\ [request EXCEPT ![r].pc = "answered"] = [request EXCEPT ![r] = q]
          /\ q.pc = "answered" /\ q.id \in Principals
          /\ q.basis # {} /\ q.basis \subseteq PermissionsOf(q.id)
          /\ q.kind = "refresh" => q.held \subseteq q.basis
    BY AnsweredRequest DEF AnswerOnly
<1> QED
    BY <1>1, RequestOnly DEF AnswerOnly

LEMMA KeepAndAnswerStep ==
    ASSUME RiskInv, NEW r \in Requests, KeepAndAnswer(r)
    PROVE  RiskInv'
<1> DEFINE id == request[r].id
           basis == request[r].basis
           news == [vertex : {v \in vertices : v.id = id}, basis : {basis}]
           olds == {c \in risk : c.vertex.id # id}
<1>1. PICK q \in Request :
          /\ [request EXCEPT ![r].pc = "answered"] = [request EXCEPT ![r] = q]
          /\ q.pc = "answered" /\ q.id = id /\ id \in Principals /\ q.basis = basis
          /\ basis # {} /\ basis \subseteq PermissionsOf(id)
          /\ q.kind = "refresh" => q.held \subseteq q.basis
    BY AnsweredRequest DEF KeepAndAnswer
<1>2. basis \subseteq Permissions
    BY DEF RiskInv, TypeOK, Request
<1> HIDE DEF basis, id
<1>3. risk' = olds \cup news
    BY DEF KeepAndAnswer, Kept, basis, id
<1>4. /\ request' = [request EXCEPT ![r] = q]
      /\ UNCHANGED <<aws, changes, fetch, vertices, permissions, edges, enrich>>
    BY <1>1 DEF KeepAndAnswer, edgeVars
<1>5. /\ request'[r] = q
      /\ \A k \in Requests : k # r => request'[k] = request[k]
    BY <1>4 DEF RiskInv, TypeOK
<1>6. \A p : PermissionsOf(p)' = PermissionsOf(p)
    BY <1>4, PermissionsStay
<1>7. \A c \in news : /\ c.vertex \in vertices /\ c.vertex.id = id /\ c.basis = basis
                     /\ c = [vertex |-> c.vertex, basis |-> c.basis]
    OBVIOUS
<1>8. news \subseteq Assessment
    BY <1>2 DEF RiskInv, TypeOK, EdgeTypeOK, Assessment
<1> HIDE DEF news
<1>9. TypeOK'
    <2>1. EdgeTypeOK'
        BY <1>4 DEF RiskInv, TypeOK, EdgeTypeOK
    <2>2. request' \in [Requests -> Request]
        BY <1>4 DEF RiskInv, TypeOK
    <2>3. \A k \in Requests : request'[k].pc # "idle" => request'[k].id \in Principals
        BY <1>1, <1>5 DEF RiskInv, TypeOK
    <2>4. risk' \subseteq Assessment /\ \A c \in risk' : c.vertex \in vertices'
        BY <1>3, <1>4, <1>7, <1>8 DEF RiskInv, TypeOK
    <2>5. \A c, d \in risk' : c.vertex = d.vertex => c = d
        BY <1>3, <1>7 DEF RiskInv, TypeOK
    <2> QED
        BY <2>1, <2>2, <2>3, <2>4, <2>5 DEF TypeOK
<1>10. AssessmentsHold'
    BY <1>1, <1>3, <1>5, <1>6, <1>7 DEF RiskInv, AssessmentsHold
<1>11. RefreshFresh'
    BY <1>1, <1>5 DEF RiskInv, RefreshFresh
<1>12. \A k \in Requests : RequestInv(k)'
    BY <1>1, <1>5, <1>6 DEF RiskInv, RequestInv
<1> QED
    BY <1>9, <1>10, <1>11, <1>12 DEF RiskInv

LEMMA NextInv == EdgeInv /\ RiskInv /\ [Next]_vars => (EdgeInv /\ RiskInv)'
<1> SUFFICES ASSUME EdgeInv, RiskInv, [Next]_vars PROVE EdgeInv' /\ RiskInv'
    OBVIOUS
<1>1. CASE EdgeNext /\ UNCHANGED riskVars
    <2>1. EdgeInv'
        BY <1>1, EdgeStep
    <2> QED
        BY <1>1, <2>1, RiskGraphStep
<1>2. ASSUME NEW r \in Requests, RequestStep(r)
      PROVE  EdgeInv' /\ RiskInv'
    <2>1. UNCHANGED edgeVars
        BY <1>2 DEF RequestStep, AskScore, AskRefresh, ReadCache, MissCache, ReadPermissions,
                    FindNoPermissions, KeepAndAnswer, AnswerOnly, RequestFails
    <2>2. EdgeInv'
        BY <2>1, EdgeStutter
    <2>3. RiskInv'
        BY <1>2, AskStep, ReadCacheStep, MissCacheStep, ReadPermissionsStep, ForgetStep,
           KeepAndAnswerStep, AnswerOnlyStep DEF RequestStep
    <2> QED
        BY <2>2, <2>3
<1>3. CASE UNCHANGED vars
    <2>1. UNCHANGED edgeVars /\ UNCHANGED riskVars
        BY <1>3 DEF vars
    <2>2. EdgeInv'
        BY <2>1, EdgeStutter
    <2> QED
        BY <2>1, <2>2, RiskGraphStep
<1> QED
    BY <1>1, <1>2, <1>3 DEF Next

-----------------------------------------------------------------------------
(* Theorems *)

THEOREM InvariantHolds == Spec => [](EdgeInv /\ RiskInv)
<1> QED
    BY InitInv, NextInv, PTL DEF Spec

\* The graph, the assessments and the requests keep their types, whatever AWS has, however
\* many jobs and requests run and whatever fails.
THEOREM TypeCorrect == Spec => []TypeOK
<1>1. EdgeInv /\ RiskInv => TypeOK
    BY DEF RiskInv
<1> QED
    BY <1>1, InvariantHolds, PTL

\* Every permission edge of a principal is granted by the policies of one of its nodes.
THEOREM EdgesAlwaysGranted == Spec => []EdgesGranted
<1>1. EdgeInv /\ RiskInv => EdgesGranted
    BY DEF EdgeInv
<1> QED
    BY <1>1, InvariantHolds, PTL

\* What an enricher has read it has turned into edges when it returns Ok.
THEOREM AlwaysEnrichedWhole == Spec => []EnrichedWhole
<1>1. EdgeInv /\ RiskInv => EnrichedWhole
    BY DEF EdgeInv
<1> QED
    BY <1>1, InvariantHolds, PTL

\* A principal with a boundary at all times, about whom no call fails, has no permission
\* outside its boundaries.
THEOREM BoundaryAlwaysKept == Spec => []BoundaryKept
<1>1. EdgeInv /\ RiskInv => BoundaryKept
    BY BoundaryLemma
<1> QED
    BY <1>1, InvariantHolds, PTL

\* Assessments rest on permissions that the principal has in the graph.
THEOREM AssessmentsAlwaysHold == Spec => []AssessmentsHold
<1>1. EdgeInv /\ RiskInv => AssessmentsHold
    BY DEF RiskInv
<1> QED
    BY <1>1, InvariantHolds, PTL

\* A refreshed score covers the permissions of the time it was asked for.
THEOREM RefreshAlwaysFresh == Spec => []RefreshFresh
<1>1. EdgeInv /\ RiskInv => RefreshFresh
    BY DEF RiskInv
<1> QED
    BY <1>1, InvariantHolds, PTL

LEMMA OnlyLoadLoads ==
    ASSUME EdgeInv, EdgeNext, NEW p \in Principals,
           fetch[p].pc = "load", fetch'[p].pc = "loaded"
    PROVE  LoadPrincipal(p)
<1>1. fetch \in [Principals -> Fetch] /\ fetch[p].pc # "loaded"
    BY DEF EdgeInv, EdgeTypeOK
<1>2. fetch'[p].pc # fetch[p].pc
    BY <1>1
<1>3. PICK o \in Principals : FetchStep(o)
    <2>1. ASSUME NEW j \in Jobs, EnrichStep(j) PROVE fetch' = fetch
        BY <2>1 DEF EnrichStep, ReadPrincipals, LoadPermissions, LoadEdges, EnrichFails
    <2>2. ASSUME NEW o \in Principals, ChangePolicies(o) PROVE fetch' = fetch
        BY <2>2 DEF ChangePolicies
    <2> QED
        BY <1>2, <2>1, <2>2 DEF EdgeNext
<1>4. o = p
    BY <1>1, <1>2, <1>3 DEF FetchStep, ListRole, ListUser, FetchInline, FetchManaged,
                            FetchBoundary, LoadPrincipal, LoadPrincipalFails
<1>5. ~LoadPrincipalFails(p)
    BY <1>1 DEF LoadPrincipalFails, NotFetching
<1> QED
    BY <1>3, <1>4, <1>5 DEF FetchStep, ListRole, ListUser, FetchInline, FetchManaged,
                            FetchBoundary

LEMMA LoadShowsStep ==
    ASSUME EdgeInv, [Next]_vars, NEW p \in Principals,
           fetch[p].pc = "load", fetch'[p].pc = "loaded", fetch[p].policies.boundary # {}
    PROVE  Effective(fetch[p].policies) \subseteq Shown(p)'
<1>1. EdgeNext
    <2>1. fetch' # fetch
        OBVIOUS
    <2>2. ASSUME NEW r \in Requests, RequestStep(r) PROVE fetch' = fetch
        BY <2>2 DEF RequestStep, AskScore, AskRefresh, ReadCache, MissCache, ReadPermissions,
                    FindNoPermissions, KeepAndAnswer, AnswerOnly, RequestFails, edgeVars
    <2> QED
        BY <2>1, <2>2 DEF Next, vars, edgeVars
<1>2. LoadPrincipal(p)
    BY <1>1, OnlyLoadLoads
<1>3. PICK v \in vertices' : v.id = p /\ Effective(v.policies) = Effective(fetch[p].policies)
    <2>1. CASE \E v \in vertices : Merges(v, p, fetch[p].policies)
        <3>1. PICK v \in vertices : Merges(v, p, fetch[p].policies)
            BY <2>1
        <3>2. /\ v.policies.inline = fetch[p].policies.inline
              /\ v.policies.managed = fetch[p].policies.managed
              /\ v.policies.boundary = fetch[p].policies.boundary
            BY <3>1 DEF Merges
        <3>3. Effective(v.policies) = Effective(fetch[p].policies)
            BY <3>2 DEF Effective
        <3> QED
            BY <1>2, <3>1, <3>3 DEF LoadPrincipal, Merges
    <2>2. CASE ~ \E v \in vertices : Merges(v, p, fetch[p].policies)
        <3>1. [id |-> p, policies |-> fetch[p].policies] \in vertices'
            BY <1>2, <2>2 DEF LoadPrincipal
        <3> QED
            BY <3>1
    <2> QED
        BY <2>1, <2>2
<1> QED
    BY <1>3 DEF Shown

\* The load of a principal with a boundary leaves nodes that show what its policies grant.
THEOREM LoadAlwaysShowsBounded == Spec => LoadShows
<1>1. EdgeInv /\ [Next]_vars =>
          [\A p \in Principals :
              fetch[p].pc = "load" /\ fetch'[p].pc = "loaded" /\ fetch[p].policies.boundary # {} =>
                  Effective(fetch[p].policies) \subseteq Shown(p)']_edgeVars
    BY LoadShowsStep
<1>2. EdgeInv /\ RiskInv => EdgeInv
    OBVIOUS
<1> QED
    BY <1>1, <1>2, InvariantHolds, PTL DEF Spec, LoadShows

=============================================================================
