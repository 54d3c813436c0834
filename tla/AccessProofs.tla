---------------------------- MODULE AccessProofs ----------------------------
(***************************************************************************)
(* Proofs about AccessRisks, for any enrichers, policies, principals and   *)
(* bounds.  Every enricher makes its loads of nodes before its loads of    *)
(* edges, so what a load has joined stays joined while the run goes on:    *)
(* the loads that a run has passed are settled, and what the reports say   *)
(* follows from that.                                                      *)
(***************************************************************************)
EXTENDS AccessRisks, TLAPS

-----------------------------------------------------------------------------
(* Loads *)

\* Every node has a vertex with all its properties.
Merged(vs, new) ==
    \A n \in new : \E v \in vs : v.label = n.label /\ v.id = n.id /\ n.attrs \subseteq v.attrs

LEMMA MergeHolds ==
    ASSUME NEW vs, NEW new
    PROVE  vs \subseteq Merge(vs, new) /\ Merged(Merge(vs, new), new)
BY DEF Merge, Merged

LEMMA MergedStays ==
    ASSUME NEW few, NEW many, few \subseteq many, NEW new, Merged(few, new)
    PROVE  Merged(many, new)
BY DEF Merged

\* An edge of a load joins two vertices.
LEMMA JoinHolds ==
    ASSUME NEW vs, NEW label, NEW pairs, NEW a \in vs, NEW b \in vs, <<a.id, b.id>> \in pairs
    PROVE  [label |-> label, from |-> a, to |-> b] \in Join(vs, label, pairs)
<1>1. PICK t : t = <<a, b>>
  OBVIOUS
<1>2. t \in {e \in vs \X vs : <<e[1].id, e[2].id>> \in pairs} /\ t[1] = a /\ t[2] = b
  BY <1>1
<1>3. [label |-> label, from |-> t[1], to |-> t[2]] \in Join(vs, label, pairs)
  BY <1>2 DEF Join
<1> QED BY <1>2, <1>3

LEMMA JoinOnly ==
    ASSUME NEW vs, NEW label, NEW pairs, NEW e \in Join(vs, label, pairs)
    PROVE  /\ e.label = label /\ e.from \in vs /\ e.to \in vs /\ <<e.from.id, e.to.id>> \in pairs
           /\ e = [label |-> label, from |-> e.from, to |-> e.to]
<1>1. PICK t \in {t \in vs \X vs : <<t[1].id, t[2].id>> \in pairs} :
         e = [label |-> label, from |-> t[1], to |-> t[2]]
  BY DEF Join
<1>2. t[1] \in vs /\ t[2] \in vs /\ <<t[1].id, t[2].id>> \in pairs
  OBVIOUS
<1>3. e.label = label /\ e.from = t[1] /\ e.to = t[2]
  BY <1>1
<1> QED BY <1>1, <1>2, <1>3

LEMMA JoinNothing ==
    ASSUME NEW vs, NEW label
    PROVE  Join(vs, label, {}) = {}
BY DEF Join

LEMMA MergeNothing ==
    ASSUME NEW vs
    PROVE  Merge(vs, {}) = vs
BY DEF Merge

\* No load of edges comes before a load of nodes, and none is both.
NodesFirst(loads) ==
    \A i, j \in DOMAIN loads : i =< j /\ loads[j].new # {} => loads[i].pairs = {}

\* Grants of use are loaded by none of the loads but one.
GrantsOnlyAt(loads, n) == \A i \in DOMAIN loads \ {n} : loads[i].label # "KmsGrantable"

LEMMA FirstNodesThenEdges ==
    ASSUME NEW loads, NEW n \in Nat, DOMAIN loads \subseteq Nat,
           \A i \in DOMAIN loads : IF i =< n THEN loads[i].pairs = {} ELSE loads[i].new = {}
    PROVE  NodesFirst(loads)
BY DEF NodesFirst

LEMMA LoadKinds ==
    /\ \A new : /\ Nodes(new).pairs = {} /\ Nodes(new).new = new /\ ~Nodes(new).lenient
                /\ LenientNodes(new).pairs = {} /\ LenientNodes(new).lenient
    /\ \A label, pairs : /\ Edges(label, pairs).new = {} /\ Edges(label, pairs).pairs = pairs
                         /\ ~Edges(label, pairs).lenient
BY DEF Nodes, LenientNodes, Edges

LEMMA IamShape ==
    ASSUME NEW got, Service = "iam"
    PROVE  /\ NodesFirst(Loads(got)) /\ GrantsOnlyAt(Loads(got), 0)
           /\ DOMAIN Loads(got) = 1..5 /\ Len(Loads(got)) = 5
           /\ Loads(got)[3] = Nodes(ProviderVertices(got))
           /\ Loads(got)[4] = Edges("HasOidcProvider", {<<Account, v.id>> : v \in ProviderVertices(got)})
<1>1. PICK loads : loads = Loads(got)
  OBVIOUS
<1> DEFINE a == {SourceVertex(p) : p \in Sources(got)}
           b == ProviderVertices(got)
           c == {<<Account, v.id>> : v \in ProviderVertices(got)}
           d == UNION {{<<p, t.role>> : p \in t.statement.sources} : t \in Trusts(got)}
<1>2. loads = <<LenientNodes(a), LenientNodes({Vertex("Account", Account, {})}), Nodes(b),
                        Edges("HasOidcProvider", c), Edges("CanAssume", d)>>
  BY <1>1 DEF Loads, IamLoads
<1> HIDE DEF a, b, c, d
<1>3. DOMAIN loads = 1..5 /\ Len(loads) = 5
  BY <1>2
<1>4. /\ loads[1].pairs = {} /\ loads[2].pairs = {}
      /\ loads[3].pairs = {} /\ loads[4].new = {}
      /\ loads[5].new = {}
  BY <1>2, LoadKinds
<1>5. NodesFirst(loads)
  BY <1>3, <1>4, FirstNodesThenEdges
<1>6. /\ loads[1].label # "KmsGrantable"
      /\ loads[2].label # "KmsGrantable"
      /\ loads[3].label # "KmsGrantable"
      /\ loads[4].label # "KmsGrantable"
      /\ loads[5].label # "KmsGrantable"
  BY <1>2 DEF LenientNodes, Nodes, Edges
<1>7. GrantsOnlyAt(loads, 0)
  BY <1>3, <1>6 DEF GrantsOnlyAt
<1> QED BY <1>1, <1>2, <1>3, <1>5, <1>7 DEF b, c

LEMMA Ec2Shape ==
    ASSUME NEW got, Service = "ec2"
    PROVE  /\ NodesFirst(Loads(got)) /\ GrantsOnlyAt(Loads(got), 0)
           /\ DOMAIN Loads(got) = 1..1 /\ Len(Loads(got)) = 1
<1>1. Loads(got) = Ec2Loads(got)
  BY DEF Loads
<1> DEFINE a == UNION {{<<i, g>> : g \in GroupsOf[i]} : i \in Found(got)}
<1>2. Ec2Loads(got) = <<Edges("HasSecurityGroup", a)>>
  BY DEF Ec2Loads
<1> HIDE DEF a
<1> QED BY <1>1, <1>2 DEF NodesFirst, GrantsOnlyAt, Edges

LEMMA S3Shape ==
    ASSUME NEW got, Service = "s3"
    PROVE  /\ NodesFirst(Loads(got)) /\ GrantsOnlyAt(Loads(got), 0)
           /\ DOMAIN Loads(got) = 1..4 /\ Len(Loads(got)) = 4
           /\ Loads(got)[1] = Nodes({Vertex("Bucket", b, {}) : b \in Found(got)})
           /\ Loads(got)[2] = Nodes(PolicyVertices(got))
           /\ Loads(got)[3] = Edges("HasBucketPolicy", PolicyPairs(got))
<1>1. PICK loads : loads = Loads(got)
  OBVIOUS
<1> DEFINE a == {Vertex("Bucket", b, {}) : b \in Found(got)}
           c == PolicyVertices(got)
           d == PolicyPairs(got)
           e == AccessPairs(got)
<1>2. loads = <<Nodes(a), Nodes(c), Edges("HasBucketPolicy", d), Edges("AllowsAccessFrom", e)>>
  BY <1>1 DEF Loads, S3Loads
<1> HIDE DEF a, c, d, e
<1>3. DOMAIN loads = 1..4 /\ Len(loads) = 4
  BY <1>2
<1>4. /\ loads[1].pairs = {} /\ loads[2].pairs = {}
      /\ loads[3].new = {} /\ loads[4].new = {}
  BY <1>2, LoadKinds
<1>5. NodesFirst(loads)
  BY <1>3, <1>4, FirstNodesThenEdges
<1>6. /\ loads[1].label # "KmsGrantable"
      /\ loads[2].label # "KmsGrantable"
      /\ loads[3].label # "KmsGrantable"
      /\ loads[4].label # "KmsGrantable"
  BY <1>2 DEF LenientNodes, Nodes, Edges
<1>7. GrantsOnlyAt(loads, 0)
  BY <1>3, <1>6 DEF GrantsOnlyAt
<1> QED BY <1>1, <1>2, <1>3, <1>5, <1>7 DEF a, c, d

LEMMA KmsShape ==
    ASSUME NEW got, Service = "kms"
    PROVE  /\ NodesFirst(Loads(got)) /\ GrantsOnlyAt(Loads(got), 6)
           /\ DOMAIN Loads(got) = 1..6 /\ Len(Loads(got)) = 6
           /\ Loads(got)[1] = Nodes({Vertex("KmsKey", k, {}) : k \in Found(got)})
           /\ Loads(got)[2] = Nodes(PolicyVertices(got))
           /\ Loads(got)[3] = Nodes(NamedVertices(got))
           /\ Loads(got)[4] = Edges("HasKeyPolicy", PolicyPairs(got))
           /\ Loads(got)[5] = Edges("AllowsAccessFrom", AccessPairs(got))
           /\ Loads(got)[6] = Edges("KmsGrantable", GrantPairs(got))
<1>1. PICK loads : loads = Loads(got)
  OBVIOUS
<1> DEFINE a == {Vertex("KmsKey", k, {}) : k \in Found(got)}
           b == PolicyVertices(got)
           c == NamedVertices(got)
           d == PolicyPairs(got)
           e == AccessPairs(got)
           f == GrantPairs(got)
<1>2. loads = <<Nodes(a), Nodes(b), Nodes(c), Edges("HasKeyPolicy", d),
                        Edges("AllowsAccessFrom", e), Edges("KmsGrantable", f)>>
  BY <1>1 DEF Loads, KmsLoads
<1> HIDE DEF a, b, c, d, e, f
<1>3. DOMAIN loads = 1..6 /\ Len(loads) = 6
  BY <1>2
<1>4. /\ loads[1].pairs = {} /\ loads[2].pairs = {}
      /\ loads[3].pairs = {} /\ loads[4].new = {}
      /\ loads[5].new = {} /\ loads[6].new = {}
  BY <1>2, LoadKinds
<1>5. NodesFirst(loads)
  BY <1>3, <1>4, FirstNodesThenEdges
<1>6. /\ loads[1].label # "KmsGrantable"
      /\ loads[2].label # "KmsGrantable"
      /\ loads[3].label # "KmsGrantable"
      /\ loads[4].label # "KmsGrantable"
      /\ loads[5].label # "KmsGrantable"
  BY <1>2 DEF LenientNodes, Nodes, Edges
<1>7. GrantsOnlyAt(loads, 6)
  BY <1>3, <1>6 DEF GrantsOnlyAt
<1> QED BY <1>1, <1>2, <1>3, <1>5, <1>7 DEF a, b, c, d, e, f

LEMMA SecretShape ==
    ASSUME NEW got, Service = "secretsmanager"
    PROVE  /\ NodesFirst(Loads(got)) /\ GrantsOnlyAt(Loads(got), 0)
           /\ DOMAIN Loads(got) = 1..4 /\ Len(Loads(got)) = 4
           /\ Loads(got)[1] = Nodes({Vertex("Secret", s, {}) : s \in Found(got)})
           /\ Loads(got)[2] = Nodes(NamedVertices(got))
           /\ Loads(got)[3] = Edges("EncryptedBy", {<<s, KmsTarget(KeyOf[s])>> : s \in Found(got)})
           /\ Loads(got)[4] = Edges("AllowsAccessFrom", AccessPairs(got))
<1>1. PICK loads : loads = Loads(got)
  OBVIOUS
<1> DEFINE a == {Vertex("Secret", s, {}) : s \in Found(got)}
           b == NamedVertices(got)
           c == {<<s, KmsTarget(KeyOf[s])>> : s \in Found(got)}
           d == AccessPairs(got)
<1>2. loads = <<Nodes(a), Nodes(b), Edges("EncryptedBy", c), Edges("AllowsAccessFrom", d)>>
  BY <1>1 DEF Loads, SecretLoads
<1> HIDE DEF a, b, c, d
<1>3. DOMAIN loads = 1..4 /\ Len(loads) = 4
  BY <1>2
<1>4. /\ loads[1].pairs = {} /\ loads[2].pairs = {}
      /\ loads[3].new = {} /\ loads[4].new = {}
  BY <1>2, LoadKinds
<1>5. NodesFirst(loads)
  BY <1>3, <1>4, FirstNodesThenEdges
<1>6. /\ loads[1].label # "KmsGrantable"
      /\ loads[2].label # "KmsGrantable"
      /\ loads[3].label # "KmsGrantable"
      /\ loads[4].label # "KmsGrantable"
  BY <1>2 DEF LenientNodes, Nodes, Edges
<1>7. GrantsOnlyAt(loads, 0)
  BY <1>3, <1>6 DEF GrantsOnlyAt
<1> QED BY <1>1, <1>2, <1>3, <1>5, <1>7 DEF a, b, c, d

LEMMA LambdaShape ==
    ASSUME NEW got, Service = "lambda"
    PROVE  /\ NodesFirst(Loads(got)) /\ GrantsOnlyAt(Loads(got), 0)
           /\ DOMAIN Loads(got) = 1..2 /\ Len(Loads(got)) = 2
           /\ Loads(got)[1] = Nodes(NamedVertices(got))
           /\ Loads(got)[2] = Edges("AllowsAccessFrom", AccessPairs(got))
<1>1. PICK loads : loads = Loads(got)
  OBVIOUS
<1> DEFINE a == NamedVertices(got)
           b == AccessPairs(got)
<1>2. loads = <<Nodes(a), Edges("AllowsAccessFrom", b)>>
  BY <1>1 DEF Loads, LambdaLoads
<1> HIDE DEF a, b
<1>3. DOMAIN loads = 1..2 /\ Len(loads) = 2
  BY <1>2
<1>4. /\ loads[1].pairs = {} /\ loads[2].new = {}
  BY <1>2, LoadKinds
<1>5. NodesFirst(loads)
  BY <1>3, <1>4, FirstNodesThenEdges
<1>6. /\ loads[1].label # "KmsGrantable"
      /\ loads[2].label # "KmsGrantable"
  BY <1>2 DEF LenientNodes, Nodes, Edges
<1>7. GrantsOnlyAt(loads, 0)
  BY <1>3, <1>6 DEF GrantsOnlyAt
<1> QED BY <1>1, <1>2, <1>3, <1>5, <1>7 DEF a, b

\* Whichever the service, it loads nodes first.
LEMMA LoadsShape ==
    ASSUME NEW got, Service \in {"iam", "ec2", "s3", "kms", "secretsmanager", "lambda"}
    PROVE  /\ NodesFirst(Loads(got)) /\ Len(Loads(got)) \in Nat /\ DOMAIN Loads(got) = 1..Len(Loads(got))
           /\ GrantsOnlyAt(Loads(got), IF Service = "kms" THEN 6 ELSE 0)
<1>1. CASE Service = "iam"
  <2>1. /\ NodesFirst(Loads(got)) /\ DOMAIN Loads(got) = 1..5 /\ Len(Loads(got)) = 5
        /\ GrantsOnlyAt(Loads(got), 0)
    BY <1>1, IamShape, Zenon
  <2> QED BY <1>1, <2>1
<1>2. CASE Service = "ec2"
  <2>1. /\ NodesFirst(Loads(got)) /\ DOMAIN Loads(got) = 1..1 /\ Len(Loads(got)) = 1
        /\ GrantsOnlyAt(Loads(got), 0)
    BY <1>2, Ec2Shape, Zenon
  <2> QED BY <1>2, <2>1
<1>3. CASE Service = "s3"
  <2>1. /\ NodesFirst(Loads(got)) /\ DOMAIN Loads(got) = 1..4 /\ Len(Loads(got)) = 4
        /\ GrantsOnlyAt(Loads(got), 0)
    BY <1>3, S3Shape, Zenon
  <2> QED BY <1>3, <2>1
<1>4. CASE Service = "kms"
  <2>1. /\ NodesFirst(Loads(got)) /\ DOMAIN Loads(got) = 1..6 /\ Len(Loads(got)) = 6
        /\ GrantsOnlyAt(Loads(got), 6)
    BY <1>4, KmsShape, Zenon
  <2> QED BY <1>4, <2>1
<1>5. CASE Service = "secretsmanager"
  <2>1. /\ NodesFirst(Loads(got)) /\ DOMAIN Loads(got) = 1..4 /\ Len(Loads(got)) = 4
        /\ GrantsOnlyAt(Loads(got), 0)
    BY <1>5, SecretShape, Zenon
  <2> QED BY <1>5, <2>1
<1>6. CASE Service = "lambda"
  <2>1. /\ NodesFirst(Loads(got)) /\ DOMAIN Loads(got) = 1..2 /\ Len(Loads(got)) = 2
        /\ GrantsOnlyAt(Loads(got), 0)
    BY <1>6, LambdaShape, Zenon
  <2> QED BY <1>6, <2>1
<1> QED BY <1>1, <1>2, <1>3, <1>4, <1>5, <1>6

-----------------------------------------------------------------------------
(* The invariant *)

\* The loads' own names for the types of the state, and what is known of the documents read.
TypeInv ==
    /\ turn \in DOMAIN Order /\ step \in Nat \ {0}
    /\ pc = "reading" => step = 1
    /\ DOMAIN aws = AllItems
    /\ \A service \in DOMAIN Items \ {"iam", "ec2"} : \A r \in Items[service] :
          aws[r] \in ResourcePolicies
    /\ todo \subseteq Items[Service] /\ DOMAIN read \subseteq Items[Service]
    /\ Service \notin {"iam", "ec2"} =>
          \A r \in DOMAIN read : read[r] \in ResourcePolicies \cup {"undescribed"}
    /\ Fetched \subseteq vertices

\* The sentinels are there while a run reads and loads.
SentinelsInv ==
    pc \in {"reading", "loading", "ok"} => Merged(vertices, ToSet(Sentinels(Service)))

\* A load that is settled has its nodes in the graph, unless its errors are ignored, and has
\* joined all the vertices that there are.
Settled(load) ==
    /\ ~load.lenient => Merged(vertices, load.new)
    /\ Join(vertices, load.label, load.pairs) \subseteq edges

LoadsInv ==
    /\ pc \in {"loading", "ok"} =>
          \A i \in DOMAIN Loads(read) : i < step => Settled(Loads(read)[i])
    /\ pc = "ok" => step > Len(Loads(read))

AccessInv == TypeInv /\ SentinelsInv /\ LoadsInv /\ GrantableHasAccess

\* The services are those that have loads.
LEMMA ServiceKnown ==
    ASSUME TypeInv
    PROVE  /\ Service \in DOMAIN Items
           /\ Service \in {"iam", "ec2", "s3", "kms", "secretsmanager", "lambda"}
BY EnrichersAssumption DEF TypeInv, Service

\* Whoever may grant use is let in.
LEMMA GrantsAreAccesses ==
    ASSUME NEW got, NEW p, NEW r, <<p, r>> \in GrantPairs(got)
    PROVE  <<r, p>> \in AccessPairs(got)
<1>1. PICK g \in Grants(got) : <<p, r>> \in {<<q, g.item>> : q \in Reached(g.statement)}
  BY DEF GrantPairs
<1>2. p \in Reached(g.statement) /\ r = g.item
  BY <1>1
<1>3. <<r, p>> \in {<<g.item, q>> : q \in Reached(g.statement)}
  BY <1>2
<1> QED BY <1>3 DEF AccessPairs

\* What is to be loaded depends on the service and on what was read.
LEMMA LoadsSame ==
    ASSUME turn' = turn, read' = read
    PROVE  Loads(read)' = Loads(read)
BY DEF Loads, Service

LEMMA InvAtFirst == Init => AccessInv
<1> SUFFICES ASSUME Init PROVE AccessInv
  OBVIOUS
<1>1. turn \in DOMAIN Order
  <2>1. Order \in Seq(DOMAIN Items) /\ Order # << >>
    BY EnrichersAssumption
  <2>2. Len(Order) \in Nat \ {0} /\ DOMAIN Order = 1..Len(Order)
    BY <2>1
  <2> QED BY <2>2 DEF Init
<1>2. TypeInv
  <2>1. DOMAIN read = {}
    BY DEF Init
  <2> QED BY <1>1, <2>1, DocumentsAssumption DEF Init, TypeInv
<1>3. SentinelsInv /\ LoadsInv /\ GrantableHasAccess
  BY DEF Init, SentinelsInv, LoadsInv, GrantableHasAccess
<1> QED BY <1>2, <1>3 DEF AccessInv

\* Enrichers begin one after the other.
LEMMA TurnsType ==
    ASSUME TypeInv, NextTurn
    PROVE  turn' \in DOMAIN Order
<1>1. Order \in Seq(DOMAIN Items) /\ Order # << >>
  BY EnrichersAssumption
<1>2. Len(Order) \in Nat \ {0} /\ DOMAIN Order = 1..Len(Order)
  BY <1>1
<1> QED BY <1>2 DEF TypeInv, NextTurn

LEMMA BeginKeeps ==
    ASSUME AccessInv, Begin
    PROVE  AccessInv'
<1> USE DEF AccessInv
<1>1. turn' \in DOMAIN Order
  BY TurnsType DEF Begin
<1>2. vertices \subseteq vertices' /\ Merged(vertices', ToSet(Sentinels(Order[turn'])))
  BY MergeHolds DEF Begin
<1>3. TypeInv'
  <2>1. DOMAIN read' = {}
    BY DEF Begin
  <2> QED BY <1>1, <1>2, <2>1 DEF Begin, TypeInv, Service
<1>4. SentinelsInv'
  BY <1>2 DEF SentinelsInv, Service
<1>5. LoadsInv' /\ GrantableHasAccess'
  BY DEF Begin, LoadsInv, GrantableHasAccess
<1> QED BY <1>3, <1>4, <1>5

LEMMA BeginFailsKeeps ==
    ASSUME AccessInv, BeginFails
    PROVE  AccessInv'
<1> USE DEF AccessInv
<1>1. turn' \in DOMAIN Order
  BY TurnsType DEF BeginFails
<1>2. vertices \subseteq vertices'
  BY MergeHolds DEF BeginFails
<1>3. TypeInv'
  <2>1. DOMAIN read' = {}
    BY DEF BeginFails
  <2> QED BY <1>1, <1>2, <2>1 DEF BeginFails, TypeInv, Service
<1>4. SentinelsInv' /\ LoadsInv' /\ GrantableHasAccess'
  BY DEF BeginFails, SentinelsInv, LoadsInv, GrantableHasAccess
<1> QED BY <1>3, <1>4

\* What a failed call leaves is a policy of none, or an item that is left out.
LEMMA ReadingKeeps ==
    ASSUME AccessInv, NEW r \in todo, ReadItem(r) \/ ReadItemFails(r)
    PROVE  AccessInv'
<1> USE DEF AccessInv
<1>1. /\ pc = "reading" /\ pc' = pc /\ turn' = turn /\ step' = step /\ aws' = aws
      /\ vertices' = vertices /\ edges' = edges /\ todo' = todo \ {r}
  BY DEF ReadItem, ReadItemFails
<1>2. Service' = Service
  BY <1>1 DEF Service
<1>3. PICK document : /\ read' = Reads(r, document)
                      /\ document = aws[r] \/ document \in ReadFailures
  BY DEF ReadItem, ReadItemFails
<1>4. /\ DOMAIN read' = DOMAIN read \cup {r}
      /\ \A q \in DOMAIN read' : read'[q] = document \/ (q \in DOMAIN read /\ read'[q] = read[q])
  <2>1. read' = [q \in DOMAIN read \cup {r} |-> IF q = r THEN document ELSE read[q]]
    BY <1>3 DEF Reads
  <2> QED BY <2>1
<1>5. r \in Items[Service] /\ Service \in DOMAIN Items
  BY ServiceKnown DEF TypeInv
<1>6. Service \notin {"iam", "ec2"} => document \in ResourcePolicies \cup {"undescribed"}
  <2>1. ReadFailures \subseteq {NoPolicy, "undescribed"}
    BY ServiceKnown DEF ReadFailures, KeyFailures, BucketFailures, SecretFailures, FunctionFailures
  <2> QED BY <1>3, <1>5, <2>1 DEF TypeInv, ResourcePolicies
<1>7. TypeInv'
  BY <1>1, <1>2, <1>4, <1>5, <1>6 DEF TypeInv
<1>8. SentinelsInv' /\ LoadsInv' /\ GrantableHasAccess'
  BY <1>1, <1>2 DEF SentinelsInv, LoadsInv, GrantableHasAccess
<1> QED BY <1>7, <1>8

LEMMA ListingKeeps ==
    ASSUME AccessInv, ListFails \/ ListBreaks \/ ReadAll
    PROVE  AccessInv'
<1> USE DEF AccessInv
<1>1. /\ pc = "reading" /\ pc' \in {"failed", "reading", "loading"} /\ turn' = turn /\ step' = step
      /\ aws' = aws /\ vertices' = vertices /\ edges' = edges /\ read' = read /\ todo' \in {{}, todo}
  BY DEF ListFails, ListBreaks, ReadAll
<1>2. Service' = Service
  BY <1>1 DEF Service
<1>3. TypeInv' /\ step' = 1
  BY <1>1, <1>2 DEF TypeInv
<1>4. SentinelsInv' /\ GrantableHasAccess'
  BY <1>1, <1>2 DEF SentinelsInv, GrantableHasAccess
<1>5. LoadsInv'
  <2>1. \A i \in DOMAIN Loads(read) : ~(i < 1)
    <3>1. DOMAIN Loads(read) = 1..Len(Loads(read))
      BY LoadsShape, ServiceKnown
    <3> QED BY <3>1
  <2>2. Loads(read)' = Loads(read)
    BY <1>1, LoadsSame
  <2> QED BY <1>1, <1>3, <2>1, <2>2 DEF LoadsInv
<1> QED BY <1>3, <1>4, <1>5

\* Grants are loaded right after the accesses that they are among.
LEMMA GrantableStays ==
    ASSUME AccessInv, Load
    PROVE  GrantableHasAccess'
<1> USE DEF AccessInv
<1> DEFINE loads == Loads(read)
           load  == loads[step]
<1>1. /\ pc = "loading" /\ step =< Len(loads)
      /\ edges' = edges \cup Join(vertices, load.label, load.pairs)
  BY DEF Load
<1>2. /\ Len(loads) \in Nat /\ DOMAIN loads = 1..Len(loads)
      /\ GrantsOnlyAt(loads, IF Service = "kms" THEN 6 ELSE 0)
  BY LoadsShape, ServiceKnown
<1>3. step \in DOMAIN loads /\ step # 0
  BY <1>1, <1>2 DEF TypeInv
<1> SUFFICES ASSUME NEW e \in edges', e.label = "KmsGrantable"
             PROVE  [label |-> "AllowsAccessFrom", from |-> e.to, to |-> e.from] \in edges'
  BY DEF GrantableHasAccess
<1>4. CASE e \in edges
  BY <1>1, <1>4 DEF GrantableHasAccess
<1>5. CASE e \in Join(vertices, load.label, load.pairs)
  <2>1. /\ load.label = "KmsGrantable" /\ e.from \in vertices /\ e.to \in vertices
        /\ <<e.from.id, e.to.id>> \in load.pairs
    BY <1>5, JoinOnly
  <2>2. Service = "kms" /\ step = 6
    BY <1>2, <1>3, <2>1 DEF GrantsOnlyAt
  <2>3. /\ loads[5] = Edges("AllowsAccessFrom", AccessPairs(read)) /\ DOMAIN loads = 1..6
        /\ loads[6] = Edges("KmsGrantable", GrantPairs(read))
    BY <2>2, KmsShape, Zenon
  <2>4. Join(vertices, "AllowsAccessFrom", AccessPairs(read)) \subseteq edges
    <3>1. 5 \in DOMAIN loads /\ 5 < step
      BY <2>2, <2>3
    <3>2. Settled(loads[5])
      BY <1>1, <3>1 DEF LoadsInv
    <3> QED BY <2>3, <3>2 DEF Settled, Edges
  <2>5. <<e.to.id, e.from.id>> \in AccessPairs(read)
    BY <2>1, <2>2, <2>3, LoadKinds, GrantsAreAccesses
  <2>6. [label |-> "AllowsAccessFrom", from |-> e.to, to |-> e.from]
            \in Join(vertices, "AllowsAccessFrom", AccessPairs(read))
    BY <2>1, <2>5, JoinHolds
  <2> QED BY <1>1, <2>4, <2>6
<1> QED BY <1>1, <1>4, <1>5

\* A load that is made settles itself and leaves the earlier ones settled: if it brings nodes,
\* they have joined nothing yet.
LEMMA LoadKeeps ==
    ASSUME AccessInv, Load
    PROVE  AccessInv'
<1> USE DEF AccessInv
<1> DEFINE loads == Loads(read)
           load  == loads[step]
<1>1. /\ pc = "loading" /\ pc' = pc /\ turn' = turn /\ aws' = aws /\ todo' = todo /\ read' = read
      /\ step' = step + 1 /\ step =< Len(loads)
      /\ vertices' = Merge(vertices, load.new)
      /\ edges' = edges \cup Join(vertices, load.label, load.pairs)
  BY DEF Load
<1>2. Service' = Service /\ Loads(read)' = loads
  BY <1>1, LoadsSame DEF Service
<1>3. NodesFirst(loads) /\ Len(loads) \in Nat /\ DOMAIN loads = 1..Len(loads) /\ step \in DOMAIN loads
  BY <1>1, LoadsShape, ServiceKnown DEF TypeInv
<1>4. vertices \subseteq vertices' /\ Merged(vertices', load.new) /\ edges \subseteq edges'
  BY <1>1, MergeHolds
<1>5. TypeInv'
  BY <1>1, <1>2, <1>4 DEF TypeInv
<1>6. SentinelsInv'
  BY <1>1, <1>2, <1>4, MergedStays DEF SentinelsInv
<1>7. ASSUME NEW i \in DOMAIN loads, i < step + 1
      PROVE  (~loads[i].lenient => Merged(vertices', loads[i].new))
             /\ Join(vertices', loads[i].label, loads[i].pairs) \subseteq edges'
  <2>1. i \in 1..step /\ (load.new # {} => loads[i].pairs = {})
    BY <1>3, <1>7 DEF NodesFirst, TypeInv
  <2>2. CASE i = step
    BY <1>1, <1>4, <2>1, <2>2, JoinNothing, MergeNothing
  <2>3. CASE i < step
    <3>1. Settled(loads[i])
      BY <1>1, <2>3 DEF LoadsInv
    <3>2. CASE load.new = {}
      BY <1>1, <1>4, <3>1, <3>2, MergeNothing DEF Settled
    <3>3. CASE load.new # {}
      BY <1>4, <2>1, <3>1, <3>3, JoinNothing, MergedStays DEF Settled
    <3> QED BY <3>2, <3>3
  <2> QED BY <1>3, <2>1, <2>2, <2>3
<1>8. LoadsInv'
  <2> HIDE DEF loads
  <2> QED BY <1>1, <1>2, <1>7 DEF LoadsInv, Settled
<1>9. GrantableHasAccess'
  BY <1>1, GrantableStays
<1> QED BY <1>5, <1>6, <1>8, <1>9

\* A lenient load that fails may leave some of its nodes.
LEMMA LoadFailsKeeps ==
    ASSUME AccessInv, LoadFails
    PROVE  AccessInv'
<1> USE DEF AccessInv
<1> DEFINE loads == Loads(read)
           load  == loads[step]
<1>1. /\ pc = "loading" /\ turn' = turn /\ aws' = aws /\ todo' = todo /\ read' = read
      /\ step =< Len(loads) /\ edges' = edges
  BY DEF LoadFails
<1>2. Service' = Service /\ Loads(read)' = loads
  BY <1>1, LoadsSame DEF Service
<1>3. NodesFirst(loads) /\ Len(loads) \in Nat /\ DOMAIN loads = 1..Len(loads) /\ step \in DOMAIN loads
  BY <1>1, LoadsShape, ServiceKnown DEF TypeInv
<1>4. CASE load.lenient
  <2>1. PICK some \in SUBSET load.new : some # load.new /\ vertices' = Merge(vertices, some)
    BY <1>4 DEF LoadFails
  <2>2. step' = step + 1 /\ pc' = pc
    BY <1>4 DEF LoadFails
  <2>3. load.new # {} /\ vertices \subseteq vertices'
    BY <2>1, MergeHolds
  <2>4. TypeInv' /\ GrantableHasAccess'
    BY <1>1, <1>2, <2>2, <2>3 DEF TypeInv, GrantableHasAccess
  <2>5. SentinelsInv'
    BY <1>1, <1>2, <2>2, <2>3, MergedStays DEF SentinelsInv
  <2>6. ASSUME NEW i \in DOMAIN loads, i < step + 1
        PROVE  (~loads[i].lenient => Merged(vertices', loads[i].new))
               /\ Join(vertices', loads[i].label, loads[i].pairs) \subseteq edges'
    <3>1. i \in 1..step /\ loads[i].pairs = {}
      BY <1>3, <2>3, <2>6 DEF NodesFirst
    <3>2. CASE i = step
      BY <1>4, <3>1, <3>2, JoinNothing
    <3>3. CASE i < step
      <4>1. Settled(loads[i])
        BY <1>1, <3>3 DEF LoadsInv
      <4> QED BY <2>3, <3>1, <4>1, JoinNothing, MergedStays DEF Settled
    <3> QED BY <1>3, <3>1, <3>2, <3>3
  <2>7. LoadsInv'
    <3> HIDE DEF loads
    <3> QED BY <1>1, <1>2, <2>2, <2>6 DEF LoadsInv, Settled
  <2> QED BY <2>4, <2>5, <2>7
<1>5. CASE ~load.lenient
  <2>1. pc' = "failed" /\ vertices' = vertices /\ step' = step
    BY <1>5 DEF LoadFails
  <2> QED BY <1>1, <1>2, <2>1 DEF TypeInv, SentinelsInv, LoadsInv, GrantableHasAccess
<1> QED BY <1>4, <1>5

LEMMA FinishKeeps ==
    ASSUME AccessInv, Finish
    PROVE  AccessInv'
<1> USE DEF AccessInv
<1>1. /\ pc = "loading" /\ pc' = "ok" /\ step > Len(Loads(read))
      /\ UNCHANGED <<aws, vertices, edges, turn, todo, read, step>>
  BY DEF Finish
<1>2. Service' = Service /\ Loads(read)' = Loads(read)
  BY <1>1, LoadsSame DEF Service
<1>3. TypeInv' /\ SentinelsInv' /\ GrantableHasAccess'
  BY <1>1, <1>2 DEF TypeInv, SentinelsInv, GrantableHasAccess
<1>4. LoadsInv'
  BY <1>1, <1>2 DEF LoadsInv, Settled
<1> QED BY <1>3, <1>4

\* Whoever edits policies touches nothing of the graph or of the run.
LEMMA EditKeeps ==
    ASSUME AccessInv, NEW r \in AllItems, NEW document \in LaterDocuments[r], Edit(r, document)
    PROVE  AccessInv'
<1> USE DEF AccessInv
<1>1. /\ aws' = [aws EXCEPT ![r] = document]
      /\ UNCHANGED <<vertices, edges, pc, turn, todo, read, step>>
  BY DEF Edit
<1>2. Service' = Service /\ Loads(read)' = Loads(read)
  BY <1>1, LoadsSame DEF Service
<1>3. TypeInv'
  <2>1. ASSUME NEW service \in DOMAIN Items \ {"iam", "ec2"}, NEW q \in Items[service]
        PROVE  aws'[q] \in ResourcePolicies
    <3>1. q \in AllItems /\ aws[q] \in ResourcePolicies
      BY <2>1 DEF AllItems, TypeInv
    <3> QED BY <1>1, <3>1, DocumentsAssumption DEF TypeInv
  <2> QED BY <1>1, <1>2, <2>1 DEF TypeInv
<1>4. SentinelsInv' /\ GrantableHasAccess'
  BY <1>1, <1>2 DEF SentinelsInv, GrantableHasAccess
<1>5. LoadsInv'
  BY <1>1, <1>2 DEF LoadsInv, Settled
<1> QED BY <1>3, <1>4, <1>5

LEMMA InvStep == AccessInv /\ [Next]_vars => AccessInv'
<1> SUFFICES ASSUME AccessInv, [Next]_vars PROVE AccessInv'
  OBVIOUS
<1>1. CASE Begin
  BY <1>1, BeginKeeps
<1>2. CASE BeginFails
  BY <1>2, BeginFailsKeeps
<1>3. CASE \E r \in todo : ReadItem(r) \/ ReadItemFails(r)
  BY <1>3, ReadingKeeps
<1>4. CASE ListFails \/ ListBreaks \/ ReadAll
  BY <1>4, ListingKeeps
<1>5. CASE Load
  BY <1>5, LoadKeeps
<1>6. CASE LoadFails
  BY <1>6, LoadFailsKeeps
<1>7. CASE Finish
  BY <1>7, FinishKeeps
<1>8. CASE \E r \in AllItems : \E document \in LaterDocuments[r] : Edit(r, document)
  BY <1>8, EditKeeps
<1>9. CASE UNCHANGED vars
  <2>1. UNCHANGED <<aws, vertices, edges, pc, turn, todo, read, step>>
    BY <1>9 DEF vars
  <2>2. Service' = Service /\ Loads(read)' = Loads(read)
    BY <2>1, LoadsSame DEF Service
  <2>3. TypeInv' /\ SentinelsInv' /\ GrantableHasAccess'
    BY <2>1, <2>2 DEF AccessInv, TypeInv, SentinelsInv, GrantableHasAccess
  <2>4. LoadsInv'
    BY <2>1, <2>2 DEF AccessInv, LoadsInv, Settled
  <2> QED BY <2>3, <2>4 DEF AccessInv
<1> QED BY <1>1, <1>2, <1>3, <1>4, <1>5, <1>6, <1>7, <1>8, <1>9 DEF Next

\* Whatever fails and whoever edits policies meanwhile, the loads that a run has passed are
\* settled, and grants of use are among the accesses.
THEOREM AccessAlwaysSettled == Spec => []AccessInv
BY InvAtFirst, InvStep, PTL DEF Spec

-----------------------------------------------------------------------------
(* What the reports show *)

\* Whoever may grant use of a key is let in, also when an enricher failed half-way (kms.rs:267).
THEOREM GrantersAlwaysLetIn == Spec => []GrantableHasAccess
BY AccessAlwaysSettled, PTL DEF AccessInv

\* When a run has ended well, all its loads are settled.
LEMMA AllSettled ==
    ASSUME AccessInv, pc = "ok", NEW i \in DOMAIN Loads(read)
    PROVE  Settled(Loads(read)[i])
<1>1. DOMAIN Loads(read) = 1..Len(Loads(read)) /\ Len(Loads(read)) \in Nat
  BY LoadsShape, ServiceKnown DEF AccessInv
<1>2. i < step
  BY <1>1 DEF AccessInv, TypeInv, LoadsInv
<1> QED BY <1>2 DEF AccessInv, LoadsInv

\* Two vertices whose ids a load pairs are linked once it is settled.
LEMMA SettledLinks ==
    ASSUME NEW label, NEW pairs, Settled(Edges(label, pairs)),
           NEW a \in vertices, NEW b \in vertices, <<a.id, b.id>> \in pairs
    PROVE  /\ [label |-> label, from |-> a, to |-> b] \in edges
           /\ Linked(label, a.id, b.id)
<1>1. Join(vertices, label, pairs) \subseteq edges
  BY DEF Settled, Edges
<1>2. [label |-> label, from |-> a, to |-> b] \in edges
  BY <1>1, JoinHolds
<1> QED BY <1>2 DEF Linked

\* A statement is paired with each of its principals, or else with everyone.
LEMMA ReachedCovers ==
    ASSUME NEW s, NEW p \in ToSet(s.principals)
    PROVE  p \in Named(s) \/ Anyone \in Reached(s)
BY DEF Named, Reached

LEMMA GrantsFacts ==
    ASSUME NEW got, NEW g \in Grants(got)
    PROVE  /\ g.item \in Found(got) /\ g.statement \in ParseResourcePolicy(got[g.item])
           /\ \A p \in Named(g.statement) : p \in Reached(g.statement) /\ PrincipalVertex(p) \in NamedVertices(got)
           /\ \A p \in Reached(g.statement) :
                 /\ <<g.item, p>> \in AccessPairs(got)
                 /\ AllowsCreateGrant(g.statement) => <<p, g.item>> \in GrantPairs(got)
<1>1. g.item \in Found(got) /\ g.statement \in ParseResourcePolicy(got[g.item])
  <2>1. PICK r \in Found(got) : g \in {[item |-> r, statement |-> s] : s \in ParseResourcePolicy(got[r])}
    BY DEF Grants
  <2> QED BY <2>1
<1>2. \A p \in Named(g.statement) : p \in Reached(g.statement)
  BY DEF Reached
<1>3. ASSUME NEW p \in Named(g.statement) PROVE PrincipalVertex(p) \in NamedVertices(got)
  <2>1. PrincipalVertex(p) \in {PrincipalVertex(q) : q \in Named(g.statement)}
    OBVIOUS
  <2> QED BY <2>1 DEF NamedVertices
<1>4. ASSUME NEW p \in Reached(g.statement) PROVE <<g.item, p>> \in AccessPairs(got)
  <2>1. <<g.item, p>> \in {<<g.item, q>> : q \in Reached(g.statement)}
    OBVIOUS
  <2> QED BY <2>1 DEF AccessPairs
<1>5. ASSUME NEW p \in Reached(g.statement), AllowsCreateGrant(g.statement)
      PROVE  <<p, g.item>> \in GrantPairs(got)
  <2>1. <<p, g.item>> \in {<<q, g.item>> : q \in Reached(g.statement)}
    OBVIOUS
  <2>2. g \in {h \in Grants(got) : AllowsCreateGrant(h.statement)}
    BY <1>5
  <2> QED BY <2>1, <2>2 DEF GrantPairs
<1> QED BY <1>1, <1>2, <1>3, <1>4, <1>5

\* The principals that a settled enricher has named have vertices, and so has everyone.
LEMMA PrincipalsThere ==
    ASSUME AccessInv, pc = "ok", Service \in {"kms", "secretsmanager", "lambda"},
           NEW g \in Grants(read), NEW p \in ToSet(g.statement.principals)
    PROVE  \E q \in {p, Anyone} : q \in Reached(g.statement) /\ \E v \in vertices : v.id = q
<1>1. CASE p \in Named(g.statement)
  <2>1. PrincipalVertex(p) \in NamedVertices(read) /\ p \in Reached(g.statement)
    BY <1>1, GrantsFacts
  <2>2. PrincipalVertex(p).id = p
    BY DEF PrincipalVertex, Vertex
  <2>3. PICK i \in DOMAIN Loads(read) : Loads(read)[i] = Nodes(NamedVertices(read))
    <3>1. CASE Service = "kms"
      <4>1. DOMAIN Loads(read) = 1..6 /\ Loads(read)[3] = Nodes(NamedVertices(read))
        BY <3>1, KmsShape, Zenon
      <4> QED BY <4>1
    <3>2. CASE Service = "secretsmanager"
      <4>1. DOMAIN Loads(read) = 1..4 /\ Loads(read)[2] = Nodes(NamedVertices(read))
        BY <3>2, SecretShape, Zenon
      <4> QED BY <4>1
    <3>3. CASE Service = "lambda"
      <4>1. DOMAIN Loads(read) = 1..2 /\ Loads(read)[1] = Nodes(NamedVertices(read))
        BY <3>3, LambdaShape, Zenon
      <4> QED BY <4>1
    <3> QED BY <3>1, <3>2, <3>3
  <2>4. Merged(vertices, NamedVertices(read))
    BY <2>3, AllSettled, LoadKinds DEF Settled
  <2> QED BY <2>1, <2>2, <2>4 DEF Merged
<1>2. CASE Anyone \in Reached(g.statement)
  <2>1. PICK i \in {1, 2} : i \in DOMAIN Sentinels(Service) /\ Sentinels(Service)[i] = WildcardPrincipal
    BY DEF Sentinels
  <2>2. WildcardPrincipal \in ToSet(Sentinels(Service)) /\ WildcardPrincipal.id = Anyone
    BY <2>1 DEF ToSet, WildcardPrincipal, Vertex
  <2> QED BY <1>2, <2>2 DEF AccessInv, SentinelsInv, Merged
<1> QED BY <1>1, <1>2, ReachedCovers

\* The items of these enrichers have vertices.
LEMMA ItemsThere ==
    ASSUME AccessInv, pc = "ok", Service \in {"kms", "secretsmanager", "lambda"}, NEW r \in Found(read)
    PROVE  \E v \in vertices : v.id = r
<1>1. CASE Service = "kms"
  <2>1. DOMAIN Loads(read) = 1..6 /\ Loads(read)[1] = Nodes({Vertex("KmsKey", k, {}) : k \in Found(read)})
    BY <1>1, KmsShape, Zenon
  <2>2. Merged(vertices, {Vertex("KmsKey", k, {}) : k \in Found(read)})
    BY <2>1, AllSettled, LoadKinds DEF Settled
  <2>3. Vertex("KmsKey", r, {}) \in {Vertex("KmsKey", k, {}) : k \in Found(read)}
    OBVIOUS
  <2> QED BY <2>2, <2>3 DEF Merged, Vertex
<1>2. CASE Service = "secretsmanager"
  <2>1. DOMAIN Loads(read) = 1..4 /\ Loads(read)[1] = Nodes({Vertex("Secret", k, {}) : k \in Found(read)})
    BY <1>2, SecretShape, Zenon
  <2>2. Merged(vertices, {Vertex("Secret", k, {}) : k \in Found(read)})
    BY <2>1, AllSettled, LoadKinds DEF Settled
  <2>3. Vertex("Secret", r, {}) \in {Vertex("Secret", k, {}) : k \in Found(read)}
    OBVIOUS
  <2> QED BY <2>2, <2>3 DEF Merged, Vertex
<1>3. CASE Service = "lambda"
  BY <1>3, FunctionsAssumption, ServiceKnown DEF Found, AccessInv, TypeInv
<1> QED BY <1>1, <1>2, <1>3

LEMMA SettledGrantsShown ==
    ASSUME AccessInv
    PROVE  GrantsShown
<1> SUFFICES ASSUME pc = "ok", Service \in {"kms", "secretsmanager", "lambda"},
                    NEW g \in Grants(read), NEW p \in ToSet(g.statement.principals)
             PROVE  \E q \in {p, Anyone} :
                       /\ Linked("AllowsAccessFrom", g.item, q)
                       /\ Service = "kms" /\ AllowsCreateGrant(g.statement) => Linked("KmsGrantable", q, g.item)
  BY DEF GrantsShown
<1>1. PICK q \in {p, Anyone} : q \in Reached(g.statement) /\ \E v \in vertices : v.id = q
  BY PrincipalsThere
<1>2. PICK w \in vertices : w.id = q
  BY <1>1
<1>3. PICK v \in vertices : v.id = g.item
  BY GrantsFacts, ItemsThere
<1>4. <<g.item, q>> \in AccessPairs(read)
  BY <1>1, GrantsFacts
<1>5. PICK i \in DOMAIN Loads(read) : Loads(read)[i] = Edges("AllowsAccessFrom", AccessPairs(read))
  <2>1. CASE Service = "kms"
    <3>1. DOMAIN Loads(read) = 1..6 /\ Loads(read)[5] = Edges("AllowsAccessFrom", AccessPairs(read))
      BY <2>1, KmsShape, Zenon
    <3> QED BY <3>1
  <2>2. CASE Service = "secretsmanager"
    <3>1. DOMAIN Loads(read) = 1..4 /\ Loads(read)[4] = Edges("AllowsAccessFrom", AccessPairs(read))
      BY <2>2, SecretShape, Zenon
    <3> QED BY <3>1
  <2>3. CASE Service = "lambda"
    <3>1. DOMAIN Loads(read) = 1..2 /\ Loads(read)[2] = Edges("AllowsAccessFrom", AccessPairs(read))
      BY <2>3, LambdaShape, Zenon
    <3> QED BY <3>1
  <2> QED BY <2>1, <2>2, <2>3
<1>6. Linked("AllowsAccessFrom", g.item, q)
  <2>1. Settled(Edges("AllowsAccessFrom", AccessPairs(read)))
    BY <1>5, AllSettled
  <2>2. <<v.id, w.id>> \in AccessPairs(read)
    BY <1>2, <1>3, <1>4
  <2>3. Linked("AllowsAccessFrom", v.id, w.id)
    BY <2>1, <2>2, SettledLinks
  <2> QED BY <1>2, <1>3, <2>3
<1>7. ASSUME Service = "kms", AllowsCreateGrant(g.statement)
      PROVE  Linked("KmsGrantable", q, g.item)
  <2>1. DOMAIN Loads(read) = 1..6 /\ Loads(read)[6] = Edges("KmsGrantable", GrantPairs(read))
    BY <1>7, KmsShape, Zenon
  <2>2. Settled(Edges("KmsGrantable", GrantPairs(read)))
    <3>1. 6 \in DOMAIN Loads(read)
      BY <2>1
    <3> QED BY <2>1, <3>1, AllSettled
  <2>3. <<q, g.item>> \in GrantPairs(read)
    BY <1>1, <1>7, GrantsFacts
  <2>4. <<w.id, v.id>> \in GrantPairs(read)
    BY <1>2, <1>3, <2>3
  <2>5. Linked("KmsGrantable", w.id, v.id)
    BY <2>2, <2>4, SettledLinks
  <2> QED BY <1>2, <1>3, <2>5
<1> QED BY <1>6, <1>7

\* For any policies, however long their lists and whatever fails: what an enricher that ended well
\* has read is shown, everyone standing for those above the cap.
THEOREM GrantsAlwaysShown == Spec => []GrantsShown
BY AccessAlwaysSettled, SettledGrantsShown, PTL

LEMMA SettledSecretsEncrypted ==
    ASSUME AccessInv
    PROVE  SecretsEncrypted
<1> SUFFICES ASSUME pc = "ok", Service = "secretsmanager", NEW s \in Found(read)
             PROVE  /\ KeyOf[s].form \in {"none", "aws alias"} => Linked("EncryptedBy", s, "AwsManagedKey")
                    /\ /\ KeyOf[s].form \in {"arn", "key id"}
                       /\ \E v \in vertices : v.label = "KmsKey" /\ v.id = KeyOf[s].id
                       => Linked("EncryptedBy", s, KeyOf[s].id)
  BY DEF SecretsEncrypted
<1> DEFINE pairs == {<<q, KmsTarget(KeyOf[q])>> : q \in Found(read)}
<1>1. Settled(Edges("EncryptedBy", pairs))
  <2>1. DOMAIN Loads(read) = 1..4 /\ Loads(read)[3] = Edges("EncryptedBy", pairs)
    BY SecretShape, Zenon
  <2>2. 3 \in DOMAIN Loads(read)
    BY <2>1
  <2> QED BY <2>1, <2>2, AllSettled
<1>2. PICK w \in vertices : w.id = s
  BY ItemsThere
<1>3. <<s, KmsTarget(KeyOf[s])>> \in pairs
  OBVIOUS
<1>4. ASSUME NEW v \in vertices, v.id = KmsTarget(KeyOf[s])
      PROVE  Linked("EncryptedBy", s, KmsTarget(KeyOf[s]))
  <2> HIDE DEF pairs
  <2>1. <<w.id, v.id>> \in pairs
    BY <1>2, <1>3, <1>4
  <2> QED BY <1>1, <1>2, <1>4, <2>1, SettledLinks
<1>5. ASSUME KeyOf[s].form \in {"none", "aws alias"}
      PROVE  Linked("EncryptedBy", s, "AwsManagedKey")
  <2>1. KmsTarget(KeyOf[s]) = "AwsManagedKey"
    BY <1>5 DEF KmsTarget
  <2>2. AwsManagedKey \in ToSet(Sentinels(Service))
    <3>1. Sentinels(Service) = <<WildcardPrincipal, AwsManagedKey>>
      BY DEF Sentinels
    <3>2. 2 \in DOMAIN Sentinels(Service) /\ Sentinels(Service)[2] = AwsManagedKey
      BY <3>1
    <3> QED BY <3>2 DEF ToSet
  <2>3. \E v \in vertices : v.id = AwsManagedKey.id
    BY <2>2 DEF AccessInv, SentinelsInv, Merged
  <2>4. AwsManagedKey.id = "AwsManagedKey"
    BY DEF AwsManagedKey, Vertex
  <2> QED BY <1>4, <2>1, <2>3, <2>4
<1>6. ASSUME KeyOf[s].form \in {"arn", "key id"},
             \E v \in vertices : v.label = "KmsKey" /\ v.id = KeyOf[s].id
      PROVE  Linked("EncryptedBy", s, KeyOf[s].id)
  <2>1. KmsTarget(KeyOf[s]) = KeyOf[s].id
    BY <1>6 DEF KmsTarget
  <2> QED BY <1>4, <1>6, <2>1
<1> QED BY <1>5, <1>6

\* A secret that was read leads to the key it names, or to the sentinel: a missing edge says
\* nothing else than that the graph does not have the key (sentinel.rs:25).
THEOREM SecretsAlwaysEncrypted == Spec => []SecretsEncrypted
BY AccessAlwaysSettled, SettledSecretsEncrypted, PTL

\* A row of a query for each document that a policy vertex has.
LEMMA RowsHave ==
    ASSUME NEW label, NEW id, NEW policyEdge, NEW v \in vertices, v.label = label, v.id = id,
           NEW p, p.label = "Policy", [label |-> policyEdge, from |-> v, to |-> p] \in edges,
           NEW key, NEW d, <<key, d>> \in p.attrs
    PROVE  [of |-> v, document |-> d] \in Rows(label, id, policyEdge)
<1> DEFINE policies == Labelled(Out(v, policyEdge), "Policy")
           documents == {pair[2] : pair \in UNION {q.attrs : q \in policies}}
           rows == {[of |-> v, document |-> c] : c \in IF documents = {} THEN {NoPolicy} ELSE documents}
<1>1. p \in policies
  <2>1. PICK e \in edges : e = [label |-> policyEdge, from |-> v, to |-> p]
    OBVIOUS
  <2>2. e.label = policyEdge /\ e.from = v /\ e.to = p
    BY <2>1
  <2>3. p \in Out(v, policyEdge)
    BY <2>2 DEF Out
  <2> QED BY <2>3 DEF Labelled
<1>2. d \in documents
  <2>1. <<key, d>> \in UNION {q.attrs : q \in policies}
    BY <1>1
  <2>2. PICK pair \in UNION {q.attrs : q \in policies} : pair = <<key, d>>
    BY <2>1
  <2>3. pair[2] = d
    BY <2>2
  <2> HIDE DEF policies
  <2> QED BY <2>2, <2>3
<1>3. [of |-> v, document |-> d] \in rows
  <2> HIDE DEF documents
  <2> QED BY <1>2
<1>4. v \in {w \in Labelled(vertices, label) : w.id = id}
  BY DEF Labelled
<1> DEFINE TextsOf(w) == {pair[2] : pair \in UNION {q.attrs : q \in Labelled(Out(w, policyEdge), "Policy")}}
           RowsOf(w) == {[of |-> w, document |-> c] :
                            c \in IF TextsOf(w) = {} THEN {NoPolicy} ELSE TextsOf(w)}
<1>5. Rows(label, id, policyEdge) = UNION {RowsOf(w) : w \in {w \in Labelled(vertices, label) : w.id = id}}
  BY DEF Rows
<1>6. [of |-> v, document |-> d] \in RowsOf(v)
  BY <1>3
<1> HIDE DEF RowsOf
<1> QED BY <1>4, <1>5, <1>6

\* What a statement that lets everyone in shows.
LEMMA EveryoneShown ==
    ASSUME NEW d \in ResourcePolicies, NEW s \in ParseResourcePolicy(d), Anyone \in ToSet(s.principals)
    PROVE  d # NoPolicy /\ d \notin Malformed /\ s \in ShownStatements(d) /\ ShownPrincipal(s) = Anyone
<1>1. d \notin {NoPolicy} \cup Malformed /\ s \in ToSet(StatementsOf[d])
  BY DEF ParseResourcePolicy
<1>2. d \in DOMAIN StatementsOf
  BY <1>1 DEF ResourcePolicies
<1>3. PICK n \in DOMAIN StatementsOf[d] : s = StatementsOf[d][n]
  BY <1>1 DEF ToSet
<1>4. s.written \in {"string", "AWS"} => s.principals[1] = Anyone
  BY <1>2, <1>3, StatementsAssumption DEF ToSet, Anyone
<1> QED BY <1>1, <1>4 DEF ShownStatements, ShownPrincipal

LEMMA SettledPublicNotMissed ==
    ASSUME AccessInv
    PROVE  PublicNotMissed
<1> DEFINE label == IF Service = "s3" THEN "Bucket" ELSE "KmsKey"
<1> SUFFICES ASSUME pc = "ok", Service \in {"s3", "kms"}, NEW g \in Grants(read),
                    Anyone \in ToSet(g.statement.principals),
                    \A a, b \in Rows(label, g.item, PolicyEdgeOf(label)) : a = b
             PROVE  ResourcePolicyRisks(label, g.item) = {"CRITICAL"}
  BY DEF PublicNotMissed
<1> DEFINE d == read[g.item]
           r == g.item
<1>1. r \in Found(read) /\ g.statement \in ParseResourcePolicy(d)
  BY GrantsFacts
<1>2. d \in ResourcePolicies
  BY <1>1 DEF Found, AccessInv, TypeInv
<1>3. d # NoPolicy /\ d \notin Malformed /\ g.statement \in ShownStatements(d)
      /\ ShownPrincipal(g.statement) = Anyone
  BY <1>1, <1>2, EveryoneShown
<1>4. /\ Settled(Nodes({Vertex(label, b, {}) : b \in Found(read)}))
      /\ Settled(Nodes(PolicyVertices(read)))
      /\ Settled(Edges(PolicyEdgeOf(label), PolicyPairs(read)))
  <2>1. CASE Service = "s3"
    <3>1. /\ DOMAIN Loads(read) = 1..4
          /\ Loads(read)[1] = Nodes({Vertex("Bucket", b, {}) : b \in Found(read)})
          /\ Loads(read)[2] = Nodes(PolicyVertices(read))
          /\ Loads(read)[3] = Edges("HasBucketPolicy", PolicyPairs(read))
      BY <2>1, S3Shape, Zenon
    <3>2. 1 \in DOMAIN Loads(read) /\ 2 \in DOMAIN Loads(read) /\ 3 \in DOMAIN Loads(read)
      BY <3>1
    <3>3. Settled(Loads(read)[1]) /\ Settled(Loads(read)[2]) /\ Settled(Loads(read)[3])
      BY <3>2, AllSettled
    <3>4. label = "Bucket" /\ PolicyEdgeOf(label) = "HasBucketPolicy"
      BY <2>1 DEF PolicyEdgeOf
    <3> QED BY <3>1, <3>3, <3>4, Zenon
  <2>2. CASE Service = "kms"
    <3>1. /\ DOMAIN Loads(read) = 1..6
          /\ Loads(read)[1] = Nodes({Vertex("KmsKey", b, {}) : b \in Found(read)})
          /\ Loads(read)[2] = Nodes(PolicyVertices(read))
          /\ Loads(read)[4] = Edges("HasKeyPolicy", PolicyPairs(read))
      BY <2>2, KmsShape, Zenon
    <3>2. 1 \in DOMAIN Loads(read) /\ 2 \in DOMAIN Loads(read) /\ 4 \in DOMAIN Loads(read)
      BY <3>1
    <3>3. Settled(Loads(read)[1]) /\ Settled(Loads(read)[2]) /\ Settled(Loads(read)[4])
      BY <3>2, AllSettled
    <3>4. label = "KmsKey" /\ PolicyEdgeOf(label) = "HasKeyPolicy"
      BY <2>2 DEF PolicyEdgeOf
    <3> QED BY <3>1, <3>3, <3>4, Zenon
  <2> QED BY <2>1, <2>2
<1> HIDE DEF label
<1>5. PICK v \in vertices : v.label = label /\ v.id = r
  <2>1. Merged(vertices, {Vertex(label, b, {}) : b \in Found(read)})
    BY <1>4, LoadKinds DEF Settled
  <2>2. Vertex(label, r, {}) \in {Vertex(label, b, {}) : b \in Found(read)}
    BY <1>1
  <2> QED BY <2>1, <2>2 DEF Merged, Vertex
<1>6. r \in WithPolicy(read)
  BY <1>1, <1>3 DEF WithPolicy
<1>7. PICK p \in vertices : p.label = "Policy" /\ p.id = r \o "-policy" /\ <<"document", d>> \in p.attrs
  <2>1. Merged(vertices, PolicyVertices(read))
    BY <1>4, LoadKinds DEF Settled
  <2>2. PolicyVertex(d, r) \in PolicyVertices(read)
    BY <1>6 DEF PolicyVertices
  <2> QED BY <2>1, <2>2 DEF Merged, PolicyVertex, Vertex
<1>8. <<v.id, p.id>> \in PolicyPairs(read)
  BY <1>5, <1>6, <1>7 DEF PolicyPairs
<1>9. [label |-> PolicyEdgeOf(label), from |-> v, to |-> p] \in edges
  BY <1>4, <1>8, SettledLinks
<1>10. [of |-> v, document |-> d] \in Rows(label, r, PolicyEdgeOf(label))
  BY <1>5, <1>7, <1>9, RowsHave
<1>11. Rows(label, r, PolicyEdgeOf(label)) = {[of |-> v, document |-> d]}
  BY <1>10
<1>12. PolicySeverity([of |-> v, document |-> d]) = "CRITICAL"
  <2>1. [of |-> v, document |-> d].document = d
    OBVIOUS
  <2> QED BY <1>3, <2>1 DEF PolicySeverity
<1>13. ResourcePolicyRisks(label, r) =
          {IF row.document \in Malformed THEN "error" ELSE PolicySeverity(row) :
              row \in {[of |-> v, document |-> d]}}
  BY <1>11 DEF ResourcePolicyRisks
<1> QED BY <1>3, <1>12, <1>13

\* A bucket or a key that lets everyone in, however its statement spells that, is CRITICAL as long
\* as the graph has no earlier policy of it.
THEOREM PublicNeverMissed == Spec => []PublicNotMissed
BY AccessAlwaysSettled, SettledPublicNotMissed, PTL

\* Once iam has passed, its providers and the edges to them are loaded.
LEMMA ProvidersSettled ==
    ASSUME AccessInv, pc = "ok", Service = "iam"
    PROVE  /\ Settled(Nodes(ProviderVertices(read)))
           /\ Settled(Edges("HasOidcProvider", {<<Account, v.id>> : v \in ProviderVertices(read)}))
<1>1. /\ DOMAIN Loads(read) = 1..5 /\ Loads(read)[3] = Nodes(ProviderVertices(read))
      /\ Loads(read)[4] = Edges("HasOidcProvider", {<<Account, v.id>> : v \in ProviderVertices(read)})
  BY IamShape, Zenon
<1>2. PICK D : D = DOMAIN Loads(read)
  OBVIOUS
<1>3. D = 1..5
  BY <1>1, <1>2, Zenon
<1>4. 3 \in D /\ 4 \in D
  BY <1>3
<1>5. Settled(Loads(read)[3]) /\ Settled(Loads(read)[4])
  BY <1>2, <1>4, AllSettled, Zenon
<1> QED BY <1>1, <1>5, Zenon

LEMMA SettledWeakReported ==
    ASSUME AccessInv
    PROVE  WeakProviderReported
<1> SUFFICES ASSUME pc = "ok", Service = "iam",
                    NEW a \in vertices, a.label = "Account", a.id = Account,
                    NEW t \in Trusts(read), t.statement.provider # "",
                    "" \in {ConditionValue(t.statement.aud), ConditionValue(t.statement.sub)}
             PROVE  FederationRisks = [severity |-> "CRITICAL", boundary |-> FALSE]
  BY DEF WeakProviderReported
<1> DEFINE n == Vertex("OidcProvider", t.statement.provider,
                    {<<"aud", ConditionValue(t.statement.aud)>>, <<"sub", ConditionValue(t.statement.sub)>>})
           pairs == {<<Account, v.id>> : v \in ProviderVertices(read)}
<1>1. n \in ProviderVertices(read)
  BY DEF ProviderVertices
<1>2. /\ Settled(Nodes(ProviderVertices(read)))
      /\ Settled(Edges("HasOidcProvider", pairs))
  BY ProvidersSettled, Zenon
<1>3. PICK v \in vertices : v.label = "OidcProvider" /\ v.id = n.id /\ n.attrs \subseteq v.attrs
  <2>1. Merged(vertices, ProviderVertices(read))
    BY <1>2, LoadKinds DEF Settled
  <2>2. n.label = "OidcProvider"
    BY DEF Vertex
  <2> HIDE DEF n
  <2> QED BY <1>1, <2>1, <2>2 DEF Merged
<1>4. [label |-> "HasOidcProvider", from |-> a, to |-> v] \in edges
  <2>1. <<Account, n.id>> \in pairs
    BY <1>1
  <2> HIDE DEF n, pairs
  <2>2. <<a.id, v.id>> \in pairs
    BY <1>3, <2>1
  <2> QED BY <1>2, <2>2, SettledLinks
<1>5. v \in Providers
  <2>1. PICK e \in edges : e = [label |-> "HasOidcProvider", from |-> a, to |-> v]
    BY <1>4
  <2>2. e.label = "HasOidcProvider" /\ e.from = a /\ e.to = v
    BY <2>1
  <2>3. v \in Labelled(Out(a, "HasOidcProvider"), "OidcProvider")
    BY <1>3, <2>2 DEF Out, Labelled
  <2> DEFINE ProvidersOf(b) == Labelled(Out(b, "HasOidcProvider"), "OidcProvider")
  <2>4. Providers = UNION {ProvidersOf(b) : b \in {c \in Labelled(vertices, "Account") : c.id = Account}}
    BY DEF Providers
  <2>5. a \in {c \in Labelled(vertices, "Account") : c.id = Account}
    BY DEF Labelled
  <2>6. v \in ProvidersOf(a)
    BY <2>3
  <2> HIDE DEF ProvidersOf
  <2> QED BY <2>4, <2>5, <2>6
<1>6. Weak(v)
  <2>1. <<"aud", "">> \in n.attrs \/ <<"sub", "">> \in n.attrs
    BY DEF Vertex
  <2> HIDE DEF n
  <2> QED BY <1>3, <2>1 DEF Weak
<1> QED BY <1>5, <1>6 DEF FederationRisks

\* A provider that is trusted without an audience or a subject is never taken for a boundary.
THEOREM WeakProvidersReported == Spec => []WeakProviderReported
BY AccessAlwaysSettled, SettledWeakReported, PTL
=============================================================================
