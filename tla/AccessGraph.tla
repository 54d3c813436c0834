---------------------------- MODULE AccessGraph ----------------------------
(***************************************************************************)
(* The enrichers of activable-ingest that read policies from AWS and write *)
(* who may reach what into the graph: src/native/iam.rs, ec2.rs, s3.rs,    *)
(* kms.rs, secretsmanager.rs and lambda.rs with the parser, the builders   *)
(* and the sentinels they share.                                           *)
(*                                                                         *)
(* An ingest run takes the enrichers in order.  Each asks AWS first, item  *)
(* by item, and then loads what it has read, one load of nodes or edges    *)
(* after the other.  A load is atomic here (see GraphLoad).  Of the        *)
(* properties of nodes and edges the model keeps what queries read.        *)
(***************************************************************************)
EXTENDS Naturals, Sequences, FiniteSets

CONSTANTS
    Order,          \* the enrichers, in order
    Items,          \* what each of them lists
    Account,        \* the account that is ingested
    Principals, TypeOf, AccountOf,      \* principals that policies name, "" for no account
    Documents, NoPolicy, Malformed,     \* policies: a name for each text
    StatementsOf,   \* the statements of a resource policy
    TrustOf,        \* the statements of a trust policy
    KeyOf,          \* how each secret names its key
    GroupsOf,       \* the security groups of each instance
    Fetched,        \* the vertices that fetch tasks have loaded
    FirstDocument, LaterDocuments,      \* what AWS answers at first, and may answer later
    Cap,            \* how many principals of a statement get an edge of their own
    MaxRuns, MaxEdits, MaxFailures      \* bounds

AllItems == UNION {Items[s] : s \in DOMAIN Items}

\* Texts that a resource may have for its policy.
ResourcePolicies == DOMAIN StatementsOf \cup {NoPolicy} \cup Malformed

ASSUME AccessAssumption ==
    /\ Cap \in Nat \ {0}
    /\ MaxRuns \in Nat /\ MaxEdits \in Nat /\ MaxFailures \in Nat
    /\ {NoPolicy} \cup Malformed \subseteq Documents

ASSUME EnrichersAssumption ==
    /\ DOMAIN Items \subseteq {"iam", "ec2", "s3", "kms", "secretsmanager", "lambda"}
    /\ Order \in Seq(DOMAIN Items) /\ Order # << >>

\* Roles have trust policies, the items of the other enrichers resource policies.
ASSUME DocumentsAssumption ==
    /\ DOMAIN FirstDocument = AllItems
    /\ \A service \in DOMAIN Items \ {"iam", "ec2"} : \A r \in Items[service] :
          {FirstDocument[r]} \cup LaterDocuments[r] \subseteq ResourcePolicies

\* Functions are loaded by their fetch task, before the enrichers run (lambda.rs:2).
ASSUME FunctionsAssumption ==
    "lambda" \in DOMAIN Items => \A f \in Items["lambda"] : \E v \in Fetched : v.id = f

\* AWS takes a star for an account, for no other kind of principal: it is the one that is shown.
ASSUME StatementsAssumption ==
    \A d \in DOMAIN StatementsOf : \A n \in DOMAIN StatementsOf[d] :
        LET s == StatementsOf[d][n]
        IN  s.written \in {"string", "AWS"} /\ (\E i \in DOMAIN s.principals : s.principals[i] = "*")
                => s.principals[1] = "*"

VARIABLES
    aws,            \* the policy of each item
    vertices, edges,
    pc, run, turn,  \* the enricher whose turn it is, and how far it is
    todo,           \* the items it has still to read
    read,           \* the policies it has read
    step,           \* its next load
    edits, failures

vars == <<aws, vertices, edges, pc, run, turn, todo, read, step, edits, failures>>

Service == Order[turn]

-----------------------------------------------------------------------------
(* parse_resource_policy *)

Anyone == "*"

ToSet(s) == {s[i] : i \in DOMAIN s}

\* Deny statements are passed over, and those without a principal or an action.
Parsed(statement) ==
    statement.effect # "Deny" /\ statement.principals # << >> /\ statement.actions # {}

ParseResourcePolicy(document) ==
    IF document \in {NoPolicy} \cup Malformed THEN {}
    ELSE {s \in ToSet(StatementsOf[document]) : Parsed(s)}

-----------------------------------------------------------------------------
(* build_access_edges *)

\* Principals with an edge of their own: none beside a wildcard, and one less than the cap when
\* they are more.
Named(s) ==
    IF Anyone \in ToSet(s.principals) THEN {}
    ELSE IF Len(s.principals) > Cap THEN {s.principals[i] : i \in 1..(Cap - 1)}
    ELSE ToSet(s.principals)

\* Mutant: nothing stands for those above the cap.
ReachedUpToCap(s) == Named(s) \cup (IF Anyone \in ToSet(s.principals) THEN {Anyone} ELSE {})

\* The wildcard sentinel stands for everyone, and for those above the cap.
Reached(s) ==
    Named(s) \cup (IF Anyone \in ToSet(s.principals) \/ Len(s.principals) > Cap THEN {Anyone} ELSE {})

AllowsCreateGrant(s) == s.actions \cap {"kms:CreateGrant", "kms:*", "*"} # {}

Vertex(label, id, attrs) == [label |-> label, id |-> id, attrs |-> attrs]

\* build_principal_node
PrincipalVertex(p) ==
    Vertex("Principal", p,
        {<<"principal_type", TypeOf[p]>>, <<"account_id", AccountOf[p]>>,
         <<"external", IF TypeOf[p] # "Service" /\ AccountOf[p] # Account THEN "true" ELSE "false">>})

\* iam.rs gives the sources of trust fewer properties, and types of its own.
SourceVertex(p) ==
    Vertex("Principal", p,
        {<<"principal_type",
           IF TypeOf[p] = "Service" THEN "Service" ELSE IF p = Anyone THEN "Wildcard" ELSE "External">>})

WildcardPrincipal == Vertex("WildcardPrincipal", Anyone, {})

AwsManagedKey == Vertex("KmsKey", "AwsManagedKey", {})

PolicyVertex(document, r) == Vertex("Policy", r \o "-policy", {<<"document", document>>})

\* Mutant: a bare id is taken as it stands.
KmsTargetVerbatim(key) ==
    IF key.form \in {"none", "aws alias"} THEN "AwsManagedKey"
    ELSE IF key.form = "arn" THEN key.id ELSE key.form

\* classify_secret_kms: an alias cannot be resolved, a bare id is taken to be of this account.
KmsTarget(key) ==
    CASE key.form \in {"none", "aws alias"} -> "AwsManagedKey"
      [] key.form = "alias" -> "alias"
      [] key.form \in {"arn", "key id"} -> key.id

-----------------------------------------------------------------------------
(* Loads *)

\* MERGE of a node with all its properties.
Merge(vs, new) ==
    vs \cup {n \in new : ~\E v \in vs : v.label = n.label /\ v.id = n.id /\ n.attrs \subseteq v.attrs}

\* MERGE of edges between all vertices that have the ids, whatever their labels.
Join(vs, label, pairs) ==
    {[label |-> label, from |-> ends[1], to |-> ends[2]] :
        ends \in {e \in vs \X vs : <<e[1].id, e[2].id>> \in pairs}}

Nodes(new) == [kind |-> "nodes", new |-> new, label |-> "", pairs |-> {}, lenient |-> FALSE]

\* Errors of these loads are ignored.
LenientNodes(new) ==
    [kind |-> "nodes", new |-> new, label |-> "", pairs |-> {}, lenient |-> TRUE]

Edges(label, pairs) ==
    [kind |-> "edges", new |-> {}, label |-> label, pairs |-> pairs, lenient |-> FALSE]

\* What has been read: items whose description failed are left out.
Found(got) == {r \in DOMAIN got : got[r] # "undescribed"}

\* The statements that have been read, each with its resource.
Grants(got) ==
    UNION {{[item |-> r, statement |-> s] : s \in ParseResourcePolicy(got[r])} : r \in Found(got)}

AccessPairs(got) == UNION {{<<g.item, p>> : p \in Reached(g.statement)} : g \in Grants(got)}

GrantPairs(got) ==
    UNION {{<<p, g.item>> : p \in Reached(g.statement)} :
        g \in {h \in Grants(got) : AllowsCreateGrant(h.statement)}}

NamedVertices(got) == UNION {{PrincipalVertex(p) : p \in Named(g.statement)} : g \in Grants(got)}

WithPolicy(got) == {r \in Found(got) : got[r] # NoPolicy}

PolicyVertices(got) == {PolicyVertex(got[r], r) : r \in WithPolicy(got)}

PolicyPairs(got) == {<<r, r \o "-policy">> : r \in WithPolicy(got)}

\* The trust statements that have been read, whatever their effect, each with its role.
Trusts(got) ==
    UNION {{[role |-> r, statement |-> s] : s \in ToSet(TrustOf[got[r]])} :
        r \in {q \in Found(got) : got[q] \notin {NoPolicy} \cup Malformed}}

Sources(got) == UNION {t.statement.sources : t \in Trusts(got)}

\* extract_oidc_conditions: the first value, and none for a star.
ConditionValue(values) == IF values = << >> \/ values[1] = "*" THEN "" ELSE values[1]

\* A vertex for each pair of conditions.
ProviderVertices(got) ==
    {Vertex("OidcProvider", t.statement.provider,
        {<<"aud", ConditionValue(t.statement.aud)>>, <<"sub", ConditionValue(t.statement.sub)>>}) :
        t \in {u \in Trusts(got) : u.statement.provider # ""}}

IamLoads(got) == <<
    LenientNodes({SourceVertex(p) : p \in Sources(got)}),
    LenientNodes({Vertex("Account", Account, {})}),
    Nodes(ProviderVertices(got)),
    Edges("HasOidcProvider", {<<Account, v.id>> : v \in ProviderVertices(got)}),
    Edges("CanAssume", UNION {{<<p, t.role>> : p \in t.statement.sources} : t \in Trusts(got)})>>

Ec2Loads(got) ==
    <<Edges("HasSecurityGroup", UNION {{<<i, g>> : g \in GroupsOf[i]} : i \in Found(got)})>>

\* No Principal nodes: an edge to a principal that nothing else has loaded is dropped.
S3Loads(got) == <<
    Nodes({Vertex("Bucket", b, {}) : b \in Found(got)}),
    Nodes(PolicyVertices(got)),
    Edges("HasBucketPolicy", PolicyPairs(got)),
    Edges("AllowsAccessFrom", AccessPairs(got))>>

\* Mutant: grants are loaded before accesses.
KmsGrantsFirst(got) == <<
    Nodes({Vertex("KmsKey", k, {}) : k \in Found(got)}),
    Nodes(PolicyVertices(got)),
    Nodes(NamedVertices(got)),
    Edges("HasKeyPolicy", PolicyPairs(got)),
    Edges("KmsGrantable", GrantPairs(got)),
    Edges("AllowsAccessFrom", AccessPairs(got))>>

KmsLoads(got) == <<
    Nodes({Vertex("KmsKey", k, {}) : k \in Found(got)}),
    Nodes(PolicyVertices(got)),
    Nodes(NamedVertices(got)),
    Edges("HasKeyPolicy", PolicyPairs(got)),
    Edges("AllowsAccessFrom", AccessPairs(got)),
    Edges("KmsGrantable", GrantPairs(got))>>

SecretLoads(got) == <<
    Nodes({Vertex("Secret", s, {}) : s \in Found(got)}),
    Nodes(NamedVertices(got)),
    Edges("EncryptedBy", {<<s, KmsTarget(KeyOf[s])>> : s \in Found(got)}),
    Edges("AllowsAccessFrom", AccessPairs(got))>>

\* The functions are vertices already.
LambdaLoads(got) == <<Nodes(NamedVertices(got)), Edges("AllowsAccessFrom", AccessPairs(got))>>

Loads(got) ==
    CASE Service = "iam" -> IamLoads(got)
      [] Service = "ec2" -> Ec2Loads(got)
      [] Service = "s3" -> S3Loads(got)
      [] Service = "kms" -> KmsLoads(got)
      [] Service = "secretsmanager" -> SecretLoads(got)
      [] Service = "lambda" -> LambdaLoads(got)

\* An empty load is not made at all.
Empty(load) == load.new = {} /\ load.pairs = {}

-----------------------------------------------------------------------------
(* Enrichers *)

\* The sentinels of a service, in the order in which they are ensured.
Sentinels(service) ==
    CASE service \in {"s3", "kms", "lambda"} -> <<WildcardPrincipal>>
      [] service = "secretsmanager" -> <<WildcardPrincipal, AwsManagedKey>>
      [] OTHER -> << >>

\* The enricher whose turn comes; another run begins after the last.
NextTurn ==
    /\ pc \in {"idle", "ok", "failed"}
    /\ IF turn < Len(Order) THEN turn' = turn + 1 /\ run' = run
                            ELSE turn' = 1 /\ run' = run + 1

Begin ==
    /\ NextTurn
    /\ vertices' = Merge(vertices, ToSet(Sentinels(Order[turn'])))
    /\ pc' = "reading"
    /\ todo' = Items[Order[turn']]
    /\ read' = << >>
    /\ step' = 1
    /\ UNCHANGED <<aws, edges, edits, failures>>

\* A sentinel or the identity of the caller cannot be had.
BeginFails ==
    /\ NextTurn
    /\ \E n \in 0..Len(Sentinels(Order[turn'])) :
          vertices' = Merge(vertices, {Sentinels(Order[turn'])[i] : i \in 1..n})
    /\ pc' = "failed"
    /\ todo' = {} /\ read' = << >> /\ step' = 1
    /\ failures' = failures + 1
    /\ UNCHANGED <<aws, edges, edits>>

Reads(r, document) == [q \in DOMAIN read \cup {r} |-> IF q = r THEN document ELSE read[q]]

ReadItem(r) ==
    /\ pc = "reading" /\ r \in todo
    /\ read' = Reads(r, aws[r])
    /\ todo' = todo \ {r}
    /\ UNCHANGED <<aws, vertices, edges, pc, run, turn, step, edits, failures>>

\* What an enricher goes on with when a call about one item fails: without the policy, or without
\* the key that cannot be described.
KeyFailures == {"undescribed", NoPolicy}

BucketFailures == {NoPolicy}

SecretFailures == {NoPolicy}

FunctionFailures == {NoPolicy}

ReadFailures ==
    CASE Service = "kms" -> KeyFailures
      [] Service = "s3" -> BucketFailures
      [] Service = "secretsmanager" -> SecretFailures
      [] Service = "lambda" -> FunctionFailures
      [] OTHER -> {}

ReadItemFails(r) ==
    /\ pc = "reading" /\ r \in todo
    /\ \E document \in ReadFailures : read' = Reads(r, document)
    /\ todo' = todo \ {r}
    /\ failures' = failures + 1
    /\ UNCHANGED <<aws, vertices, edges, pc, run, turn, step, edits>>

\* A page cannot be listed: these enrichers fail,
ListFails ==
    /\ pc = "reading" /\ todo # {}
    /\ Service \in {"iam", "ec2", "s3"}
    /\ pc' = "failed"
    /\ todo' = {}
    /\ failures' = failures + 1
    /\ UNCHANGED <<aws, vertices, edges, run, turn, read, step, edits>>

\* and these go on with what they have.
ListBreaks ==
    /\ pc = "reading" /\ todo # {}
    /\ Service \in {"kms", "secretsmanager", "lambda"}
    /\ todo' = {}
    /\ failures' = failures + 1
    /\ UNCHANGED <<aws, vertices, edges, pc, run, turn, read, step, edits>>

ReadAll ==
    /\ pc = "reading" /\ todo = {}
    /\ pc' = "loading"
    /\ UNCHANGED <<aws, vertices, edges, run, turn, todo, read, step, edits, failures>>

Load ==
    /\ pc = "loading" /\ step <= Len(Loads(read))
    /\ LET load == Loads(read)[step] IN
          /\ vertices' = Merge(vertices, load.new)
          /\ edges' = edges \cup Join(vertices, load.label, load.pairs)
    /\ step' = step + 1
    /\ UNCHANGED <<aws, pc, run, turn, todo, read, edits, failures>>

\* The lenient loads of iam.rs are of one node each; the enricher goes on without those that fail.
LoadFails ==
    /\ pc = "loading" /\ step <= Len(Loads(read))
    /\ LET load == Loads(read)[step] IN
          /\ ~Empty(load)
          /\ IF load.lenient
             THEN /\ \E some \in SUBSET load.new :
                        some # load.new /\ vertices' = Merge(vertices, some)
                  /\ step' = step + 1
                  /\ UNCHANGED pc
             ELSE /\ pc' = "failed"
                  /\ UNCHANGED <<vertices, step>>
    /\ failures' = failures + 1
    /\ UNCHANGED <<aws, edges, run, turn, todo, read, edits>>

Finish ==
    /\ pc = "loading" /\ step > Len(Loads(read))
    /\ pc' = "ok"
    /\ UNCHANGED <<aws, vertices, edges, run, turn, todo, read, step, edits, failures>>

\* The owner of the account replaces a policy.
Edit(r, document) ==
    /\ aws' = [aws EXCEPT ![r] = document]
    /\ edits' = edits + 1
    /\ UNCHANGED <<vertices, edges, pc, run, turn, todo, read, step, failures>>

-----------------------------------------------------------------------------

Init ==
    /\ aws = FirstDocument
    /\ vertices = Fetched /\ edges = {}
    /\ pc = "idle" /\ run = 0 /\ turn = Len(Order)
    /\ todo = {} /\ read = << >> /\ step = 1
    /\ edits = 0 /\ failures = 0

\* BOUNDS: MaxRuns, MaxFailures, MaxEdits.
Next ==
    \/ (turn < Len(Order) \/ run < MaxRuns) /\ Begin
    \/ failures < MaxFailures /\ (turn < Len(Order) \/ run < MaxRuns) /\ BeginFails
    \/ \E r \in todo : ReadItem(r)
    \/ failures < MaxFailures /\ \E r \in todo : ReadItemFails(r)
    \/ failures < MaxFailures /\ (ListFails \/ ListBreaks)
    \/ ReadAll
    \/ Load
    \/ failures < MaxFailures /\ LoadFails
    \/ Finish
    \/ edits < MaxEdits /\ \E r \in AllItems : \E d \in LaterDocuments[r] : Edit(r, d)

Spec == Init /\ [][Next]_vars
=============================================================================
