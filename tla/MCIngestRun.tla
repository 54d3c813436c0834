---------------------------- MODULE MCIngestRun ----------------------------
(***************************************************************************)
(* An inventory for TLC: two instances, which Cloud Control lists in two   *)
(* pages, a VPC, which the native SDK lists behind an empty page, and no   *)
(* groups.  Enrichers load a permission and the secret that it names.      *)
(***************************************************************************)
EXTENDS IngestRun, ResourceNodes

CONSTANTS instances, vpcs, groups,      \* resource types
          i1, i2, v1,                   \* resources; there are no groups
          p1, k1,                       \* a Permission and a Secret node
          iam, secretsmanager,          \* enrichers
          instanceVpc, actsOnSecret, misspelt     \* rules

Operation == instances :> "DescribeInstances" @@ vpcs :> "DescribeVpcs" @@ groups :> "ListGroups"

WithFallback == {t \in Types : FetcherOf(Operation[t]) # {}}

Native == instances :> <<{i1, i2}>> @@ vpcs :> <<{}, {v1}>> @@ groups :> <<>>

\* Cloud Control lists every type in full.
Listed == instances :> <<{i1}, {i2}>> @@ vpcs :> <<{v1}>> @@ groups :> <<>>

AllEnrichers == <<iam, secretsmanager>>

Loads == [e \in Joins |-> IF e = iam THEN {p1} ELSE IF e = secretsmanager THEN {k1} ELSE {}]

\* The instance as Cloud Control describes it has its VPC, under another name.
ListedInstance(name) ==
    CHOOSE node \in ListedNodes("Resource", {[identifier |-> name, properties |-> [VpcId |-> "vpc-1"]]}) : TRUE

NodeOf == i1 :> ListedInstance("i-1")
       @@ i2 :> NativeNode([kind |-> "instance", name |-> "i-2"])
       @@ v1 :> NativeNode([kind |-> "vpc", name |-> "vpc-1"])
       @@ p1 :> Node("Permission", [id |-> "read", resource |-> "secret"])
       @@ k1 :> Node("Secret", [id |-> "secret"])

Labels == [r \in Resources |-> NodeOf[r].label]
Properties == [r \in Resources |-> NodeOf[r].properties]

\* Two rules of relationships.yaml, and one with a name that is refused.
InVpc == [name |-> instanceVpc, from_label |-> "Resource", from_property |-> "vpc_id",
          edge_type |-> "InVpc", to_label |-> "Vpc", to_property |-> "id"]
ActsOn == [name |-> actsOnSecret, from_label |-> "Permission", from_property |-> "resource",
           edge_type |-> "ActsOn", to_label |-> "Secret", to_property |-> "id"]
Misspelt == [InVpc EXCEPT !.name = misspelt, !.from_property = "vpc-id"]

AllRules == <<InVpc, ActsOn, Misspelt>>

\* What the first three rules of relationships.yaml look for on a node of a resource
\* no fetcher writes there, so those rules never find anything to join.
Kinds == {"group", "policy", "bucket", "instance", "security group", "vpc", "function", "identity"}

ASSUME RulesLackTheirProperties ==
    /\ \A kind \in Kinds :
          LET node == NativeNode([kind |-> kind, arn |-> "arn", name |-> "name", vpc |-> "vpc-1"])
          IN  node.label = "Resource" =>
                  {"role_arn", "vpc_id", "security_group_id"} \cap DOMAIN node.properties = {}
    /\ "vpc_id" \notin DOMAIN ListedInstance("i-1").properties

=============================================================================
