--------------------------- MODULE ResourceNodes ---------------------------
(***************************************************************************)
(* The nodes that the fetchers of activable-ingest write for what AWS      *)
(* lists: the label, and the properties that relationship rules and        *)
(* enrichers can match (src/native_fallback.rs, src/cloud_control.rs).     *)
(*                                                                         *)
(* A resource is a record of what AWS says of it.  Properties nobody       *)
(* matches on (paths, states, runtimes) are left out.                      *)
(***************************************************************************)
EXTENDS TLC

Node(label, properties) == [label |-> label, properties |-> properties]

-----------------------------------------------------------------------------
(* Native SDK *)

GroupNode(x) == Node("IamGroup", [id |-> x.arn, name |-> x.name])

\* A managed policy is a node of the label that the permissions have.
PolicyNode(x) == Node("Permission", [id |-> x.arn, name |-> x.name])

BucketNode(x) == Node("Resource", [id |-> x.name, name |-> x.name])

\* Neither the VPC nor the security groups of an instance become properties.
InstanceNode(x) == Node("Resource", [id |-> x.name, instance_id |-> x.name])

SecurityGroupNode(x) == Node("SecurityGroup", [id |-> x.name, group_id |-> x.name, vpc_id |-> x.vpc])

VpcNode(x) == Node("Vpc", [id |-> x.name, vpc_id |-> x.name])

\* The function's role is not among them.
FunctionNode(x) == Node("Resource", [id |-> x.arn, function_name |-> x.name, function_arn |-> x.arn])

IdentityNode(x) == Node("Account", [id |-> x.name, account_id |-> x.name, arn |-> x.arn])

\* The SDK and operation that resource_types.yaml configures for a type select the
\* fetcher; for any other pair nothing is fetched, and that is Ok.
FetcherOf(operation) ==
    CASE operation = "ListGroups"             -> {"group"}
      [] operation = "ListPolicies"           -> {"policy"}
      [] operation = "ListBuckets"            -> {"bucket"}
      [] operation = "DescribeInstances"      -> {"instance"}
      [] operation = "DescribeSecurityGroups" -> {"security group"}
      [] operation = "DescribeVpcs"           -> {"vpc"}
      [] operation = "ListFunctions"          -> {"function"}
      [] operation = "GetCallerIdentity"      -> {"identity"}
      [] OTHER                                -> {}

NativeNode(x) ==
    CASE x.kind = "group"          -> GroupNode(x)
      [] x.kind = "policy"         -> PolicyNode(x)
      [] x.kind = "bucket"         -> BucketNode(x)
      [] x.kind = "instance"       -> InstanceNode(x)
      [] x.kind = "security group" -> SecurityGroupNode(x)
      [] x.kind = "vpc"            -> VpcNode(x)
      [] x.kind = "function"       -> FunctionNode(x)
      [] x.kind = "identity"       -> IdentityNode(x)

-----------------------------------------------------------------------------
(* Cloud Control *)

\* A description without identifier is skipped; properties that are no JSON object
\* count as none; the identifier becomes the id whatever the properties say.
ListedNodes(label, descriptions) ==
    {Node(label, [id |-> d.identifier] @@ d.properties) :
        d \in {e \in descriptions : e.identifier # ""}}

=============================================================================
