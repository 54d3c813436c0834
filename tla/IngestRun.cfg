SPECIFICATION Spec
CONSTANTS
    instances = instances  vpcs = vpcs  groups = groups
    i1 = i1  i2 = i2  v1 = v1  p1 = p1  k1 = k1
    iam = iam  secretsmanager = secretsmanager
    instanceVpc = instanceVpc  actsOnSecret = actsOnSecret  misspelt = misspelt
    Types = {instances, vpcs, groups}
    Resources = {i1, i2, v1, p1, k1}
    ListedPages <- Listed
    NativePages <- Native
    HasFallback <- WithFallback
    Limit = 2
    Joins = {iam, secretsmanager, instanceVpc, actsOnSecret, misspelt}
    Enrichers <- AllEnrichers
    Enriched <- Loads
    Rules <- AllRules
    Label <- Labels
    Property <- Properties
    SafeNames = {"Resource", "Vpc", "Permission", "Secret", "InVpc", "ActsOn", "vpc_id", "resource", "id"}
    Failures = TRUE
 
PROPERTY RunEnds
\* The run is over.
CHECK_DEADLOCK FALSE
