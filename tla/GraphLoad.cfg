SPECIFICATION Spec
CONSTANTS
    principals = principals  buckets = buckets  relate = relate
    Principal = Principal  Resource = Resource  CanAccess = CanAccess
    alice = alice  bob = bob  bucket = bucket  ghost = ghost
    named = named  stubbed = stubbed
    read = read  write = write
    Loaders = {principals, buckets, relate}
    Labels = {Principal, Resource, CanAccess}
    Ids = {alice, bob, bucket, ghost}
    Attrs = {named, stubbed}
    Keys = {read, write}
    LoadsOf <- OneJob
    MaxRuns = 2
    Exclusive = FALSE
    Errors = TRUE
 
INVARIANT OneEdgePerKey
INVARIANT AllOrNothing
INVARIANT OkMeansLoaded
\* Every loader is out of runs.
CHECK_DEADLOCK FALSE
