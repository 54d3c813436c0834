CONSTANTS
    role = role
    user = user
    x = x
    y = y
    z = z
    Roles = {role}
    Users = {user}
    Permissions = {x, y, z}
    Documents <- MCDocuments
    ConfigsOf <- MCConfigsOf
    Jobs = {j1}
    MaxChanges = 1
    MaxNodes = 2
    Throttled = {user}
    Failures = TRUE
    Requests = {r1}
SPECIFICATION Spec
INVARIANTS EdgesGranted EnrichedWhole BoundaryKept AssessmentsHold
PROPERTY LoadShows
CHECK_DEADLOCK FALSE
