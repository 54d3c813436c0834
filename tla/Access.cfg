SPECIFICATION Spec
CONSTANTS
    Order <- MCOrder
    Items <- MCItems
    Account = "1"
    Principals = {"*", "role", "own", "other", "web.amazonaws.com"}
    TypeOf <- MCTypeOf
    AccountOf <- MCAccountOf
    Documents <- MCDocuments
    NoPolicy = "none"
    Malformed = {"garbled"}
    StatementsOf <- MCStatementsOf
    TrustOf <- MCTrustOf
    KeyOf <- MCKeyOf
    GroupsOf <- MCGroupsOf
    Fetched <- MCFetched
    FirstDocument <- MCFirst
    LaterDocuments <- MCLater
    Cap = 2
    MaxRuns = 2
    MaxEdits = 2
    MaxFailures = 2
INVARIANTS
    
    GrantableHasAccess
    SecretsEncrypted
    PublicNotMissed
    
\* The runs are over.
CHECK_DEADLOCK FALSE
