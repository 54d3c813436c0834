SPECIFICATION Spec
CONSTANTS
    Registry <- MCRegistry
    PassRole <- Pass
    IamAll <- IamStar
    DriftActions <- MCDriftActions
    TagActions <- MCTagActions
    Cidrs <- MCCidrs
    IdentityDocs <- MCIdentityDocs
    GuardDocs <- MCGuardDocs
    SessionDocs <- MCSessionDocs
    ResourceDocs <- MCResourceDocs
    TrustDocs <- MCTrustDocs
    Requests <- MCRequests
    Principal <- Alice
    Roles = {"deploy", "audit"}
    MaxLevels = 2
    MaxVersions = 3
    MaxEdits = 4
 
INVARIANT HistoryExplains
INVARIANT WeakTrustsFound
PROPERTY GuardrailsOnlyNarrow
\* The edits are used up.
CHECK_DEADLOCK FALSE
