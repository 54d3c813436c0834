SPECIFICATION Spec
CONSTANTS
    Vertices <- MCVertices
    RowLimit = 3
    MaxWalkResults = 3
    MaxEdgeTypes = 1
    MaxDepth = 3
    Registry <- MCRegistry
    CatalogSize = 15000
    KindOf <- MCKindOf
    Runs = {r1}
    Weights <- MCWeights
    RuleFiles <- MCRuleFiles
    Categories <- MCCategories
    FirstEdges <- MCFirstEdges
    LaterEdges <- MCLaterEdges
    Admins <- OneAdmin
    FirstCatalog <- MCFirstCatalog
    LaterActions <- MCLaterActions
    FuzzFamilies <- MCFuzzFamilies
    Threshold = 1
    MaxIterations = 3
    TopLimit = 1
    MaxEdits = 2
    MaxFailures = 1
INVARIANTS
    PowerRaisesRisk
    AllAccountedFor
    RoundsPayOff
    ReportTellsWorst
    
PROPERTY
    QueriesAgree
\* The runs are over.
CHECK_DEADLOCK FALSE
