\* Any client may issue any statement, and one triggers ingestion among them.
SPECIFICATION TriggerSpec
CONSTANTS
    j1 = j1
    j2 = j2
    j3 = j3
    Jobs = {j1, j2, j3}
    Types = {"account_ingest"}
    Keys = {"A", "B"}
    NoKey = NoKey
    WorkerIds = {w1}
    NoWorker = NoWorker
    JobType <- MCJobType
    DedupKey <- MCDedupKey
    Priority <- MCPriority
    MaxAttempts <- MCMaxAttempts
    Threshold = 0
    BackoffBase = 1
    BackoffCap = 2
    Callers = {c1}
    Lists <- MCLists
    NoList = NoList
    Defaults <- MCDefaults
    NoFilter = NoFilter
    ListLimit = 1
INVARIANTS
    DedupUnique
    FirstTriesInOrder
    CoveredByAnswer
    ListedFirst
PROPERTIES
    ImplementsLifecycle
