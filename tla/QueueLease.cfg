\* One process whose heartbeats are timely; crashes and lost statements.
SPECIFICATION Spec
CONSTANTS
    p1 = p1
    p2 = p2
    j1 = j1
    j2 = j2
    w1 = w1
    w2 = w2
    Procs = {p1}
    ProcOf <- OneProcess
    Handles <- MCHandles
    Crashes = TRUE
    StoreErrors = TRUE
    Timely = TRUE
    Jobs = {j1, j2}
    NoJob = NoJob
    Types = {"ingest"}
    Keys = {"acct"}
    NoKey = NoKey
    WorkerIds = {w1, w2}
    NoWorker = NoWorker
    JobType <- MCJobType
    DedupKey <- MCDedupKey
    Priority <- MCPriority
    MaxAttempts <- MCMaxAttempts
    Threshold = 1
    BackoffBase = 0
    BackoffCap = 1
INVARIANTS
    LiveClaimKept
    NoConcurrentExecution
