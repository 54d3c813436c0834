\* Two processes compete for one job; crashes, lost statements, late heartbeats.
SPECIFICATION FairSpec
CONSTANTS
    p1 = p1
    p2 = p2
    j1 = j1
    j2 = j2
    w1 = w1
    w2 = w2
    Procs = {p1, p2}
    ProcOf <- TwoProcesses
    Handles <- MCHandles
    Crashes = TRUE
    StoreErrors = TRUE
    Timely = FALSE
    Jobs = {j1}
    NoJob = NoJob
    Types = {"ingest"}
    Keys = {"acct"}
    NoKey = NoKey
    WorkerIds = {w1, w2}
    NoWorker = NoWorker
    JobType <- MCJobType
    DedupKey <- MCDedupKey
    Priority <- MCPriority
    MaxAttempts <- MCMaxAttempts
    Threshold = 1
    BackoffBase = 1
    BackoffCap = 2
INVARIANTS
    OneWorkerPerAttempt
PROPERTIES
    
    JobsFinish
