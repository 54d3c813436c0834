SPECIFICATION TrailSpec
CONSTANTS
    Batches <- MCBatches
    WriteNames = {"CreatePolicy", "PutUserPolicy", "CreateUser"}
    ModifyNames = {"CreatePolicy", "PutUserPolicy"}
    Records <- MCRecords
    MaxEvents = 5
    MaxQuarantined = 2
INVARIANT NoFalseAlarm
PROPERTY EvidenceAccumulates
\* The log is full.
CHECK_DEADLOCK FALSE
