SPECIFICATION PoolFairSpec
CONSTANTS
    plain = plain
    unlucky = unlucky
    calling = calling
    bad = bad
    NoTask = NoTask
    Tasks <- Callers
    Invalid <- NoTasks
    CallsPool <- Callers
    MaxRetries <- Retries
    WorkerRetries = 0
    TaskCap = 1
    ResultCap = 1
    MaxId = 2
    Wired = TRUE
    InitialSize = 2
    MaxSize = 2
    Deltas <- UpAndDown
PROPERTY OperationsReturn
CHECK_DEADLOCK FALSE
