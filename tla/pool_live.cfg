SPECIFICATION PoolFairSpec
CONSTANTS
    plain = plain
    unlucky = unlucky
    calling = calling
    bad = bad
    NoTask = NoTask
    Tasks <- GoodTasks
    Invalid <- NoTasks
    CallsPool <- NoTasks
    MaxRetries <- Retries
    WorkerRetries = 0
    TaskCap = 1
    ResultCap = 1
    MaxId = 3
    Wired = TRUE
    InitialSize = 2
    MaxSize = 2
    Deltas <- UpAndDown
PROPERTIES
    OperationsReturn
    QueuedTaskIsReceived
    ReceivedTaskIsReported
CHECK_DEADLOCK FALSE
