SPECIFICATION PoolSpec
CONSTANTS
    plain = plain
    unlucky = unlucky
    calling = calling
    bad = bad
    NoTask = NoTask
    Tasks <- AllTasks
    Invalid <- BadTasks
    CallsPool <- Callers
    MaxRetries <- Retries
    WorkerRetries <- NegativeRetries
    TaskCap = 2
    ResultCap = 1
    MaxId = 3
    Wired = TRUE
    InitialSize = 5
    MaxSize = 2
    Deltas <- UpAndDown
INVARIANTS
    PoolTypeOK
    EachTaskInOnePlace
    ResultTellsExecutions
    StatsMatchResults
    NoStrayWorker
    SizeInBounds
PROPERTY ImplementsTaskFlow
CHECK_DEADLOCK FALSE
