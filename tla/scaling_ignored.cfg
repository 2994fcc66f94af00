SPECIFICATION WholeFairSpec
CONSTANTS
    s1 = s1
    h1 = h1
    NoTask = NoTask
    NoOne = NoOne
    Tasks <- NoTasks
    Invalid <- NoTasks
    CallsPool <- NoTasks
    MaxRetries <- NoRetries
    WorkerRetries = 0
    TaskCap = 1
    ResultCap = 1
    MaxId = 1
    Wired = TRUE
    InitialSize = 1
    MaxSize = 3
    Deltas <- Nobody
    Stoppers <- Nobody
    MaxStarts = 1
    Waits = FALSE
    Timed <- NoTasks
    Batched <- NoTasks
    Hands <- Nobody
    Wishes <- UpAndDown
    MinWorkers = 1
    MaxConsecutiveScales = 1
    FactorNum = 3
    FactorDen = 2
    HistoryCap = 2
    MaxJobs = 1
PROPERTY PoolFollowsController
CHECK_DEADLOCK FALSE
