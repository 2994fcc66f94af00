SPECIFICATION ManagedFairSpec
CONSTANTS
    s1 = s1
    h1 = h1
    NoTask = NoTask
    NoOne = NoOne
    Tasks <- NoTasks
    Invalid <- NoTasks
    CallsPool <- NoTasks
    MaxRetries <- NoRetries
    WorkerRetries = 0
    TaskCap = 1
    ResultCap = 1
    MaxId = 2
    Wired = TRUE
    InitialSize = 1
    MaxSize = 3
    Deltas <- Nobody
    Stoppers <- OneStopper
    MaxStarts = 2
    Waits = FALSE
    Timed <- NoTasks
    Batched <- NoTasks
    Hands <- OneHand
    Wishes <- UpAndDown
    MinWorkers = 1
    MaxConsecutiveScales = 1
    FactorNum = 3
    FactorDen = 2
    HistoryCap = 2
    MaxJobs = 2
INVARIANT
    OneMonitorUntilShutdown
PROPERTY
    MonitorsEnd
CHECK_DEADLOCK FALSE
