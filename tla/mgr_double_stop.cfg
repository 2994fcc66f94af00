SPECIFICATION MgrSpec
CONSTANTS
    first = first
    second = second
    s1 = s1
    s2 = s2
    NoTask = NoTask
    Tasks <- TwoTasks
    Invalid <- NoTasks
    CallsPool <- NoTasks
    MaxRetries <- Retries
    WorkerRetries <- NegativeRetries
    TaskCap = 1
    ResultCap = 1
    MaxId = 1
    Wired = TRUE
    InitialSize = 1
    MaxSize = 2
    Deltas <- NoDeltas
    Stoppers <- TwoStoppers
    MaxStarts = 1
    Waits = FALSE
    Timed <- OneTask
    Batched <- NoTasks
INVARIANT StopIsGraceful
CHECK_DEADLOCK FALSE
