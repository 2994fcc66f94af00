SPECIFICATION MgrSpec
CONSTANTS
    first = first
    second = second
    s1 = s1
    s2 = s2
    NoTask = NoTask
    Tasks <- TwoTasks
    Invalid <- NoTasks
    CallsPool <- NoTasks
    MaxRetries <- Retries
    WorkerRetries <- NegativeRetries
    TaskCap = 1
    ResultCap = 1
    MaxId = 2
    Wired = TRUE
    InitialSize = 2
    MaxSize = 2
    Deltas <- NoDeltas
    Stoppers <- Nobody
    MaxStarts = 1
    Waits = TRUE
    Timed <- NoTasks
    Batched <- NoTasks
INVARIANT WaitWaits
CHECK_DEADLOCK FALSE
