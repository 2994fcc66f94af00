SPECIFICATION NarrowSpec
CONSTANTS
    first = first
    second = second
    s1 = s1
    s2 = s2
    NoTask = NoTask
    Tasks <- TwoTasks
    Invalid <- NoTasks
    CallsPool <- NoTasks
    MaxRetries <- Retries
    WorkerRetries <- NegativeRetries
    TaskCap = 1
    ResultCap = 1
    MaxId = 2
    Wired = TRUE
    InitialSize = 1
    MaxSize = 2
    Deltas <- NoDeltas
    Stoppers <- TwoStoppers
    MaxStarts = 2
    Waits = TRUE
    Timed <- OneTask
    Batched <- OneTask
INVARIANTS
    MgrTypeOK
    InProgressAccounts
    CountersBalance
    WaitSound
    NothingExecutes
    StoppedMeansQuiet
PROPERTIES
    StopReturns
    ShutdownReleasesSubmit
    ShutdownEndsProcessors
CHECK_DEADLOCK FALSE
