SPECIFICATION CtlSpec
CONSTANTS
    m1 = m1
    m2 = m2
    c1 = c1
    NoOne = NoOne
    Monitors <- TwoMonitors
    Callers <- OneCaller
    Requests <- AllRequests
    MinWorkers = 1
    MaxWorkers = 6
    InitialWorkers = 1
    MaxConsecutiveScales = 1
    FactorNum = 3
    FactorDen = 2
    HistoryCap = 2
    MaxJobs = 3
INVARIANTS
    CtlTypeOK
    BoundsHold
    HistoryTellsCount
    SignalsTellCount
    GrowthCoolsDown
    GrowthIsLimited
    DisabledSettles
CHECK_DEADLOCK FALSE
