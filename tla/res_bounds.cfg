SPECIFICATION CtlSpec
CONSTANTS
    m1 = m1
    m2 = m2
    c1 = c1
    NoOne = NoOne
    Monitors <- OneMonitor
    Callers <- Nobody
    Requests <- NoRequests
    MinWorkers = 1
    MaxWorkers = 3
    InitialWorkers = 2
    MaxConsecutiveScales = 2
    FactorNum = 3
    FactorDen = 2
    HistoryCap = 2
    MaxJobs = 3
INVARIANT
    CountStaysInBounds
CHECK_DEADLOCK FALSE
