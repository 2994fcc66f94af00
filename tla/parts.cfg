SPECIFICATION PartsSpec
CONSTANTS
    a = a
    b = b
    c = c
    d = d
    e = e
    f = f
    u1 = u1
    u2 = u2
    l1 = l1
    l2 = l2
    Jobs <- SixJobs
    Stamps = {1, 2}
    Urgency <- UrgencyOf
    Nothing = Nothing
    Users = {u1, u2}
    InitialFill = 2
    FillLimits <- SomeLimits
    MaxMade = 4
    Loops = {l1, l2}
    Usages = {50, 90}
    Threshold = 85
    MinInterval = 1
    SampleCap = 2
    MaxClock = 4
    Counts <- SomeCounts
    Factors <- SomeFactors
    Marks <- SomeMarks
    Intervals = {0, 5}
    NaN = NaN
    MostTasks = 1000
    MostSignals = 40
    MaxOptions = 3
INVARIANTS
    HeapWellFormed
    ObjectsAccounted
    ValidConfigIsUsable
PROPERTIES
    ImplementsPriorityOrder
    CleanupIsRationed
CHECK_DEADLOCK FALSE
