SPECIFICATION ExecSpec
CONSTANTS
    Chains <- AllChains
    WorkerRetries = 1
    MwRetries = 2
INVARIANTS
    ExecTypeOK
    RunsBounded
    CancelStopsRuns
    SuccessIsFinal
    ReportTells
    PanicsAreContained
PROPERTY
    TimedTaskIsReported
CHECK_DEADLOCK FALSE
