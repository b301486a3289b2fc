SPECIFICATION Spec
CONSTANTS
    app1 = app1
    app2 = app2
    Callers = {app1}
    Registry <- MCRegistry
    OptIn <- MCOptIn
    Filters <- MCFilters
    Idle = "(idle)"
    NoReport = NoReport
INVARIANTS
    TypeOK
    RunningBenchBlamed
    ResultMeansIdleTag
    LatestIsOneRun
PROPERTIES
    CallReturns
