SPECIFICATION Spec
CONSTANTS
    app1 = app1
    app2 = app2
    Callers = {app1, app2}
    Registry <- SmallRegistry
    OptIn <- SmallOptIn
    Filters <- SmallFilters
    Idle = "(idle)"
    NoReport = NoReport
PROPERTIES
    ImplementsService
