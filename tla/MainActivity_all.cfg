SPECIFICATION Spec
CONSTANTS
    hwcaps = hwcaps
    sensors = sensors
    MaxJobs = 2
    MaxUploads = 3
    Kinds = {hwcaps, sensors}
    NativeCrash = NativeCrash
    CrashText = CrashText
    Empty = Empty
    None = None
    MaxUrlHistory = 2
    MaxActivities = 2
CHECK_DEADLOCK FALSE
INVARIANTS
    TypeOK
    BusyIffOneJob
    ShownResultIsOwn
    UploadNotStuck
    UrlsAreLabelled
    HistoryIsNewestOfLog
PROPERTIES
    DumpDeletedOnlyWhenShown
    BusyEnds
    ImplementsResultScreen
