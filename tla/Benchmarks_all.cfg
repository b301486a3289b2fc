SPECIFICATION Spec
CONSTANTS
    N = 3
    Freqs = {1, 2}
    Benches <- MCBenches
    MaxHotplug = 1
    MaxJobs = 2
    Wanted <- MCWanted
    MaxOccur = 2
    Line = 64
    SizesBytes <- MCSizesBytes
    Walks = 2
    ChaseSteps = 5
    NClusters = 2
    Warmup = 1
    Iterations = 2
    Rates = {3, 5}
    MaxRuns = 2
    Speeds = {1, 4}
    TopSpeed = 4
    Delays = {32}
    Interval = 8
    Duration = 80
    FirstInner = 16
    MinInner = 4
    Settle = 3
    ZoneIds = {3, 10}
    NumCpus = 2
    Temps = {30}
    Khz = {1}
INVARIANTS
    TypeOK
    ClustersAreIslands
    RowsTellWhere
    SamplesTellTheirEvent
    ChainVisitsEverySlot
    NoIllegalInstruction
    PoolIsMeasured
    ChunkBounded
    CadenceReturns
    DrawnFromItsSource
CHECK_DEADLOCK FALSE
