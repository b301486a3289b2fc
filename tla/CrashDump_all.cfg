SPECIFICATION Spec
CONSTANTS
    bench = bench
    orphan = orphan
    SIGSEGV = SIGSEGV
    SIGILL = SIGILL
    i8mm = i8mm
    Threads = {bench, orphan}
    Dispatcher = bench
    Signals = {SIGSEGV, SIGILL}
    Names = {i8mm}
    Idle = Idle
    NoSignal = NoSignal
    MaxProcesses = 2
CHECK_DEADLOCK FALSE
INVARIANTS
    TypeOK
    DumpTellsFault
    DumpKept
PROPERTIES
    FaultEndsProcess
