SPECIFICATION Spec
CONSTANTS
    accel = accel
    light = light
    motion = motion
    Sensors = {accel, light, motion}
    Mode <- MCMode
    Place <- MCPlace
    Invocations <- Documented
    NonFinite <- Third
    BatchSize = 2
    PipeSize = 2
    MaxEvents = 4
CHECK_DEADLOCK FALSE
INVARIANTS
    UsageStreams
