SPECIFICATION Spec
CONSTANTS
    Others = {k1}
    None = None
    Window = 1
    MaxBad = 1
    MaxTime = 1
    MaxRequests = 2
    MaxFaults = 1
INVARIANT GrowthRecorded
CHECK_DEADLOCK FALSE
