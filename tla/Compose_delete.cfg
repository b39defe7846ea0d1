SPECIFICATION Spec
CONSTANTS
    Threads = {t1, t2}
    Absent = Absent
    ListFails = TRUE
    MaxRequests = 5
    MaxCrashes = 1
INVARIANT ContainersHaveFile
CHECK_DEADLOCK FALSE
