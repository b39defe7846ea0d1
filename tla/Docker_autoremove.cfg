SPECIFICATION Spec
CONSTANTS
    Threads = {t1, t2}
    Absent = Absent
    AutoRemove = TRUE
    MaxIds = 3
    MaxRequests = 5
    MaxFaults = 2
INVARIANT ServiceBack
CHECK_DEADLOCK FALSE
