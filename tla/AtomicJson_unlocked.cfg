SPECIFICATION Spec
CONSTANTS
    th1 = th1
    th2 = th2
    tick = tick
    server = server
    cli = cli
    Writers = {th1, th2}
    Pids = {server, cli}
    PidOf <- Processes
    Chunks = 2
    Serialised = FALSE
    Original = Original
    Absent = Absent
    MaxOpens = 2
    MaxCrashes = 0
INVARIANT TargetWhole
CHECK_DEADLOCK FALSE
