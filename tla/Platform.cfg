SPECIFICATION Spec
CONSTANTS
    Threads = {t1, t2}
    Absent = Absent
    Nil = Nil
    Disks = {"d1", "d2"}
    StorageRequests = 3
    Keeps = {0, 1}
    Interval = 1
    SnapTime = 2
    MaxSnaps = 3
    SnapRequests = 3
    SnapCrashes = 1
    MaxContainers = 3
    DockerRequests = 5
    DockerFaults = 2
    StackRequests = 5
    StackCrashes = 1
    Names = {"a", "b"}
    MaxMacs = 3
    InstanceRequests = 6
    LocateWorkers = 3
    LocateRestarts = 1
    Others = {"pool"}
    Window = 1
    MaxBad = 1
    HealthTime = 1
    HealthRequests = 2
    HealthFaults = 1
    Groups = {g1, g2}
    BackupWorkers = 2
    BackupFaults = 1
    Ticks = {"tick"}
    Chunks = 2
    MaxOpens = 4
    FileCrashes = 1
    Accounts = {"alice", "bob"}
    FirstAccount = "alice"
INVARIANTS
    LiveDisksKept
    Retention
    ServiceBack
    DataKept
    ContainersManaged
    MacsDiffer
    DarkAtRest
    Informed
    OneCopier
    ManifestHonest
    NoLitter
    AdminRemains
PROPERTIES
    HistoryKept
    SaveIsAtomic
SYMMETRY Symmetry
CHECK_DEADLOCK FALSE
