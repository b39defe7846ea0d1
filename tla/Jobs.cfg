SPECIFICATION FairSpec
CONSTANTS
    Nil = Nil
    Requests = {r1, r2}
    Checks = {c1, c2}
    CheckFails = TRUE
    MaxApplies = 1
    Pullers = {r1}
    Groups = {g1, g2}
    MaxWorkers = 3
    MaxRestarts = 1
    MaxKills = 1
INVARIANTS
    FlagHasOwner
    OneWorker
    ViewHonest
PROPERTIES
    OneApply
    ApplyEnds
    CancelStops
CHECK_DEADLOCK FALSE
