SPECIFICATION Spec
CONSTANTS
    Requests = {r1, r2}
    Groups = {g1, g2}
    MaxWorkers = 2
    MaxRestarts = 0
    MaxKills = 0
    Nil = Nil
INVARIANT OneWorker
CHECK_DEADLOCK FALSE
