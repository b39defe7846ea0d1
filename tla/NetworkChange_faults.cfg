SPECIFICATION FairSpec
CONSTANTS
    Admins = {p, q}
    Ifaces = {eth0}
    Bridges = {}
    a1 = a1
    a2 = a2
    g1 = g1
    g2 = g2
    Addr = {a1, a2}
    Gateways = {g1, g2}
    NoGateway = NoGateway
    Lease = Lease
    Nil = Nil
    Base <- StaticBase
    Targets <- OneStatic
    HelperFaults = {"generate", "apply"}
    MaxChanges = 2
    MaxFaults = 1
INVARIANT TimerGuards
PROPERTY PendingEnds
CHECK_DEADLOCK FALSE
