SPECIFICATION Spec
CONSTANTS
    Admins = {p, q}
    Ifaces = {eth0}
    Bridges = {}
    a1 = a1
    a2 = a2
    g1 = g1
    g2 = g2
    Addr = {a1, a2}
    Gateways = {g1, g2}
    NoGateway = NoGateway
    Lease = Lease
    Nil = Nil
    Base <- StaticBase
    Targets <- OneStatic
    HelperFaults = {}
    MaxChanges = 2
    MaxFaults = 0
INVARIANT NeverLockedOut
CHECK_DEADLOCK FALSE
