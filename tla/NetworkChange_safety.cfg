SPECIFICATION Spec
CONSTANTS
    Admins = {p, q}
    Ifaces = {eth0, br0}
    Bridges = {br0}
    a1 = a1
    a2 = a2
    g1 = g1
    g2 = g2
    Addr = {a1, a2}
    Gateways = {g1, g2}
    NoGateway = NoGateway
    Lease = Lease
    Nil = Nil
    Base <- StaticBase
    Targets <- StaticOrDhcp
    HelperFaults = {}
    MaxChanges = 2
    MaxFaults = 0
SYMMETRY AdminSymmetry
INVARIANTS
    TypeOK
    RestsOnWorking
    KeepsOldConnection
    UrlIsCurrent
    HandoffOnce
PROPERTY ChangeIsAtomic
CHECK_DEADLOCK FALSE
