SPECIFICATION Spec
CONSTANTS
    Threads = {t1, t2}
    Items = {x, y}
    Pairs = {n1, n2}
    Absent = Absent
    DnsRequests = 3
    DnsCrashes = 1
    PowerRequests = 2
    ProxyRequests = 3
    ShareRequests = 2
    Iqns = {"q1"}
    Stores = {"s1"}
    Initiators = {"i1"}
    TargetRequests = 3
    Admins = {"t1"}
    MaxRules = 4
    RuleRequests = 4
INVARIANTS
    ServiceFollows
    EssentialsStay
    ProxyConsistent
    SharesServed
    RestartKeepsAll
    NeverLockedOut
    FamilyKept
PROPERTY EditsAreAtomic
SYMMETRY Symmetry
CHECK_DEADLOCK FALSE
