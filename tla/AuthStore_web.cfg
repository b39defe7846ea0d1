SPECIFICATION Spec
CONSTANTS
    alice = alice
    bob = bob
    tok = tok
    p1 = p1
    p2 = p2
    Users = {alice, bob}
    Tokens = {tok}
    Passwords = {p1, p2}
    MaxDay = 2
    Nil = Nil
    Threads = {t1, t2}
    Requests <- AllRequests
    CliUsers = {}
    Bundles <- NoBundles
    FirstAdmin = alice
    FirstPassword = p1
    NoOne = NoOne
INVARIANTS
    TypeOK
    AdminRemains
PROPERTY AtomicStore
