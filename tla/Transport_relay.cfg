SPECIFICATION Spec
CONSTANTS
    c1 = c1
    c2 = c2
    alice = alice
    bob = bob
    Clients = {c1, c2}
    Names = {alice, bob}
    NamesOf <- OneRenamer
    MaxConns = 2
    MaxFrames = 1
    MaxRestarts = 1
    NoConn = NoConn
    NoUser = NoUser
INVARIANTS TypeOK RouteNotDangling OneLiveConnection
PROPERTIES RouteKept ImplementsRouter LastNameFreed FramesResolved
CHECK_DEADLOCK FALSE
