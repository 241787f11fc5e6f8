SPECIFICATION TSpec
CONSTANTS
    Clients = {alice, bob, carol}
    Users = {alice, bob, carol}
    RemoteKeys = {}
    RemoteNonces = {}
    NoKey = NoKey
    BadKey = BadKey
    NoUser = NoUser
    Threaded = {alice}
    MaxKeys = 1
    MaxMsgs = 0
    MaxClock = 0
    Tolerance = 0
    DedupWindow = 1
    MaxLogins = 1
    MaxDups = 0
    MaxLosses = 0
SYMMETRY Symmetry
INVARIANTS
    NoCommandRaises
CHECK_DEADLOCK FALSE
