SPECIFICATION PairSpec
CONSTANTS
    Clients = {alice, bob}
    Users = {alice, bob}
    RemoteKeys = {}
    RemoteNonces = {}
    NoKey = NoKey
    BadKey = BadKey
    NoUser = NoUser
    Threaded = {alice}
    MaxKeys = 2
    MaxMsgs = 1
    MaxClock = 0
    Tolerance = 0
    DedupWindow = 1
    MaxLogins = 2
    MaxDups = 0
    MaxLosses = 0
SYMMETRY Symmetry
INVARIANTS
    TTypeOK
    TInv
    PrivateTakenOnce
    ActiveHasKey
    DeliveredWasAccepted
CHECK_DEADLOCK FALSE
