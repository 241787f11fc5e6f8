SPECIFICATION Spec
CONSTANTS
    Clients = {alice, bob}
    Users = {alice, bob}
    RemoteKeys = {}
    RemoteNonces = {}
    NoKey = NoKey
    BadKey = BadKey
    NoUser = NoUser
    MaxKeys = 2
    MaxMsgs = 0
    MaxClock = 0
    Tolerance = 0
    DedupWindow = 1
    MaxLogins = 2
    MaxDups = 0
    MaxLosses = 0
SYMMETRY Symmetry
INVARIANTS
    KeyAgreement
CHECK_DEADLOCK FALSE
