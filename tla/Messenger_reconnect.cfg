SPECIFICATION ReconnectSpec
CONSTANTS
    Clients = {alice, bob}
    Users = {alice, bob}
    RemoteKeys = {}
    RemoteNonces = {}
    NoKey = NoKey
    BadKey = BadKey
    NoUser = NoUser
    MaxKeys = 2
    MaxMsgs = 1
    MaxClock = 1
    Tolerance = 0
    DedupWindow = 1
    MaxLogins = 2
    MaxDups = 0
    MaxLosses = 2
SYMMETRY Symmetry
INVARIANTS
    SealedOnWire
    FirstSessionAgreement
    AgreementInv
CHECK_DEADLOCK FALSE
