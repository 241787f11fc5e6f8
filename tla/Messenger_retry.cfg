SPECIFICATION RetrySpec
CONSTANTS
    Clients = {alice, bob}
    Users = {alice, bob}
    RemoteKeys = {}
    RemoteNonces = {}
    NoKey = NoKey
    BadKey = BadKey
    NoUser = NoUser
    MaxKeys = 1
    MaxMsgs = 1
    MaxClock = 0
    Tolerance = 0
    DedupWindow = 1
    MaxLogins = 1
    MaxDups = 0
    MaxLosses = 0
PROPERTIES
    RetryGetsThrough
CHECK_DEADLOCK FALSE
