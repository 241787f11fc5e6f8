SPECIFICATION OnlineSpec
CONSTANTS
    Clients = {alice, bob}
    Users = {alice, bob}
    RemoteKeys = {}
    RemoteNonces = {}
    NoKey = NoKey
    BadKey = BadKey
    NoUser = NoUser
    MaxKeys = 2
    MaxMsgs = 2
    MaxClock = 0
    Tolerance = 0
    DedupWindow = 1
    MaxLogins = 1
    MaxDups = 1
    MaxLosses = 0
INVARIANTS
    TypeOK
    IInv
    OrderInv
    KeyAgreement
    DeliveredInOrder
PROPERTIES
    HandshakeCompletes
    AcceptedIsDelivered
CHECK_DEADLOCK FALSE
