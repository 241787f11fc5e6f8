SPECIFICATION Spec
CONSTANTS
    Clients = {c1}
    Users = {alice, bob}
    RemoteKeys = {r1, r2}
    RemoteNonces = {}
    NoKey = NoKey
    BadKey = BadKey
    MaxKeys = 2
    MaxMsgs = 1
    MaxClock = 1
    Tolerance = 0
SYMMETRY Symmetry
INVARIANTS
    TypeOK
    KeyIffActive
    PendingOnlyEstablishing
    LiveNeedsSession
    MessagesSealed
    DeliveredOnce
    GuardRemembers
    IInv
PROPERTIES
    SecretsFresh
    PinChangeAnnounced
    ImplementsLifecycle
CHECK_DEADLOCK FALSE
