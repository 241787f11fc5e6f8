SPECIFICATION Spec
CONSTANTS
    c1 = c1
    c2 = c2
    alice = alice
    bob = bob
    Clients = {c1, c2}
    Names = {alice, bob}
    NamesOf <- OwnName
    MaxConns = 3
    MaxFrames = 2
    MaxRestarts = 0
    NoConn = NoConn
    NoUser = NoUser
PROPERTIES NoSilentLoss
CHECK_DEADLOCK FALSE
