SPECIFICATION FairSpec
CONSTANTS
    r1 = r1
    r2 = r2
    r3 = r3
    Request = {r1, r2, r3}
    KindOf <- Kinds
    MaxSockets = 3
    maxReconnectAttempts = 2
    MaxStops = 2
    MaxConnects = 2
    MaxDisconnects = 1
    NoRequest = NoRequest
CHECK_DEADLOCK FALSE
INVARIANTS
    OwnAnswer
    ChainPerConnect
PROPERTIES
    ConnectionComesBack
