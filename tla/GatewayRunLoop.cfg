SPECIFICATION Spec
CONSTANT MaxRequests = 6
CHECK_DEADLOCK FALSE
INVARIANTS
    ListeningServerIsHeld
    ServesUnderLock
    RefusesOnlyWhileRestarting
PROPERTIES
    ShutdownEnds
    RestartComesRound
