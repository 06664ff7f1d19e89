SPECIFICATION Spec
CONSTANTS
    Lane = {main, session}
    Entry = {e1, e2, e3, e4}
    Waiter = {w1}
    SerialLane = {session}
    Concurrency = {0, 2}
    MaxGeneration = 1
    NoLane = NoLane
SYMMETRY Symmetry
CHECK_DEADLOCK FALSE
INVARIANTS
    TypeOK
    ActiveMatchesRunning
    WorkConserving
    DrainNeverBlocked
    SerialLanesRunOne
    WaitersExact
PROPERTY SettledStaysSettled
