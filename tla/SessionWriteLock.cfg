SPECIFICATION FairSpec
CONSTANTS
    p1 = p1
    p2 = p2
    p3 = p3
    c1 = c1
    c2 = c2
    c3 = c3
    Proc = {p1, p2, p3}
    Caller = {c1, c2, c3}
    ProcOf <- Callers
    PidOf <- ThreeProcesses
    WithStarttime = {p1, p3}
    Reentrant = {c1, c2}
    Running = {p1, p2}
    Gateway = {p3}
    Unreliable = {c2}
    NoCaller = NoCaller
CHECK_DEADLOCK FALSE
INVARIANTS
    FileBacksHold
    CountMatchesUsers
    LiveFileHasOwner
PROPERTIES
    IsSessionLock
    AcquireEnds
