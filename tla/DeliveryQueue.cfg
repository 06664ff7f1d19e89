SPECIFICATION FairSpec
CONSTANTS
    Msg = {1, 2}
    Startup = {s}
    Drain = {d}
    MatchesDrain = {1}
    BestEffort = {2}
    WithOnError = {2}
    MaxRetries = 2
    MaxCrashes = 1
    MaxLive = 1
    Unreliable = {1}
    NoMsg = NoMsg
CHECK_DEADLOCK FALSE
INVARIANTS
    NothingLost
    ClaimsExact
PROPERTIES
    ReplayHasCause
    EveryEntryLeaves
