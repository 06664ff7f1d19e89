SPECIFICATION Spec
CONSTANTS
    Msg = {1, 2}
    Startup = {s}
    Drain = {d}
    MatchesDrain = {1, 2}
    BestEffort = {}
    WithOnError = {}
    MaxRetries = 3
    MaxCrashes = 0
    MaxLive = 2
    Unreliable = {}
    NoMsg = NoMsg
CHECK_DEADLOCK FALSE
PROPERTY AckedNotResent
