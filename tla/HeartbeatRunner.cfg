SPECIFICATION FairSpec
CONSTANTS
    t0 = t0  tA = tA  a1 = a1
    Target = {t0, tA}
    Reason = {"interval", "hook"}
    MaxBatches = 2
    DefaultCoalesce = 1
    DefaultRetry = 1
    MaxGeneration = 3
    Agent = {a1}
    Untargeted = t0
    AgentOf <- OneAgent
    Config <- Configs
    MaxInputs = 1
CHECK_DEADLOCK FALSE
INVARIANTS
    WakeKept
    NoWakeStuck
    OverlapHasCause
    IntervalChainAlive
PROPERTIES
    RetryCooldownKept
    HeartbeatsKeepComing
