SPECIFICATION FairSpec
CONSTANTS
    t0 = t0  tA = tA  a1 = a1
    Target = {t0, tA}
    Reason = {"interval", "hook"}
    MaxBatches = 1
    DefaultCoalesce = 1
    DefaultRetry = 1
    MaxGeneration = 1
    Agent = {a1}
    Untargeted = t0
    AgentOf <- OneAgent
    Config <- Configs
    MaxInputs = 2
CHECK_DEADLOCK FALSE
PROPERTY HeartbeatsComeBack
