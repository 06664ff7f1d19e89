SPECIFICATION FairRunsSpec
CONSTANTS
    r1 = r1  r2 = r2  r3 = r3
    main = main  cronL = cronL  nested = nested  sA = sA  sB = sB
    Run = {r1, r2}
    CronRun = {r2}
    SessionOf <- TwoSessions
    MainLane = main  CronLane = cronL  NestedLane = nested
    Lane = {main, cronL, nested, sA}
    SerialLane = {nested, sA}
    Entry <- AllEntries
    Waiter = {w1}
    Concurrency = {2}
    MaxGeneration = 1
    NoLane = NoLane
    NoWaiter = NoWaiter
CHECK_DEADLOCK FALSE
INVARIANTS
    DrainedRestartCutsNoRun
    SessionCoversRun
PROPERTIES
    RunsEventuallySettle
    RestartCompletes
