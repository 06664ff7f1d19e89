SPECIFICATION RunsSpec
CONSTANTS
    r1 = r1  r2 = r2  r3 = r3
    main = main  cronL = cronL  nested = nested  sA = sA  sB = sB
    Run = {r1, r2}
    CronRun = {}
    SessionOf <- TwoSessions
    MainLane = main  CronLane = cronL  NestedLane = nested
    Lane = {main, cronL, nested, sA, sB}
    SerialLane = {nested, sA, sB}
    Entry <- AllEntries
    Waiter = {w1}
    Concurrency = {2}
    MaxGeneration = 1
    NoLane = NoLane
    NoWaiter = NoWaiter
CHECK_DEADLOCK FALSE
INVARIANT OneRunPerSession
