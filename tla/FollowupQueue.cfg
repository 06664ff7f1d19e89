SPECIFICATION FairSpec
CONSTANTS
    MaxMsgs = 4
    MaxQueues = 2
    MaxFailures = 1
    MaxClears = 1
    Settings <- CollectAndFollowup
    RouteOf <- TwoPlaces
INVARIANTS
    LossHasCause
    OneFollowupAtATime
    OneRoutePerPrompt
PROPERTIES
    AnsweredOnceInOrder
    EventuallySettled
