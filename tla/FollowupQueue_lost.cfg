SPECIFICATION Spec
CONSTANTS
    MaxMsgs = 4
    MaxQueues = 1
    MaxFailures = 0
    MaxClears = 0
    Settings <- FollowupOnly
    RouteOf <- OnePlace
INVARIANT NoFollowupLost
