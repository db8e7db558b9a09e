SPECIFICATION Spec
CONSTANTS
    Processes = {p, q}
    Pipelines = {"r"}
    Defaults <- TheDefaults
    OwnWeight = 35
    Updates <- TheUpdates
    HandEdits <- TheHandEdits
    Shown = 2
    Null = Null
    MaxRequests = 3
    MaxTime = 1
    Streams = {"s1"}
    Dashboards = {"d1", "d2"}
    Topics = {"math", "alerts"}
    Watches <- TheWatches
    QueueSize = 1
    MaxEvents = 2
    Devices = {"cam1", "cam2"}
    Sockets = {"c1", "c2", "c3"}
    Owner <- TheOwner
    Room <- TheRoom
    Classes <- TheClasses
    Interval = 2
    Starts = {0, 1}
    Horizon = 5
    MaxFailures = 1
    Uploads <- TheUploads
    Requests = {r1, r2}
    Limits <- TheLimits
    Window = 2
    NonceLife = 2
    Skew = 1
    PublishRetries = 1
    MaxSends = 3
    LastTime = 3
    Emails = {"ann"}
    Calls = {k1, k2}
    MaxTokens = 3
INVARIANTS
    TypeOK
    GatesFollowFile
    LastRevisionInForce
    FeedReachesListeners
    CaptureReachesDevices
    GateHolds
    SessionsEndAndDoNotFork
SYMMETRY Symmetry
CHECK_DEADLOCK FALSE
