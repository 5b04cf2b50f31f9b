SPECIFICATION FairSpec
CONSTANTS
    p1 = p1
    p2 = p2
    c1 = c1
    c2 = c2
    Pod = {p1}
    Container = {c1, c2}
    Policies <- OnePod
    MaxModified = 1
    MaxRestarts = 1
    PathsMayFail = TRUE
    RunnersMayHang = TRUE
CHECK_DEADLOCK FALSE
INVARIANTS
    TypeOK
    OneRunnerPerKey
    DrainKeepsPathAndStatus
PROPERTIES
    LivePodsUndisturbed
    EveryPolicyCollected
    GonePodsLetGo
