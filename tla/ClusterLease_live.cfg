SPECIFICATION FairSpec
CONSTANTS
    n1 = n1
    n2 = n2
    Node = {n1, n2}
    TTL = 1
    Period = 1
    MaxRestarts = 1
    ApiMayFail = TRUE
    RunnerMayHang = FALSE
    Prompt = FALSE
    MaxLate = 0
PROPERTIES
    CollectedAgain
    LoserStops
