SPECIFICATION Spec
CONSTANTS
    n1 = n1
    n2 = n2
    Node = {n1, n2}
    TTL = 2
    Period = 2
    MaxRestarts = 0
    ApiMayFail = FALSE
    RunnerMayHang = FALSE
    Prompt = TRUE
    MaxLate = 1
INVARIANT OneCollector
