SPECIFICATION Spec
CONSTANTS
    n1 = n1
    n2 = n2
    Node = {n1, n2}
    TTL = 2
    Period = 2
    MaxRestarts = 1
    ApiMayFail = TRUE
    RunnerMayHang = TRUE
    Prompt = FALSE
    MaxLate = 0
SYMMETRY Symmetry
INVARIANTS
    TypeOK
    OverlapNeedsLapse
PROPERTY TakeoverOnlyExpired
