SPECIFICATION Spec
CONSTANTS
    MaxRecords = 2
    BatchLen = 2
    MaxRestarts = 1
    CleanPolicy = "never"
    InputMayFail = FALSE
INVARIANT OffsetAdvancesOnlyAfterSend
