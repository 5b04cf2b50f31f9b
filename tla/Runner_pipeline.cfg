SPECIFICATION FairSpec
CONSTANTS
    MaxRecords = 3
    BatchLen = 2
    MaxRestarts = 1
    CleanPolicy = "retain"
    InputMayFail = TRUE
INVARIANTS
    TypeOK
    SavedIsAccounted
    NoResendBehindOffset
    SentNeverOverstates
PROPERTIES
    CleanSparesFailedDrain
    AtLeastOnceDelivery
    StopTerminates
    EveryRecordSettled
