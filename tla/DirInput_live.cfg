SPECIFICATION FairSpec
CONSTANTS
    f1 = f1
    f2 = f2
    i1 = i1
    i2 = i2
    Name = {f1, f2}
    Active = f1
    Inode = {i1, i2}
    MaxRecords = 2
    MaxRestarts = 1
    MaxHandled = 1
    Habits = {"dated", "rename", "truncate", "remove"}
    Careful = FALSE
    ReuseInodes = FALSE
CHECK_DEADLOCK FALSE
PROPERTIES
    EveryRecordTaken
    ReadBatchReturns
