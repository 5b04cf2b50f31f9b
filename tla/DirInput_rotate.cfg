SPECIFICATION Spec
CONSTANTS
    f1 = f1
    f2 = f2
    i1 = i1
    i2 = i2
    Name = {f1, f2}
    Active = f1
    Inode = {i1, i2}
    MaxRecords = 2
    MaxRestarts = 0
    MaxHandled = 1
    Habits = {"rename"}
    Careful = FALSE
    ReuseInodes = FALSE
SYMMETRY Symmetry
CHECK_DEADLOCK FALSE
INVARIANT SkippedFilesWereRead
