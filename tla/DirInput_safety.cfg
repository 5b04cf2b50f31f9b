SPECIFICATION Spec
CONSTANTS
    f1 = f1
    f2 = f2
    f3 = f3
    i1 = i1
    i2 = i2
    i3 = i3
    Name = {f1, f2, f3}
    Active = f1
    Inode = {i1, i2, i3}
    MaxRecords = 4
    MaxRestarts = 2
    MaxHandled = 1
    Habits = {"dated", "rename"}
    Careful = TRUE
    ReuseInodes = FALSE
SYMMETRY Symmetry
CHECK_DEADLOCK FALSE
INVARIANTS
    TypeOK
    NothingSkipped
    StateCoversOnlyTaken
PROPERTIES
    ReadsInOrder
    NoRereadBehindState
