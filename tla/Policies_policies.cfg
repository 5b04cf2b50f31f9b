SPECIFICATION Spec
CONSTANTS
    Names <- MCNames
    Specs <- MCSpecs
    PodSpecs <- MCPodSpecs
    LogDirs <- MCLogDirs
    MaxChanges = 1
    Absent = Absent
INVARIANTS TypeOK AcceptedCanRun ReadsWhatIsWritten
PROPERTY Judged
CHECK_DEADLOCK FALSE
