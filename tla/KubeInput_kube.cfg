SPECIFICATION Spec
CONSTANTS
    o1 = o1
    o2 = o2
    g1 = g1
    g2 = g2
    Object = {o1, o2}
    Collector = {g1, g2}
    CollectorOf <- MCCollectorOf
    QueueSize = 1
    MaxChanges = 3
    MaxEventChanges = 2
    MaxRestarts = 1
    MaxFaults = 1
CHECK_DEADLOCK FALSE
INVARIANTS
    TypeOK
    NoEventMissed
    ShowsTheState
PROPERTIES
    NeverBackwards
    ChangesCollected
    CollectorsEnd
