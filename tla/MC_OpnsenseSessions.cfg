SPECIFICATION Spec
CONSTANTS
    m1 = m1
    m2 = m2
    l1 = l1
    l2 = l2
    Monitors <- TwoMonitors
    Logs <- TwoLogs
    Ids = {1, 2}
    MaxMonitors = 1
SYMMETRY Symmetry
CHECK_DEADLOCK FALSE
INVARIANTS
    TypeOK
    MarksExact
    Stoppable
    SlotsAlive
