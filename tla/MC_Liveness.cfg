SPECIFICATION Spec
CHECK_DEADLOCK FALSE
PROPERTIES
    StopReturns
    WorkEnds
