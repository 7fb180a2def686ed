SPECIFICATION Spec
CONSTANTS
    Runs = {r1, r2}
    ChannelCap = 1
    FlushBatch = 2
    MaxProbes = 2
    MaxDbErrors = 0
    MaxCrashes = 0
    DeleteLive = TRUE
CHECK_DEADLOCK FALSE
PROPERTIES
    PacedProbing
