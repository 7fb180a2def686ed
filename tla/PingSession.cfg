SPECIFICATION Spec
CONSTANTS
    Runs = {r1, r2}
    ChannelCap = 1
    FlushBatch = 2
    MaxProbes = 4
    MaxDbErrors = 1
    MaxCrashes = 1
    DeleteLive = FALSE
SYMMETRY Symmetry
CHECK_DEADLOCK FALSE
INVARIANTS
    TypeOK
    HistoryTrue
    ProbesBelongToSession
    NoOrphanLoop
PROPERTIES
    EndedRowsFrozen
    ImplementsLog
