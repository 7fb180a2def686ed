SPECIFICATION RoutersSpec
CONSTANTS
    Sessions = {"s1", "s2"}
    Profiles = {"p1"}
    Nobody = "nobody"
    MaxActive = 1
    MaxCoreFailures = 2
    MaxTicks = 2
    MaxDbErrors = 1
    MaxDeletes = 1
    DeleteBusy = FALSE
    Ports = {"p1", "p2"}
    Links = {1, 2}
    HealthEvery = 2
    StatsEvery = 2
    VlanEvery = 3
    TickBound = 3
    Streams = {"s1", "s2"}
    Backlog = 1
    MaxLogFailures = 2
    BufferSize = 2
    MaxEntries = 4
    Odd = {2}
    MaxFailures = 2
    Hasty = FALSE
    Terms = {"t1", "t2", "t3"}
    MaxTerminals = 2
    Hosts = {"h1", "h2"}
    Keys = {"k1", "k2"}
    NoKey = "no key"
    MaxRekeys = 2
    EditBusy = FALSE
    Backups = {"b1", "b2"}
    Exports = {"e1"}
    Deletes = {"d1", "d2"}
    Names = {"n1"}
    Badly = "bad name"
    MaxFaults = 1
    Overlap = FALSE
    Late = FALSE
    Cap = 1
    RulesEvery = 3
    PollBound = 4
    PollLimit = 3
    MaxAsks = 3
    MaxLines = 4
    MaxFrame = 7
    MaxBuffer = 5
    MaxBody = 7
CHECK_DEADLOCK FALSE
INVARIANTS
    RoutersTypeOK
    OneTaskEach
    LinesWhole
    SlotsExact
    
    
PROPERTIES
    HistoryTrue
    
    BackupsWhole
