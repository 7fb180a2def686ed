SPECIFICATION JobsSpec
CONSTANTS
    FloorMtu = 5
    CeilingMtu = 30
    FirstMtu = 8
    Overhead = 2
    BaselinePayload = 1
    ConfirmProbes = 2
    \* A scaled-down path: floor 5, first bracket probe 8, ceiling 30, overhead 2.
    \* Paths below the floor are included; hints are right, wrong and out of range.
    Links = {3, 4, 5, 6, 7, 8, 9, 10, 11, 12, 13, 14, 15, 16, 17, 18, 19, 20, 21, 22, 23, 24, 25, 26, 27, 28, 29, 30, 31, 32}
    Hints = {0, 5, 6, 9, 16, 17, 24, 40}
    Faults = {"timeout", "error"}
    Runs = {"s1", "s2"}
    NoRun = "none"
    MaxProbes = 2
    Scans = {"s1", "s2"}
    NoScan = "none"
    Batch = 2
    Capacity = 1
    MaxFound = 2
    MaxDbErrors = 1
    DeleteBusy = FALSE
    HistoryErrors = 1
    DeleteRunning = FALSE
    DnsJobs = {"j1", "j2"}
    MaxTypes = 2
    LookupSlots = 1
    MaxQueries = 2
    SampleCap = 1
    MaxStored = 2
    MaxRows = 2
    MaxWrites = 2
    StoreFaults = 3
    DeleteRead = FALSE
    Calls = {"c1", "c2"}
    MaxProfiles = 2
    MaxOwned = 1
    KeyringFaults = 1
    EditBusy = FALSE
    Tests = {"t1"}
    MaxItems = 3
    PageSlots = 2
    MaxRuns = 2
    LoadSlots = 2
    LoadFactor = 2
    DeleteMeasured = TRUE
    MaxHops = 2
    Domains = {"d1", "d2", "d3"}
    Root = "d1"
    LookupLimit = 2
    MaxDepth = 1
    MaxTerms = 1
    Range4 = {1, 2}
    Neighbour = 3
    PingSlots = 1
    PortSlots = 1
    PortCount = 3
    PeerProbes = 3
    AnswerSize = 2
    Inactivity = 2
    Ceiling = 4
    MaxClock = 6
    MaxLines = 3
CHECK_DEADLOCK FALSE
INVARIANTS
    TypeOK
    ExactIsLinkMtu
    LowerBoundSound
    JobsTypeOK
    SlotStops
    RunsWhole
    BenchmarksWhole
    StoresWhole
    
PROPERTIES
    RefineShrinks
    SearchEnds
    ImplementsLog
    
    ProfilesOwn
