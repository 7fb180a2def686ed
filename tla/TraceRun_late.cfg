SPECIFICATION Spec
CONSTANTS
    Runs = {r1}
    Addresses = {a1}
    NoAddr = NoAddr
    NoRun = NoRun
    Permits = 1
    MaxHops = 1
    MaxDbErrors = 0
    DeleteBusy = FALSE
CHECK_DEADLOCK FALSE
INVARIANTS
    LateHostnamesStored
