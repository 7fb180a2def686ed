SPECIFICATION Spec
CONSTANTS
    Runs = {r1, r2}
    Addresses = {a1}
    NoAddr = NoAddr
    NoRun = NoRun
    Permits = 1
    MaxHops = 1
    MaxDbErrors = 1
    DeleteBusy = FALSE
CHECK_DEADLOCK FALSE
PROPERTIES
    RefusedOnlyWhileRunning
