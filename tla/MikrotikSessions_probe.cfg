SPECIFICATION Spec
CONSTANTS
    Sessions={s1,s2}
    Profiles={p1,p2}
    Nobody=Nobody
    MaxActive=1
    MaxCoreFailures=2
    MaxTicks=1
    MaxDbErrors=0
    MaxDeletes=1
    DeleteBusy=TRUE
CHECK_DEADLOCK FALSE
INVARIANT StaleProbeWritesNothing
