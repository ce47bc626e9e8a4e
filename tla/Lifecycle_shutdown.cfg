SPECIFICATION FairSpec
CONSTANTS
    s1 = s1
    s2 = s2
    t1 = t1
    t2 = t2
    host = host
    Sandboxes = {s1, s2}
    Threads = {t1, t2}
    Home <- MCHome
    Host = host
    Crashes = TRUE
    Parallel = FALSE
INVARIANTS TypeOK DeathIsSeen HostLedger FiltersInForce LockdownExact CallsPermitted
PROPERTIES CtorDtorReturn HostDeathEndsAll
CHECK_DEADLOCK FALSE
