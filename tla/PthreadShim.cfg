SPECIFICATION FairShimSpec
CONSTANTS
    Threads = {t1, t2}
    Controls = {c1, c2}
    Locks = {m1}
    MaxCalls = 4
    HoldAcross = FALSE
    Mutexes = {m1, m2}
    Hosts = {h1, h2}
    MutexCalls = 4
    MaxTime = 1
    MaxDelay = 1
    MaxSkew = 2
    None = None
INVARIANTS RunsOnce ReturnsComplete MutexesExact
PROPERTIES OnceReturns NoEarlyTimeout TimedWaitsEnd
CHECK_DEADLOCK FALSE
