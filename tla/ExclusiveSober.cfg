SPECIFICATION MCSpec
CONSTANTS
    Threads = {t1, t2}
    Ids = {i1, i2}
    Word = w
    Addrs = {w, x}
    Values = {0, 1, 2}
    Additions = 1
    Interruptions = 1
    None = None
    FastmemExclusive = TRUE
    IgnoreGlobalMonitor = TRUE
INVARIANTS ReservationExact
PROPERTIES AtomicAccesses AllAdded
CHECK_DEADLOCK FALSE
