SPECIFICATION CondSpec
CONSTANTS
    Threads = {t1}
    None = None
    MaxTime = 1
    MaxDelay = 1
    MaxSkew = 2
INVARIANT DueCanTimeOut
CHECK_DEADLOCK FALSE
