\* A manual start while the scheduled one is starting.
SPECIFICATION Spec
CONSTANTS
    t1 = t1
    t2 = t2
    m1 = m1
    NoPid = NoPid
    Proc = {t1, t2, m1}
    Scheduled = {t1, t2}
    Interval = 1
    MaxRound = 1
    StaleAfter = 3
    ConcurrentStarts = TRUE
    SlowRounds = FALSE
    MaxTime = 5
INVARIANTS
    AtMostOneMonitor
CHECK_DEADLOCK FALSE
