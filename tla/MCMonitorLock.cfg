\* Two scheduled incarnations and a manual start, one start at a time.
SPECIFICATION Spec
CONSTANTS
    t1 = t1
    t2 = t2
    m1 = m1
    NoPid = NoPid
    Proc = {t1, t2, m1}
    Scheduled = {t1, t2}
    Interval = 1
    MaxRound = 1
    StaleAfter = 3
    ConcurrentStarts = FALSE
    SlowRounds = FALSE
    MaxTime = 5
INVARIANTS
    TypeOK
    AtMostOneMonitor
    RunnerKeepsLock
PROPERTIES
    NoEternalRefusal
SYMMETRY Symmetry
CHECK_DEADLOCK FALSE
