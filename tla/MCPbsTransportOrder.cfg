\* One event reported and cleared, two attempts each; any one of four faults.
SPECIFICATION FairSpec
CONSTANTS
    p1 = p1
    p2 = p2
    p3 = p3
    kNew = kNew
    kCleared = kCleared
    e1 = e1
    i1 = i1
    i2 = i2
    Push = {p1, p3}
    Key = {kNew, kCleared}
    Event = {e1}
    KeyOf <- ReportAndClear
    EventOf <- OneEvent
    ClearedKeys = {kCleared}
    Isolate = {i1}
    L1Window = 1
    ProcessingStale = 1
    MaxAttempts = 2
    MaxQueueRetries = 2
    MaxDeliveries = 3
    Faults = {"redeliver", "consumerCrash", "send", "ingressCrash"}
    MaxFaults = 1
    MaxTime = 1
INVARIANTS
    TypeOK
    AckedIsSettled
    DecisionsArePaid
    AcceptedIsCarried
PROPERTIES
    NoBusinessAfterClear
    AcceptedIsSettled
CHECK_DEADLOCK FALSE
