\* One change pushed twice over two isolates; any one of four faults.
SPECIFICATION Spec
CONSTANTS
    p1 = p1
    p2 = p2
    p3 = p3
    kNew = kNew
    kCleared = kCleared
    e1 = e1
    i1 = i1
    i2 = i2
    Push = {p1, p2}
    Key = {kNew}
    Event = {e1}
    KeyOf <- SameKey
    EventOf <- OneEvent
    ClearedKeys = {}
    Isolate = {i1, i2}
    L1Window = 1
    ProcessingStale = 1
    MaxAttempts = 1
    MaxQueueRetries = 2
    MaxDeliveries = 3
    Faults = {"redeliver", "kvRead", "kvWrite", "netLoss"}
    MaxFaults = 1
    MaxTime = 2
INVARIANTS
    DuplicateAckIsBacked
    DecidedOnce
SYMMETRY Symmetry
CHECK_DEADLOCK FALSE
