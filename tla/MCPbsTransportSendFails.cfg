\* The enqueue of the first attempt fails.
SPECIFICATION Spec
CONSTANTS
    p1 = p1
    p2 = p2
    p3 = p3
    kNew = kNew
    kCleared = kCleared
    e1 = e1
    i1 = i1
    i2 = i2
    Push = {p1}
    Key = {kNew}
    Event = {e1}
    KeyOf <- OnePush
    EventOf <- OneEvent
    ClearedKeys = {}
    Isolate = {i1, i2}
    L1Window = 1
    ProcessingStale = 1
    MaxAttempts = 2
    MaxQueueRetries = 2
    MaxDeliveries = 3
    Faults = {"send"}
    MaxFaults = 1
    MaxTime = 1
INVARIANTS
    DuplicateAckIsBacked
CHECK_DEADLOCK FALSE
