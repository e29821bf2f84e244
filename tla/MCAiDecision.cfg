\* Two reports of one accident, three runs, two of them at once, one fault.
SPECIFICATION Spec
CONSTANTS
    r1 = r1 r2 = r2 r3 = r3 a1 = a1 a2 = a2 b1 = b1 e1 = e1 e2 = e2
    NoRun = NoRun
    NoKm = NoKm
    Run = {r1, r2, r3}
    Report = {a1, b1}
    EventOf <- Events
    KmOf <- OnePlace
    CooldownRange = 10
    MemoryRange = 15
    Window = 1
    CooldownTTL = 2
    MemoryTTL = 2
    MaxCandidates = 1
    MaxActive = 2
    Faults = {"read", "write", "die"}
    MaxFaults = 1
    MaxTime = 2
INVARIANTS
    TypeOK
    AnswerFitsQuestion
    SilencedWithReason
    NotifiedWasPushed
    SightingsKept
PROPERTIES
    RepeatsHaveACause
SYMMETRY Mirror
CHECK_DEADLOCK FALSE
