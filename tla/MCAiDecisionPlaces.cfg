\* Three places on one road, one run at a time and no faults: the note of one push
\* hides that of another.
SPECIFICATION Spec
CONSTANTS
    r1 = r1 r2 = r2 r3 = r3 a1 = a1 a2 = a2 b1 = b1 e1 = e1 e2 = e2
    NoRun = NoRun
    NoKm = NoKm
    Run = {r1, r2, r3}
    Report = {a1, a2, b1}
    EventOf <- Events
    KmOf <- ThreePlaces
    CooldownRange = 10
    MemoryRange = 15
    Window = 1
    CooldownTTL = 3
    MemoryTTL = 2
    MaxCandidates = 1
    MaxActive = 1
    Faults = {}
    MaxFaults = 0
    MaxTime = 2
PROPERTIES
    LowNeverRepeats
SYMMETRY Symmetry
CHECK_DEADLOCK FALSE
