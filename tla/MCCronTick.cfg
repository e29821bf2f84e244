\* Three sessions of any kind, two at once, two targets, three events in a feed
\* for two, one fault.
SPECIFICATION Spec
CONSTANTS
    s1 = s1 s2 = s2 s3 = s3 t1 = t1 t2 = t2 e1 = e1 e2 = e2 e3 = e3 c1 = c1 c2 = c2
    Session = {s1, s2, s3}
    Target = {t1, t2}
    Event = {e1, e2, e3}
    Content = {c1, c2}
    NoCommand = NoCommand
    NoProduct = NoProduct
    NoImage = NoImage
    Rank <- Ranks
    Retention = 1
    ImageTTL = 1
    MaxStored = 2
    Faults = {"read", "write", "reply", "die"}
    MaxFaults = 1
    MaxActive = 2
    MaxTime = 2
INVARIANTS
    TypeOK
    AnswersHold
    FeedKept
    ImagesFit
SYMMETRY Symmetry
CHECK_DEADLOCK FALSE
