\* Two events, one of them edited, under fairness.
SPECIFICATION FairSpec
CONSTANTS
    e1 = e1
    e2 = e2
    c1 = c1
    c2 = c2
    NoContent = NoContent
    ClearText = ClearText
    Event = {e1, e2}
    Content = {c1, c2}
    ContentOf <- Contents
    ClearAfter = 2
INVARIANTS
    TypeOK
    PendingFits
PROPERTIES
    ImplementsFeed
    ClearNeedsEvidence
    Converges
