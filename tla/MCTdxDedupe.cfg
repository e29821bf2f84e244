\* Two sources with one event each, one of them with a second content that may not pass.
SPECIFICATION FairSpec
CONSTANTS
    freeway = freeway highway = highway e1 = e1 e2 = e2 a = a b = b
    Source = {freeway, highway}
    Event = {e1, e2}
    SourceOf <- Sources
    ContentOf <- Contents
    Excluded = {b}
    NoContent = NoContent
    Grace = 2
    Pause = {1, 2}
INVARIANTS
    TypeOK
    RepeatsHaveACause
    NothingLostSilently
PROPERTIES
    Converges
