\* Two messages, two LINE targets and Telegram, one fault of any kind or one cron run.
SPECIFICATION Spec
CONSTANTS
    m1 = m1 m2 = m2 k1 = k1 k2 = k2 a = a b = b x1 = x1 x2 = x2 tg = tg
    Message = {m1, m2}
    Approval <- Reports
    Key = {k1, k2}
    Content = {a, b}
    NoContent = NoContent
    NoKm = NoKm
    MaxKmDiff = 1
    Window = 1
    CronWindow = 1
    Prunable = {k2}
    LineTarget = {x1, x2}
    Subscriptions = {{}, {x1, x2}}
    TelegramTarget = tg
    Muted = {}
    FaultKind = {"read", "write", "push", "answer", "die", "cron"}
    MaxFaults = 1
    MaxDeliveries = 2
    MaxTime = 1
INVARIANT TypeOK
INVARIANT MarkedWasTold
INVARIANT RepeatsAreInDoubt
INVARIANT WithheldOnlyInDoubt
INVARIANT MarksInStep
INVARIANT DuplicatesSuppressed
SYMMETRY Symmetry
CHECK_DEADLOCK FALSE
