\* Two reports of one accident; a consumer may die once.
SPECIFICATION Spec
CONSTANTS
    m1 = m1 m2 = m2 k1 = k1 k2 = k2 a = a b = b x1 = x1 x2 = x2 tg = tg
    Message = {m1, m2}
    Approval <- Accidents
    Key = {k1, k2}
    Content = {a, b}
    NoContent = NoContent
    NoKm = NoKm
    MaxKmDiff = 1
    Window = 1
    CronWindow = 1
    Prunable = {k2}
    LineTarget = {x1}
    Subscriptions = {{x1}}
    TelegramTarget = tg
    Muted = {}
    FaultKind = {"die"}
    MaxFaults = 1
    MaxDeliveries = 2
    MaxTime = 1
INVARIANT SuppressedWasTold
CHECK_DEADLOCK FALSE
