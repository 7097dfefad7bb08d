SPECIFICATION SupSpec
CONSTANTS
    sup = sup
    a1 = a1
    t1 = t1
    p1 = p1
    None = None
    Calls = {a1, sup}
    Ops = {"connect", "disconnect"}
    HangUps = {}
    Tunnels = {t1}
    QueueCap = 1
    EventCap = 1
    Reports = {"connected"}
    Sup = sup
    Profiles = {p1}
    MaxAttempts = 2
    DbFails = FALSE
CHECK_DEADLOCK FALSE
PROPERTY DisconnectIsFinal
