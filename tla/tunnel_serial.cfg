SPECIFICATION FairSpec
CONSTANTS
    c1 = c1
    t1 = t1
    t2 = t2
    None = None
    Calls = {c1}
    Ops = {"connect", "reconnect", "disconnect", "challenge"}
    HangUps = {}
    Tunnels = {t1, t2}
    QueueCap = 1
    EventCap = 1
    Reports = {"disconnected"}
CHECK_DEADLOCK FALSE
INVARIANT CleanDisconnect
PROPERTY CallsReturn
