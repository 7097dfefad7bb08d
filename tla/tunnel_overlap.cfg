SPECIFICATION Spec
SYMMETRY Symmetry
CONSTANTS
    c1 = c1
    c2 = c2
    t1 = t1
    None = None
    Calls = {c1, c2}
    Ops = {"connect", "reconnect", "disconnect", "challenge"}
    HangUps = {c1}
    Tunnels = {t1}
    QueueCap = 1
    EventCap = 1
    Reports = {"connected", "disconnected"}
CHECK_DEADLOCK FALSE
INVARIANT MutexHeld
PROPERTY OnlyADropOrphans
PROPERTY OnlyTheseStick
