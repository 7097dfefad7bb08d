SPECIFICATION Spec
SYMMETRY Symmetry
CONSTANTS
    c1 = c1
    c2 = c2
    c3 = c3
    t1 = t1
    t2 = t2
    None = None
    Calls = {c1, c2, c3}
    Ops = {"connect"}
    HangUps = {c1, c2, c3}
    Tunnels = {t1, t2}
    QueueCap = 1
    EventCap = 1
    Reports = {"connected", "disconnected", "other"}
CHECK_DEADLOCK FALSE
INVARIANT OneDialAtATime
INVARIANT ConnectedIsWatched
PROPERTY ImplementsLifecycle
