SPECIFICATION MCFairSpec
CONSTANTS
    q1 = q1
    q2 = q2
    c1 = c1
    n1 = n1
    n2 = n2
    r1 = r1
    r2 = r2
    p1 = p1
    p2 = p2
    m1 = m1
    m2 = m2
    u1 = u1
    k1 = k1
    k2 = k2
    s1 = s1
    v1 = v1
    h1 = h1
    h2 = h2
    e1 = e1
    e2 = e2
    w1 = w1
    w2 = w2
    Requests = {q1, q2}
    Commands = {}
    Editors = {c1}
    Names = {n1, n2}
    None = None
    Absent = Absent
    MaxMfaAttempts = 2
    MaxPair = 3
    MaxServers = 2
    Pollers = {p1, p2}
    Second = p2
    Subjects = {"tokens", "feed", "list", "process", "log"}
    Prompts = {m1, m2}
    Clicks = {u1}
    QueueCap = 1
    Missing = Missing
    Texts = {"", "x"}
    MaxList = 2
    MaxNumber = 5
    Lowest = 1
    Highest = 4
    DefaultNumber = 2
    Ids = {w1, w2}
    Tasks = {h1, h2}
    Nobody = Nobody
    Gone = Gone
    Entries = {e1}
    Handlers = {h1, h2}
    Free = Free
    Callers = {r1, r2}
    Unset = Unset
    Torn = Torn
    Blank = Blank
    ProfileIds = {w1}
    Writers = {r1}
    Keys = {k1, k2}
    Nothing = Nothing
    Deleted = Deleted
    Streams = {s1}
    DrainCap = 1
    DisconnectCap = 1
    Viewers = {v1}
    RingCap = 2
    ChannelCap = 2
    MaxDelay = 2
    MaxEvents = 3
CHECK_DEADLOCK FALSE
PROPERTY EachRequestGetsItsTurn
PROPERTY StatusEventuallyTrue
PROPERTY ButtonsComeBack
PROPERTY ShutdownCompletes
PROPERTY ViewerComesBack
