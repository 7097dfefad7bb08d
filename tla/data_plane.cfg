SPECIFICATION PlaneSpec
CONSTANTS
    rec = rec
    r1 = r1
    i1 = i1
    None = None
    Rec = rec
    Layout <- RouteSteps
    Runs = {r1, rec}
    HangUps = {r1}
    ApiOps = {"setup", "teardown"}
    Entries <- NoEntries
    Existing <- NewRouter
    Copies = 3
    MaxFaults = 1
    Ifaces = {i1}
    EventCap = 1
    Races = TRUE
    Restarts = TRUE
INVARIANT FailClosed
INVARIANT EngagedWhenUp
