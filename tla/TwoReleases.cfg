\* Two releases of the same entries, on schedule and on demand.
SPECIFICATION FairSpec
CONSTANTS
    p1 = p1
    p2 = p2
    x = x
    y = y
    r1 = r1
    r2 = r2
    Proc = {p1, p2}
    Entry = {x, y}
    Release = {r1, r2}
    Members <- EveryEntry
    FirstPublished = {}
    Route = {x, y}
    RouteOf <- OwnRoutes
    Op = {"create", "schedule", "cancel", "execute", "due"}
    None = None
    MaxRev = 1
    MaxOps = 4
    MaxCrashes = 0
PROPERTIES
    ExecutionSettles
\* Nobody has to ask for anything more.
CHECK_DEADLOCK FALSE
