\* Every operation on one release and its members, two at a time.
SPECIFICATION Spec
CONSTANTS
    p1 = p1
    p2 = p2
    x = x
    y = y
    r1 = r1
    Proc = {p1, p2}
    Entry = {x, y}
    Release = {r1}
    Members <- EveryEntry
    FirstPublished = {x, y}
    Route = {x, y}
    RouteOf <- OwnRoutes
    Op = {"create", "validate", "schedule", "cancel", "execute", "due", "rollback", "publish"}
    None = None
    MaxRev = 2
    MaxOps = 4
    MaxCrashes = 1
SYMMETRY Alike
INVARIANTS
    NeverPartial
    ReleasesAccounted
PROPERTIES
    RollbackReplacesOwn
\* Nobody has to ask for anything more.
CHECK_DEADLOCK FALSE
