\* One process: a rollback returns to a route that was given away since.
SPECIFICATION Spec
CONSTANTS
    p1 = p1
    x = x
    y = y
    z = z
    r1 = r1
    Proc = {p1}
    Entry = {x, y, z}
    Release = {r1}
    Members <- EveryPublished
    FirstPublished = {x, y}
    Route <- VacatedRoutes
    RouteOf <- VacatedRoute
    Op = {"create", "execute", "rollback", "publish"}
    None = None
    MaxRev = 2
    MaxOps = 4
    MaxCrashes = 0
SYMMETRY Alike
INVARIANTS
    UniqueRoutes
\* Nobody has to ask for anything more.
CHECK_DEADLOCK FALSE
