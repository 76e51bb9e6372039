\* A worker, its schedules and a crash, while the draft and the schedule change.
SPECIFICATION FairSpec
CONSTANTS
    author = author
    p1 = p1
    pub1 = pub1
    q1 = q1
    s1 = s1
    w1 = w1
    Proc = {p1, w1}
    Worker = {w1}
    Actor = {author, pub1}
    Publisher = {pub1}
    Request = {q1}
    Schedule = {s1}
    MinApprovals = 1
    Op = {"transition", "approve", "reject", "update", "publish", "schedule", "cancel", "due"}
    Offered = {"approve", "publish"}
    FollowHistory = TRUE
    Start = {"none", "in-review"}
    None = None
    MaxOps = 4
    MaxCrashes = 1
INVARIANTS
    ReviewCovers
PROPERTIES
    SchedulesSettle
    ActionsEventuallyEnqueued
