\* Two workers, two frames of a schedule, a crash, tracking, erasure and enrolment.
\* Uploads run out and every task settles, so a behaviour may end.
SPECIFICATION Spec
CONSTANTS
    ann = ann
    bob = bob
    mon = mon
    tue = tue
    up1 = up1
    up2 = up2
    up3 = up3
    clip1 = clip1
    w1 = w1
    w2 = w2
    Nobody = Nobody
    ScheduleOf <- MCScheduleOf
    Workers = {w1, w2}
    Students = {ann}
    Schedules = {mon}
    SnapTasks = {up1, up2}
    ClipTasks = {}
    Window = 1
    Tracking = TRUE
    ExpireOnCommit = TRUE
    RedisMayFail = FALSE
    AdminOps = {"erase", "enroll"}
    MaxTime = 2
    MaxCrashes = 1
SYMMETRY Symmetry
INVARIANTS
    NoDuplicateOfASeenSighting
    SuppressedSightingIsRecorded
CHECK_DEADLOCK FALSE
