\* One worker, a frame and a clip, a crash, Redis outages, deleted rows.
\* Uploads run out and every task settles, so a behaviour may end.
SPECIFICATION Spec
CONSTANTS
    ann = ann
    bob = bob
    mon = mon
    tue = tue
    up1 = up1
    up2 = up2
    up3 = up3
    clip1 = clip1
    w1 = w1
    w2 = w2
    Nobody = Nobody
    ScheduleOf <- MCScheduleOf
    Workers = {w1}
    Students = {ann, bob}
    Schedules = {mon}
    SnapTasks = {up1}
    ClipTasks = {clip1}
    Window = 0
    Tracking = FALSE
    ExpireOnCommit = FALSE
    RedisMayFail = TRUE
    AdminOps = {"delete", "drop", "enroll"}
    MaxTime = 1
    MaxCrashes = 1
SYMMETRY Symmetry
INVARIANTS
    TypeOK
PROPERTIES
    ImplementsLedger
CHECK_DEADLOCK FALSE
