\* Two workers, as after --scale cv-worker=2, and two frames: FR-5.7.
\* Uploads run out and every task settles, so a behaviour may end.
SPECIFICATION Spec
CONSTANTS
    ann = ann
    bob = bob
    mon = mon
    tue = tue
    up1 = up1
    up2 = up2
    up3 = up3
    clip1 = clip1
    w1 = w1
    w2 = w2
    Nobody = Nobody
    ScheduleOf <- MCScheduleOf
    Workers = {w1, w2}
    Students = {ann}
    Schedules = {mon}
    SnapTasks = {up1, up2}
    ClipTasks = {}
    Window = 1
    Tracking = FALSE
    ExpireOnCommit = TRUE
    RedisMayFail = FALSE
    AdminOps = {}
    MaxTime = 2
    MaxCrashes = 0
INVARIANTS
    OneSightingPerWindow
CHECK_DEADLOCK FALSE
