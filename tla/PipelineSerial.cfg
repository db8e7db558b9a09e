\* One worker, frames of two schedules, a crash, the session with its default expiry.
\* Uploads run out and every task settles, so a behaviour may end.
SPECIFICATION FairSpec
CONSTANTS
    ann = ann
    bob = bob
    mon = mon
    tue = tue
    up1 = up1
    up2 = up2
    up3 = up3
    clip1 = clip1
    w1 = w1
    w2 = w2
    Nobody = Nobody
    ScheduleOf <- MCScheduleOf
    Workers = {w1}
    Students = {ann}
    Schedules = {mon, tue}
    SnapTasks = {up1, up2, up3}
    ClipTasks = {}
    Window = 0
    Tracking = FALSE
    ExpireOnCommit = TRUE
    RedisMayFail = TRUE
    AdminOps = {}
    MaxTime = 1
    MaxCrashes = 1
INVARIANTS
    OneSightingPerWindow
    EnteredAgainOnlyAfterDeaths
PROPERTIES
    EveryUploadIsSettled
CHECK_DEADLOCK FALSE
