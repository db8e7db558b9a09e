SPECIFICATION Spec
CONSTANTS
    ann = ann
    bob = bob
    t1 = t1
    t2 = t2
    f1 = f1
    f2 = f2
    Students = {ann, bob}
    Rows = {1, 2, 3, 4}
    Tx = {t1, t2}
    Faces = {f1, f2}
    Poses = {"frontal"}
    Labels = {"frontal"}
    Label <- OwnLabel
    Scores = {1, 2}
    Needed <- OnePerPose
    MinActive = 1
    ActiveLimit = 1
    BackupLimit = 1
    Stored <- Tables
    Requested = {ann}
    MaxRequests = 3
SYMMETRY Symmetry
INVARIANTS
    TypeOK
    EnrolledAsCounted
    ForgottenStayForgotten
PROPERTIES
    RefreshKeepsOneActive
    RefreshExchangesTemplates
CHECK_DEADLOCK FALSE
