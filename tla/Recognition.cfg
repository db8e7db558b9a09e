SPECIFICATION Spec
CONSTANTS
    Students = {"ann", "bob"}
    Rows = {1, 2, 3, 4}
    Models = {"lvface", "arcface"}
    Template <- TheTemplates
    Frames <- TheFrames
    GateSets <- TheGates
    Tables <- TheTables
    Scale = 6
    MaxEdits = 1
    Deployments = {{"triton", "yolov12", "dual_pass", "super_resolution", "codeformer", "lvface", "preprocessing"}, {"adaface", "codeformer", "preprocessing"}, {"adaface"}}
    Loadable = {{"yolov8", "arcface", "direct", "lvface"}, {"yolov8", "yolov12", "yolov12_native", "yolo26", "arcface", "lvface"}}
    Budgets = {0, 1}
    DetectorModes = {"none", "yolov12_native", "yolov12_sahi", "yolo26_reference"}
    RestorationModes = {"auto", "both", "none"}
    MaxFaces = 2
    MaxAttempts = 2
    MaxEvents = 1
    People = {"ann", "bob"}
    Uploads = {"u", "v"}
    Labels = {"frontal", "left_34"}
    Seen = {"a1", "a2", "a3", "b1"}
    Similarity <- TheSimilarity
    Requests <- TheRequests
    Enrolled = {"bob"}
    Known <- NoTemplates
    DuplicateFrom = 995
    CollisionFrom = 930
    StrictFrom = 850
    RelaxedFrom = 780
    Margin = 80
    Places = 1
    Reserves = 1
    MaxRevisions = 1
    Clips <- TheClips
    MinPulse = 3
INVARIANTS
    TypeOK
    MatchesRestOnATemplate
    MarginOverTheBank
    AbortedFrameReportsNothing
    RestorationsWithinBudget
    TemplatesStayApart
    UploadAccountsForEveryPhoto
    OnePersonPerPhoto
    LiveSurvivesLoss
PROPERTIES
    OwnPhotoVerifies
CHECK_DEADLOCK FALSE
