\* Two cameras with one track id each. The frames run out: a behaviour may end.
SPECIFICATION Spec
CONSTANTS
    front = front
    door = door
    t1 = t1
    t2 = t2
    ann = ann
    bob = bob
    Cameras = {front, door}
    TrackIds = {t1}
    Students = {ann, bob}
    Nobody = Nobody
    Qualities = {1, 2}
    Required = 2
    MaxLost = 1
    DropPercent = 60
    MaxFrames = 6
SYMMETRY Symmetry
INVARIANTS
    TypeOK
    ConfirmedByAgreement
    CarriedIsSteady
    LinksAreConfirmed
    BestFrameOutlivesDrop
CHECK_DEADLOCK FALSE
