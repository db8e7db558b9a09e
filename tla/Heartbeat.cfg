SPECIFICATION CapturesSpec
CONSTANTS
    Devices = {"cam1"}
    Sockets = {"c1"}
    Owner <- TheOwner
    Room <- TheRoom
    Classes <- TheClasses
    Interval = 2
    Starts = {1}
    Horizon = 6
    MaxFailures = 1
INVARIANT EveryBoundaryIsCaptured
CHECK_DEADLOCK FALSE
