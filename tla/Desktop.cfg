SPECIFICATION Spec
CONSTANTS
    SurfaceW = 640
    SurfaceH = 480
    Word = 65536
    SlotMax = 4
    Apps = {"system"}
    MaxTries = 2
    QueueMax = 3
    MaxInputs = 4
    EdgeSpots <- MCEdgeSpots
    MenuSpots <- MCMenuSpots
    BarSpots <- MCBarSpots
    DeskSpots <- MCDeskSpots
    Cursors <- MCCursors
    NoClient = NoClient
    NoWin = NoWin
    Unknown = Unknown
CHECK_DEADLOCK FALSE
INVARIANTS SlotsAreWindows FocusAgrees TaskbarIsFresh StaysWherePut
