CONSTANTS
    Duration = 24
    Frame = 2
    MinFrames = 3
    Width = 12
    Grab = 1
    SnapPx = 2
    LabelPx = 4
    MinEventW = 1
    HandlePx = 3
    Ladder <- MCLadder
    MaxTicks = 4000
    Columns = 5
    RowCue = 3
    RowChannel = 2
    RowCollapsed = 2
    Tracks <- MCTracks
    Lead <- MCLead
    Calm <- MCCalm
    Scenes <- MCScenes
    Arrangements <- MCArrangements
    Pointers = {0, 5, 12}
    Playheads = {0, 9, 24}
SPECIFICATION CanvasSpec
INVARIANTS  CurvesReachTheEdges DrawnIsGrabbed SnapsToNearest
PROPERTY WindowFollows
CHECK_DEADLOCK FALSE
