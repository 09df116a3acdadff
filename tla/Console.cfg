CONSTANTS
    Films = {"a"}
    Pieces = 2
    MaxPosts = 2
    MaxAsks = 1
    MaxRestarts = 1
    Names = {"a", "b", "c"}
    Words <- MCWords
    Queries = {{}, {"x"}, {"y"}, {"z"}}
    Sizes = {0, 1}
    Notes = {"", "war", "war "}
    Tidied <- MCTidied
    Lights = {"l", "m"}
    Trims = {0, 1}
    MaxMoves = 3
    Rigs = {1, 2, 3}
    FirstShelves <- MCFirstShelves
    Imports <- MCImports
    MaxDevices = 2
    MaxEdits = 2
    MaxCalls = 2
    Boards = {"a", "b"}
    Wirings = {"bare", "wired"}
    Bare = "bare"
    People = {"p", "q"}
    Gates = {0, 1}
    WantedColumns = {0, 6, 12}
    WantedHeights = {100, 400}
    Cameras = {"front", "side"}
    NoCamera = "none"
    ViewNames = {"", "wide", "wide ", "near"}
    CleanNames <- MCCleanNames
    FirstViewports <- MCFirstViewports
    FirstLists <- MCFirstLists
    MaxViews = 2
    FirstLights <- MCFirstLights
    Levels = {0, 40}
    MaxArranged = 3
SPECIFICATION Spec
INVARIANTS DevicesWouldStart ReopensAsArranged
PROPERTIES   ChosenStaysInUse
CHECK_DEADLOCK FALSE
