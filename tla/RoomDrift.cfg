CONSTANTS
    Kind <- MCKind
    Settings <- MCSteps
    Seats <- MCSeats
    Moments = {0, 2000}
    Colours <- MCColours
    Loops = 2
    GapMs = 600
    Glimpses = 3
    MaxEdits = 1
SPECIFICATION Spec
INVARIANT RoomMatchesPlayer
CHECK_DEADLOCK FALSE
