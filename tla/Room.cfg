CONSTANTS
    Kind <- MCKind
    Settings <- MCSettings
    Seats <- MCSeats
    Moments = {0, 2000}
    Colours <- MCColours
    Loops = 2
    GapMs = 600
    Glimpses = 3
    MaxEdits = 1
SPECIFICATION Spec
INVARIANTS DrawnIsCurrent NothingHeld
PROPERTIES PreviewEnds EffectsLandAsPreviewed
CHECK_DEADLOCK FALSE
