CONSTANTS
    c1 = c1  c2 = c2  c3 = c3
    p1 = p1  p2 = p2  p3 = p3  p4 = p4
    A = A  B = B  C = C
    lamp = lamp  fog = fog  fan = fan
    Cues <- CuesV
    Points <- PointsV
    CueTracks = {A}
    CurveTracks = {B, C}
    Instrument <- InstrumentV
    Rig = {lamp, fog, fan}
    First <- FirstV
    Duration = 2
    MaxTime = 3
    MaxLevel = 1
    MinLength = 1
    MinPiece = 0
    DefaultLength = 1
    Gap = 1
    NoThing = NoThing
    Keep = Keep
    Places = {1, 2}
    MaxSelected = 2
    MaxEdits = 2
SPECIFICATION Spec
INVARIANTS   CurvesAreSaveable StaysSorted
CHECK_DEADLOCK FALSE
