SPECIFICATION Spec
CONSTANTS
    Frame = 3
    Stall = 2
    SeekFrames = 1
    Poll = 1
    Gap = 2
    Latency = 1
    End = 16
INVARIANTS
    
    PauseIsNoticed
    PlayIsNoticed
