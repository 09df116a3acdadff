SPECIFICATION Spec
CONSTANTS
    fan = fan
    fog = fog
    ghost = ghost
    Names <- MCNames
    Instruments <- MCInstruments
    Latency <- MCLatency
    MaxContinuous <- MCMaxContinuous
    Scores <- MCScores
    Media = {0, 1, 2, 3, 4, 5}
    Precisions = {1, 2}
    SeekTolerance = 2
    BackwardTolerance = 1
    Failures = {"refused", "unacked"}
INVARIANTS
    SpansWillEnd
    NothingRunsHalted
    CursorMatches
    StartsAreTimely
    NothingDropped
