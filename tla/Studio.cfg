CONSTANTS
    A = A  B = B  C = C
    Films = {A, B, C}
    Unscored = {C}
    v1 = v1
    Versions = {v1}
    Live = Live
    NoFilm = NoFilm
    NoScore = NoScore
    Plain = Plain
    MaxEdits = 1
    MaxRequests = 5
    MaxInFlight = 2
SPECIFICATION Spec
INVARIANTS SavedMeansSaved  FilesStayHome
PROPERTIES SaveEnds
CHECK_DEADLOCK FALSE
