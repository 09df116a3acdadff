CONSTANTS
    p1 = p1
    Pages = {p1}
    room = room  bench = bench
    Rigs = {room, bench}
    Chosen = room
    Quiet = 2
    MaxSessions = 2
    MaxAsks = 3
    MaxNaps = 1
SPECIFICATION LiveSpec
PROPERTIES  PageLearns NothingLeftRunning
CHECK_DEADLOCK FALSE
