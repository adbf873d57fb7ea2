CONSTANTS
    a = a
    b = b
    t1 = t1
    Values = {a, b}
    Threads = {t1}
    Hole = Hole
    NoThread = NoThread
    MaxSize = 2
    MaxEdits = 1
    MaxFailures = 0
    MaxRestarts = 1
    MaxSessions = 2
SPECIFICATION BeyondHeadSpec
INVARIANTS
    SnapshotHashHolds
CHECK_DEADLOCK FALSE
