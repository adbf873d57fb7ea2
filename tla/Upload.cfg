CONSTANTS
    a = a
    b = b
    t1 = t1
    t2 = t2
    Values = {a, b}
    Threads = {t1, t2}
    Hole = Hole
    NoThread = NoThread
    MaxSize = 2
    MaxEdits = 1
    MaxFailures = 1
    MaxRestarts = 1
    MaxSessions = 3
SPECIFICATION Spec
SYMMETRY Symmetry
INVARIANTS
    TypeOK
    OffsetIsStored
    SnapshotsAreTheFile
    UndisturbedHashHolds
CHECK_DEADLOCK FALSE
