CONSTANTS
    a = a
    t1 = t1
    t2 = t2
    Values = {a}
    Threads = {t1, t2}
    Hole = Hole
    NoThread = NoThread
    MaxSize = 1
    MaxEdits = 1
    MaxFailures = 1
    MaxRestarts = 1
    MaxSessions = 4
SPECIFICATION FairSpec
PROPERTIES
    EventuallyBackedUp
CHECK_DEADLOCK FALSE
