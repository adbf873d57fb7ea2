CONSTANTS
    Stored <- TwoVersions
    Units = {"a1", "a2", "b1"}
    Hole = Hole
    Absent = Absent
    Original = Original
    w1 = w1
    w2 = w2
    Workers = {w1, w2}
    Capacity = 1
    MaxCommands = 2
    MaxFailures = 1
    MaxDiskErrors = 1
    MaxRestarts = 1
SPECIFICATION FairSpec
INVARIANTS
    TypeOK
    OneRestoreAtATime
    RestoredBeginsWithVersion
PROPERTIES
    EverySessionEnds
    RemovedFileComesBack
CHECK_DEADLOCK FALSE
