CONSTANTS
    Stored <- TwoVersions
    Units = {"a1", "a2", "b1"}
    Hole = Hole
    Absent = Absent
    Original = Original
    w1 = w1
    w2 = w2
    Workers = {w1, w2}
    Capacity = 2
    MaxCommands = 2
    MaxFailures = 1
    MaxDiskErrors = 0
    MaxRestarts = 1
SPECIFICATION Spec
INVARIANT RestoredIsVersion
CHECK_DEADLOCK FALSE
