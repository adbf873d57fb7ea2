CONSTANTS
    Fold <- Lower
    Strays <- LookAlikes
    Escaped <- Backslashed
    TooLong <- Longest
    Device = "pc"
    Strangers <- Foreign
    Events <- Changes
    t1 = t1
    t2 = t2
    Threads = {t1, t2}
    NoThread = NoThread
    BatchSize = 2
    MaxEvents = 3
    MaxFaults = 1
SPECIFICATION FairSpec
INVARIANTS
    TypeOK
    OnceIfNothingFails
    TreeFollowsLog
    EveryNodeIsFound
PROPERTIES
    ReplicatesLog
    EventuallySynced
CHECK_DEADLOCK FALSE
