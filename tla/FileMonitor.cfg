CONSTANTS
    wild = wild
    dir = dir
    Dirs = {dir}
    Root = Root
    Names = {wild}
    Ids = {1, 2, 3, 4}
    None = None
    w1 = w1
    w2 = w2
    Workers = {w1, w2}
    Capacity = 2
    Strays <- LookAlikes
    MaxChanges = 3
    MaxTroubles = 1
SPECIFICATION FairSpec
INVARIANTS
    TypeOK
    EveryChangeFindsItsFile
    InOrderRowsAreCurrent
    LogMatchesRows
PROPERTIES
    EventuallyQuiet
CHECK_DEADLOCK FALSE
