CONSTANTS
    f1 = f1
    f2 = f2
    gone = gone
    Files = {f1, f2, gone}
    Broken = {gone}
    w1 = w1
    w2 = w2
    Workers = {w1, w2}
    NoFile = NoFile
    Capacity = 2
    Limit = 2
    MaxEvents = 2
    MaxFailures = 1
SPECIFICATION FairSpec
INVARIANTS
    TypeOK
    ClaimsAreHeld
    OnePlacePerFile
PROPERTIES
    EveryFileBackedUp
    StopReturns
CHECK_DEADLOCK FALSE
