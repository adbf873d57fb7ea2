CONSTANTS
    laptop = laptop
    admin = admin
    Devices = {laptop, admin}
    AdminConsole = admin
    f1 = f1
    f2 = f2
    Fds = {f1, f2}
    Payloads = {1}
    MaxCommands = 1
    MaxDbErrors = 1
    Hello = Hello
    Notice = Notice
    NoFd = NoFd
    NoDevice = NoDevice
    MaxDrops = 1
    MaxCrashes = 1
SPECIFICATION CDSpec
SYMMETRY FdSymmetry
INVARIANTS
    TypeOK
    ConnectedIsServed
    NodePerThread
    ActiveCoversThreads
    CommandTypeOK
    DrainNeverFails
    NothingLostWhileConnected
PROPERTIES
    KeepsQueuePromise
CHECK_DEADLOCK FALSE
