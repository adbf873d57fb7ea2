CONSTANTS
    laptop = laptop
    Devices = {laptop}
    AdminConsole = AdminConsole
    f1 = f1
    f2 = f2
    Fds = {f1, f2}
    Payloads = {1}
    MaxCommands = 1
    MaxDbErrors = 0
    Hello = Hello
    Notice = Notice
    NoFd = NoFd
    NoDevice = NoDevice
    MaxDrops = 0
    MaxCrashes = 0
SPECIFICATION QueuedSpec
INVARIANTS
    CommandsReachCallback
CHECK_DEADLOCK FALSE
