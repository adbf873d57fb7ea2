CONSTANTS
    laptop = laptop
    phone = phone
    Devices = {laptop, phone}
    AdminConsole = AdminConsole
    f1 = f1
    f2 = f2
    Fds = {f1, f2}
    Payloads = {1}
    MaxCommands = 1
    MaxDbErrors = 0
    Hello = Hello
    Notice = Notice
    NoFd = NoFd
    NoDevice = NoDevice
    MaxDrops = 1
    MaxCrashes = 0
SPECIFICATION CDSpec
INVARIANTS
    OnlyItsOwnCommands
CHECK_DEADLOCK FALSE
