CONSTANTS
    laptop = laptop
    Devices = {laptop}
    Host = laptop
    AdminConsole = AdminConsole
    f1 = f1
    Fds = {f1}
    Payloads = {1, 2}
    MaxCommands = 2
    MaxDbErrors = 1
    Hello = Hello
    Notice = Notice
    NoFd = NoFd
    NoDevice = NoDevice
    MaxDrops = 1
    MaxCrashes = 1
    a = a
    Settings <- OffOrOn
    NoSetting = NoSetting
    Start = Start
    End = End
    Scrap = Scrap
    UserLine = UserLine
    MaxFaults = 1
SPECIFICATION FCFairSpec
INVARIANTS
    FirewallTypeOK
    HostsFileInOrder
PROPERTIES
    ConfigEnforced
    EventuallySent
CHECK_DEADLOCK FALSE
