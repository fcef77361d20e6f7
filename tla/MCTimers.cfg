SPECIFICATION Spec
CONSTANTS
    TimerNumber = 2
    Servers = {"device", "video"}
    Manager = "manager"
    Handlers = {"reset", "check", "release", "delayed"}
    Delayed = "delayed"
    Owner <- MCOwner
    Once = {"release", "delayed"}
    GivenUp = {"check"}
    Interval <- MCInterval
    Wrap = 3
    MaxAsks = 3
    MaxQueue = 1
INVARIANTS
    OneTimerPerHandler
    TimersAreKept
PROPERTIES
    PeriodicTimersGoOn
    GoneServersLoseTheirTimers
CHECK_DEADLOCK FALSE
