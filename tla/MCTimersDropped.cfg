SPECIFICATION Spec
CONSTANTS
    TimerNumber = 2
    Servers = {"device", "video"}
    Manager = "manager"
    Handlers = {"reset", "check", "release", "delayed"}
    Delayed = "delayed"
    Owner <- MCOwner
    Once = {"release", "delayed"}
    GivenUp = {"check"}
    Interval <- MCInterval
    Wrap = 3
    MaxAsks = 1
    MaxQueue = 1
PROPERTIES
    DroppedMeansGone
CHECK_DEADLOCK FALSE
