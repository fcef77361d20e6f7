SPECIFICATION Spec
CONSTANTS
    MaxJobs = 2
    Modes = {"none", "all"}
    MaxSends = 2
    MaxQueue = 2
INVARIANTS
    CardIsReleased
    OnePlanIsWritten
    OffMeansOff
PROPERTIES
    StopEnds
    FormatIsAnswered
    ExitEnds
CHECK_DEADLOCK FALSE
