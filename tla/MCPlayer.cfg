SPECIFICATION Spec
CONSTANTS
    MaxJobs = 2
    c0 = c0
    c1 = c1
    Channels = {c0, c1}
    Zero = c0
    MaxSends = 3
    MaxQueue = 1
INVARIANTS
    ChannelHasItsThread
    PlaybackIsClosed
    CloudGoesFirst
PROPERTIES
    UpdateIsTaken
    PlaybackEnds
    ReinitAnswers
    ExitAnswers
CHECK_DEADLOCK FALSE
