CONSTANTS
    BufSize = 2
    PipeSize = 3
    Timeout = 2
    MaxOut = 4
    MaxClock = 5
SPECIFICATION FairSpec
PROPERTY TimeoutEnds
CHECK_DEADLOCK FALSE
