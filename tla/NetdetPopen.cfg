CONSTANTS
    BufSize = 2
    PipeSize = 3
    Timeout = 2
    MaxOut = 4
    MaxClock = 5
SPECIFICATION FairSpec
INVARIANT LostOnlyAfterSelect
INVARIANT HandOver
PROPERTY NotStoppedEarly
PROPERTY Returns
CHECK_DEADLOCK FALSE
