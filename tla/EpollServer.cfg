CONSTANTS
    Client = {c1, c2, c3}
    Listen = Listen
    MAXLINE = 2
    MaxEvents = 2
    MaxFds = 2
    Sizes = {2, 3}
    MaxSend = 4
SPECIFICATION Spec
INVARIANT BacklogIsMerged
INVARIANT UnreadIsMerged
INVARIANT ClosedAfterAll
PROPERTY BatchesEnd
CHECK_DEADLOCK FALSE
