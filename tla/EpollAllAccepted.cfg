CONSTANTS
    Client = {c1, c2}
    Listen = Listen
    MAXLINE = 2
    MaxEvents = 2
    MaxFds = 2
    Sizes = {1, 2, 3}
    MaxSend = 3
SPECIFICATION Spec
PROPERTY AllAccepted
CHECK_DEADLOCK FALSE
