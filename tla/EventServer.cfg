CONSTANTS
    Node = {c1, c2, c3}
    HEAD = HEAD
    NULL = NULL
    Fds = {4, 5}
    MaxSend = 1
    MaxRead = 1
SPECIFICATION FairEventSpec
INVARIANT Linked
INVARIANT ListIsOpen
PROPERTY Served
PROPERTY ResetsReleased
