CONSTANTS
    Client = {c1, c2}
    QLen = 1
    Rounds = 3
    MaxBoots = 3
    MaxLives = 1
SPECIFICATION Spec
INVARIANT TypeOK
INVARIANT InOrder
INVARIANT BacklogBound
INVARIANT WedgeNeedsOthers
PROPERTY ImplementsTickets
CHECK_DEADLOCK FALSE
