CONSTANTS
    Client = {c1}
    QLen = 2
    Rounds = 5
    MaxBoots = 2
    MaxLives = 2
SPECIFICATION FairSpec
INVARIANT Lateness
INVARIANT BacklogBound
PROPERTY RunsEnd
CHECK_DEADLOCK FALSE
