CONSTANTS
    Client = {c1, c2}
    QLen = 1
    MsgMax = 1
    Rounds = 3
    MaxBoots = 2
    MaxLives = 2
SPECIFICATION FairSpec
INVARIANT OnePerProcess
INVARIANT InStep
INVARIANT StarvedOnlyByLoss
INVARIANT NoQueueAfterExit
PROPERTY AnswersArrive
CHECK_DEADLOCK FALSE
