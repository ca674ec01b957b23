CONSTANTS
    NameLens = {0, 1, 4, 15, 16}
    GoodSizes = {16, 40, 84, 8192}
    MaxCalls = 2
SPECIFICATION Spec
INVARIANT ResultHonest
INVARIANT Released
INVARIANT NeverNull
INVARIANT RequestProper
CHECK_DEADLOCK FALSE
