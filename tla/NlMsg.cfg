CONSTANTS
    Sizes = {0, 3, 13, 24}
    StructSizes = {2, 4}
    DataSizes = {0, 1, 6}
SPECIFICATION Spec
INVARIANT Fits
INVARIANT RowsInside
INVARIANT ProperlyNested
INVARIANT NoHoles
CHECK_DEADLOCK FALSE
