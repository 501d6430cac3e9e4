CONSTANTS
    Boards <- MCBoards
    W <- MCW
SPECIFICATION Spec
PROPERTIES SpreadKept
CHECK_DEADLOCK FALSE
