CONSTANTS
    Boards <- MCBoards
    W <- MCW
SPECIFICATION Spec
INVARIANTS TypeOK Recorded
PROPERTIES SpreadKeptOffLimit NoOvershoot Reached VoltEnds SoftOrdered SoftDone
CHECK_DEADLOCK FALSE
