CONSTANT MaxReq = 3
SPECIFICATION Spec
INVARIANT InOrder
PROPERTY Delivered
CHECK_DEADLOCK FALSE
