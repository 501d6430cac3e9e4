CONSTANT MaxReq = 4
SPECIFICATION Spec
INVARIANT AckIgnored
CHECK_DEADLOCK FALSE
