CONSTANTS
  Msg <- MCMsg
  QUEUE_SIZE = 5
  None = None
SPECIFICATION Spec
INVARIANTS TypeOK InFlightIntact FullIffCapacity
PROPERTIES ImplementsFifo AcceptedIsServed
CHECK_DEADLOCK TRUE
