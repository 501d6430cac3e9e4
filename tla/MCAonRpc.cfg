CONSTANTS
  QUEUE_SIZE = 3
  Kinds <- MCKinds
  MaxReq = 4
  None = None
SPECIFICATION Spec
INVARIANTS TypeOK TableConsistent ReplyMatches AnsweredAtMostOnce CpuhpIsFound
PROPERTY QueuedIsAnswered
