SPECIFICATION FairSpec
CONSTANTS
  Stream <- MCStream
  Capacity = 1
INVARIANT WholeInOrder
INVARIANT LastWords
PROPERTY MessagesArrive
PROPERTY EndsWithClient
CHECK_DEADLOCK FALSE
