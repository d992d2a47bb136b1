SPECIFICATION Spec
CONSTANTS
  w1 = w1
  w2 = w2
  Winners <- TwoWinners
  Total <- Votes
  Fav <- Favourable
  BUFFER_LENGTH = 2
  Wrap = 4
  MAX_MSG = 1
  Passed = 0
  MaxBlocks = 2
  MaxInts = 2
  MaxQueues = 2
  MaxLost = 0
CHECK_DEADLOCK FALSE
INVARIANT TypeOK
INVARIANT QueueIsTheInbox
