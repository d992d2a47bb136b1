SPECIFICATION Spec
CONSTANTS
  w1 = w1
  w2 = w2
  Winners <- OneWinner
  Total <- Votes
  Fav <- Favourable
  BUFFER_LENGTH = 10
  Wrap = 256
  MAX_MSG = 9
  Passed = 250
  MaxBlocks = 17
  MaxInts = 0
  MaxQueues = 1
  MaxLost = 0
CHECK_DEADLOCK FALSE
INVARIANT NoBlockLost
