SPECIFICATION FairSpec
CONSTANTS
  w1 = w1
  w2 = w2
  Winners <- TwoWinners
  Total <- Votes
  Fav <- Favourable
  BUFFER_LENGTH = 2
  Wrap = 4
  MAX_MSG = 1
  Passed = 4
  MaxBlocks = 5
  MaxInts = 0
  MaxQueues = 1
  MaxLost = 1
CHECK_DEADLOCK FALSE
INVARIANT SlotsAccounted
INVARIANT RingExclusive
INVARIANT AcceptedShownAccepted
PROPERTY ReachesScreen
