SPECIFICATION FairSpec
CONSTANTS
  POW_LIMIT = 11
  BIG_X = 3
  BIG_Y = 5
  nthreads = 3
  MaxRounds = 2
CHECK_DEADLOCK FALSE
INVARIANT TypeOK
INVARIANT SearchResult
PROPERTY WrittenOnce
PROPERTY SearchEnds
