SPECIFICATION FairSpec
CONSTANTS
  POW_LIMIT = 7
  BIG_X = 3
  BIG_Y = 4
  nthreads = 2
  MaxRounds = 3
  MaxFailures = 1
  MaxKills = 1
CHECK_DEADLOCK FALSE
INVARIANT TypeOK
INVARIANT AdvancesOnlyAccepted
INVARIANT ChainUnlessGap
PROPERTY EveryoneEnds
