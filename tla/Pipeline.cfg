SPECIFICATION FairSpec
CONSTANTS
  Programs = {p1, p2, p3}
  Miners = {m1, m2}
  Rounds = {2}
  BUFFER_LENGTH = 2
  MAX_MSG = 1
  MaxSegments = 2
  MaxQueues = 2
  MaxKills = 1
  Mortal = {p1}
CHECK_DEADLOCK FALSE
INVARIANT TypeOK
INVARIANT SlotsAccounted
INVARIANT NoLeftover
 
PROPERTY EndReachesMonitor
