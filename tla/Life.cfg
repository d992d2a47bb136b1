SPECIFICATION Spec
CONSTANTS
  p1 = p1
  p2 = p2
  p3 = p3
  c1 = c1
  None = None
  Procs <- ThreeProcs
  Monitors <- OneMonitor
  MAX_MINERS = 2
  Seconds = {0, 5}
  Threads = {1}
  MaxSegments = 3
  MaxSignals = 2
  MaxFailures = 1
  MaxKills = 1
CHECK_DEADLOCK FALSE
SYMMETRY Interchangeable
INVARIANT TypeOK
INVARIANT InitialisedOnce
INVARIANT SharedUntilSomeoneLeaves
INVARIANT NoLeftover
 
INVARIANT LedgerEndsWithMiner
