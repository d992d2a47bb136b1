SPECIFICATION Spec
CONSTANTS
  m1 = m1
  m2 = m2
  m3 = m3
  None = None
  Miners <- TwoMiners
  First = m1
  MAX_MINERS = 4
  MAX_POLLS = 1
  MaxBlocks = 2
  MaxAlarms <- NoAlarm
  MaxInterrupts = 0
  MaxFailures = 1
CHECK_DEADLOCK FALSE
INVARIANT FirstBlockFirst
INVARIANT ChainLinked
INVARIANT VotesConsistent
INVARIANT SoloLedger
 
