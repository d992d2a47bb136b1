SPECIFICATION Spec
CONSTANTS
  m1 = m1
  m2 = m2
  m3 = m3
  None = None
  Miners <- TwoMiners
  First = m1
  MAX_MINERS = 4
  MAX_POLLS = 1
  MaxBlocks = 1
  MaxAlarms <- NoAlarm
  MaxInterrupts = 0
  MaxFailures = 0
CHECK_DEADLOCK FALSE
INVARIANT UniqueBlockId
