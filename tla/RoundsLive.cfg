SPECIFICATION FairSpec
CONSTANTS
  m1 = m1
  m2 = m2
  m3 = m3
  None = None
  Miners <- TwoMiners
  First = m1
  MAX_MINERS = 4
  MAX_POLLS = 1
  MaxBlocks = 1
  MaxAlarms <- FirstsAlarm
  MaxInterrupts = 0
  MaxFailures = 1
CHECK_DEADLOCK FALSE
INVARIANT TypeOK
INVARIANT ExclusionUnlessInterrupted
PROPERTY WinnerLeavesPoll
PROPERTY SoloEnds
