SPECIFICATION Spec
CONSTANTS
  m1 = m1
  m2 = m2
  m3 = m3
  None = None
  Miners <- ThreeMiners
  First = m1
  MAX_MINERS = 4
  MAX_POLLS = 1
  MaxBlocks = 0
  MaxAlarms <- OneAlarm
  MaxInterrupts = 1
  MaxFailures = 0
CHECK_DEADLOCK FALSE
SYMMETRY Joiners
INVARIANT SemAccounting
INVARIANT RegistryExact
