SPECIFICATION Spec
CONSTANTS
  n_procs = 2
  Leftover = 0
  MaxRounds = 2
  MaxInts = 1
CHECK_DEADLOCK FALSE
INVARIANT TypeOK
INVARIANT SemAccounting
INVARIANT OneCandidate
INVARIANT CountedOnce
