\* Three children, so that two can wait for the lock while one has it; SIGINT once.
SPECIFICATION FairSpec
CONSTANTS
  POLY_NUMBER = 3
  SigintBound = 1
INVARIANTS RoundsInv ErrorOfWholeRound
PROPERTIES NoSignalMerged EndsOrOrphans
CHECK_DEADLOCK FALSE
