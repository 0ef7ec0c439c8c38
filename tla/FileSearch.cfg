SPECIFICATION Spec
CONSTANTS
  Top <- MCTop
  Disks <- MCDisks
  Criteria <- MCCriteria
  MayBeClosed <- MCMayBeClosed
  MaxSig = 1
  MaxVanish = 1
INVARIANTS PatternAgrees TreeInv PrintedIsTrue
PROPERTIES SearchEnds
CHECK_DEADLOCK FALSE
