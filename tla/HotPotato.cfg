SPECIFICATION Spec
CONSTANTS
  p1 = p1
  p2 = p2
  p3 = p3
  Procs <- MCProcs
  haspotato <- MCHaspotato
  LeftOver = TRUE
INVARIANTS PotatoInv OneBarrier NobodyLeftPlaying
PROPERTIES OpensMeet
CHECK_DEADLOCK FALSE
