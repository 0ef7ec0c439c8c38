\* Three workers and a SIGINT at any moment of the start-up.
SPECIFICATION FairStartupSpec
CONSTANTS
  w1 = w1
  w2 = w2
  w3 = w3
  Main = Main
  Nobody = Nobody
  Workers <- MCThree
  MaxSig = 1
INVARIANTS StartupInv
PROPERTIES StartupEnds
CHECK_DEADLOCK FALSE
