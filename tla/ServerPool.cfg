\* Two workers, four connections, one accept error, one broken client, SIGINT.
SPECIFICATION FairSpec
CONSTANTS
  w1 = w1
  w2 = w2
  Nobody = Nobody
  Workers <- MCTwo
  MaxConn = 4
  MaxErr = 1
  MaxBroken = 1
  MaxSig = 1
INVARIANTS SlotsTally NoMissedWakeup
PROPERTIES ServesInOrder EveryConnectionServed
CHECK_DEADLOCK FALSE
