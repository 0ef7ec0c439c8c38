\* Two workers and SIGINT.
SPECIFICATION FairSpec
CONSTANTS
  w1 = w1
  w2 = w2
  Nobody = Nobody
  Workers <- MCTwo
  MaxConn = 1
  MaxErr = 0
  MaxBroken = 0
  MaxSig = 1

PROPERTIES SigintEndsServer
CHECK_DEADLOCK FALSE
