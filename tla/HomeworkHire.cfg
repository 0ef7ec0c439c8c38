\* Three students; up to four homeworks; money that runs out and money that does not.
\* The program may stop: when it has ended, and in the wait for finito.
SPECIFICATION FairSpec
CONSTANTS
  line_count = 3
  quality <- MCQuality
  speed <- MCSpeed
  cost <- MCCost
  Files <- MCFiles
  Moneys <- MCMoneys
INVARIANTS HireTallies SomeoneIsFree TokensAgree NothingMissing FinitoIsFinal
PROPERTIES ClosesOrWaits
CHECK_DEADLOCK FALSE
