\* The reader-writer lock: three threads, a table of two rows and two columns.
SPECIFICATION FairSpec
CONSTANTS
  t1 = t1
  t2 = t2
  t3 = t3
  a = a
  b = b
  Threads <- MCThreads
  NumRows = 2
  NumCols = 2
  Values = {a, b}
  NULL = NULL
  Requests <- MCRequests
INVARIANTS Exclusion IInv
PROPERTIES Linearizable WritersGetIn EveryQueryAnswered
